--------------------------- MODULE AggregatorProofs ---------------------------
(***************************************************************************)
(* Proofs about the two Go programs that aggregate the states of a pool:   *)
(* the store with its predictor and its validator (StateAggregator), for   *)
(* any number of updaters, readers and chains and any reports, and the     *)
(* aggregator process (SyncHookAggregator), for any tasks, operators,      *)
(* pools and reports.  What PoolMetrics computes for both is proved once.  *)
(*                                                                         *)
(* The sums and the square root are recursive.  What they compute is shown *)
(* by minimal counterexample: the set of the arguments for which a formula *)
(* is false has a least member, and an unfolding contradicts it.           *)
(***************************************************************************)
EXTENDS StateAggregator, SyncHookAggregator, FiniteSetTheorems, WellFoundedInduction, TLAPS

-----------------------------------------------------------------------------
(* Sums over a finite set of chains *)

\* The chain that the community module adds last to the sum of s.
Pick(s) == CHOOSE x \in s : TRUE

\* g holds the sum of w over each subset of S.
Sums(g, w, S) == g = [s \in SUBSET S |-> IF s = {} THEN 0 ELSE w[Pick(s)] + g[s \ {Pick(s)}]]

\* SumFunctionOnSet chooses such a function.
LEMMA SumUnfold == ASSUME NEW w, NEW S
   PROVE SumFunctionOnSet(w, S) = (CHOOSE g : Sums(g, w, S))[S]
BY DEF SumFunctionOnSet, FoldFunctionOnSet, MapThenFoldSet, Sums, Pick

\* A nonempty set of subsets of a finite set has a smallest one.
LEMMA MinimalSubset ==
   ASSUME NEW S, IsFiniteSet(S), NEW B \in SUBSET (SUBSET S), B # {}
   PROVE \E T \in B : \A U \in B : U \subseteq T => U = T
<1>1. B \subseteq FiniteSubsetsOf(S)
  BY FS_Subset DEF FiniteSubsetsOf
<1>2. \E x \in B : \A y \in B : ~ (<<y, x>> \in StrictSubsetOrdering(S))
  BY <1>1, FS_StrictSubsetOrderingWellFounded, WFMin
<1> QED BY <1>2 DEF StrictSubsetOrdering

\* Two such functions agree wherever both are defined.
LEMMA SumsUnique ==
   ASSUME NEW w, NEW S, IsFiniteSet(S), NEW T, IsFiniteSet(T), NEW g, NEW h, Sums(g, w, S), Sums(h, w, T),
          NEW u \in SUBSET S, u \in SUBSET T
   PROVE g[u] = h[u]
<1> DEFINE B == {v \in SUBSET S : v \in SUBSET T /\ g[v] # h[v]}
<1> SUFFICES ASSUME B # {} PROVE FALSE
  OBVIOUS
<1>1. PICK v \in B : \A x \in B : x \subseteq v => x = v
  <2>1. B \in SUBSET (SUBSET S)
    OBVIOUS
  <2> HIDE DEF B
  <2> QED BY <2>1, MinimalSubset
<1>2. CASE v = {}
  BY <1>2 DEF Sums
<1>3. CASE v # {}
  <2>1. PICK x : x = Pick(v) /\ x \in v
    BY <1>3 DEF Pick
  <2>2. v \ {x} \in SUBSET S /\ v \ {x} \in SUBSET T /\ v \ {x} \subseteq v /\ v \ {x} # v
    BY <2>1
  <2>3. g[v \ {x}] = h[v \ {x}]
    BY <1>1, <2>2
  <2>4. g[v] = w[x] + g[v \ {x}]
    BY <1>3, <2>1 DEF Sums
  <2>5. h[v] = w[x] + h[v \ {x}]
    BY <1>3, <2>1 DEF Sums
  <2> QED BY <2>3, <2>4, <2>5
<1> QED BY <1>2, <1>3

\* There is one, so the choice made by SumFunctionOnSet is one.
LEMMA SumsExist ==
   ASSUME NEW w, NEW S, IsFiniteSet(S)
   PROVE \E g : Sums(g, w, S)
<1> DEFINE B == {v \in SUBSET S : ~ \E g : Sums(g, w, v)}
<1> SUFFICES ASSUME B # {} PROVE FALSE
  OBVIOUS
<1>1. PICK T \in B : \A x \in B : x \subseteq T => x = T
  <2>1. B \in SUBSET (SUBSET S)
    OBVIOUS
  <2> HIDE DEF B
  <2> QED BY <2>1, MinimalSubset
<1>2. \A U \in SUBSET T : U # T => \E g : Sums(g, w, U)
  BY <1>1
<1>f. \A U \in SUBSET T : IsFiniteSet(U)
  BY FS_Subset
<1>3. PICK G : G = [U \in SUBSET T |-> CHOOSE g : Sums(g, w, U)]
  OBVIOUS
<1>4. \A U \in SUBSET T : U # T => Sums(G[U], w, U)
  BY <1>2, <1>3
<1>5. PICK h : h = [s \in SUBSET T |-> IF s = {} THEN 0 ELSE w[Pick(s)] + G[s \ {Pick(s)}][s \ {Pick(s)}]]
  OBVIOUS
<1>6. ASSUME NEW s \in SUBSET T, s # T PROVE h[s] = G[s][s]
  <2>1. Sums(G[s], w, s)
    BY <1>4, <1>6
  <2>2. CASE s = {}
    BY <1>5, <2>1, <2>2 DEF Sums
  <2>3. CASE s # {}
    <3>1. PICK x : x = Pick(s) /\ x \in s
      BY <2>3 DEF Pick
    <3>2. PICK u : u = s \ {x}
      OBVIOUS
    <3>3. u \in SUBSET T /\ u # T /\ u \in SUBSET s /\ u \in SUBSET u
      BY <3>1, <3>2
    <3>4. Sums(G[u], w, u)
      BY <1>4, <3>3
    <3>5. G[s][u] = G[u][u]
      <4>1. PICK g1, g2 : g1 = G[s] /\ g2 = G[u]
        OBVIOUS
      <4>2. IsFiniteSet(s) /\ IsFiniteSet(u) /\ Sums(g1, w, s) /\ Sums(g2, w, u)
        BY <1>f, <2>1, <3>3, <3>4, <4>1
      <4>3. g1[u] = g2[u]
        BY <3>3, <4>2, SumsUnique
      <4> QED BY <4>1, <4>3
    <3>6. G[s][s] = w[x] + G[s][u]
      BY <2>1, <2>3, <3>1, <3>2 DEF Sums
    <3>7. h[s] = w[x] + G[u][u]
      BY <1>5, <2>3, <3>1, <3>2
    <3> QED BY <3>5, <3>6, <3>7
  <2> QED BY <2>2, <2>3
<1>7. ASSUME NEW s \in SUBSET T
      PROVE  h[s] = IF s = {} THEN 0 ELSE w[Pick(s)] + h[s \ {Pick(s)}]
  <2>1. CASE s = {}
    BY <1>5, <2>1
  <2>2. CASE s # {}
    <3>1. PICK x : x = Pick(s) /\ x \in s
      BY <2>2 DEF Pick
    <3>2. s \ {x} \in SUBSET T /\ s \ {x} # T
      BY <3>1
    <3>3. h[s] = w[x] + G[s \ {x}][s \ {x}]
      BY <1>5, <2>2, <3>1
    <3> QED BY <1>6, <2>2, <3>1, <3>2, <3>3
  <2> QED BY <2>1, <2>2
<1>8. Sums(h, w, T)
  <2>1. h = [s \in SUBSET T |-> h[s]]
    BY <1>5
  <2> QED BY <1>7, <2>1 DEF Sums
<1> QED BY <1>1, <1>8

\* One unfolding of the sum.
LEMMA SumStep ==
   ASSUME NEW w, NEW S, IsFiniteSet(S)
   PROVE /\ S = {} => SumFunctionOnSet(w, S) = 0
         /\ S # {} => /\ Pick(S) \in S
                      /\ SumFunctionOnSet(w, S) = w[Pick(S)] + SumFunctionOnSet(w, S \ {Pick(S)})
<1>1. PICK g : g = (CHOOSE f : Sums(f, w, S)) /\ Sums(g, w, S)
  BY SumsExist
<1>2. SumFunctionOnSet(w, S) = g[S]
  BY <1>1, SumUnfold
<1>3. CASE S = {}
  BY <1>1, <1>2, <1>3 DEF Sums
<1>4. CASE S # {}
  <2>1. PICK x : x = Pick(S) /\ x \in S
    BY <1>4 DEF Pick
  <2>2. PICK T : T = S \ {x}
    OBVIOUS
  <2>3. IsFiniteSet(T) /\ T \in SUBSET S /\ T \in SUBSET T
    BY <2>2, FS_Subset
  <2>4. PICK h : h = (CHOOSE f : Sums(f, w, T)) /\ Sums(h, w, T)
    BY <2>3, SumsExist
  <2>5. SumFunctionOnSet(w, T) = h[T]
    BY <2>4, SumUnfold
  <2>6. g[T] = h[T]
    BY <1>1, <2>3, <2>4, SumsUnique
  <2>7. g[S] = w[x] + g[T]
    BY <1>1, <1>4, <2>1, <2>2 DEF Sums
  <2> QED BY <1>2, <1>4, <2>1, <2>2, <2>5, <2>6, <2>7
<1> QED BY <1>3, <1>4

\* The order of the summands does not matter, as Go's iteration over a map
\* requires: any chain may be taken out first.
LEMMA SumRemove ==
   ASSUME NEW S, IsFiniteSet(S), NEW w, \A i \in S : w[i] \in Nat
   PROVE /\ SumFunctionOnSet(w, S) \in Nat
         /\ \A x \in S : SumFunctionOnSet(w, S) = w[x] + SumFunctionOnSet(w, S \ {x})
<1> DEFINE Good(T) == /\ SumFunctionOnSet(w, T) \in Nat
                      /\ \A x \in T : SumFunctionOnSet(w, T) = w[x] + SumFunctionOnSet(w, T \ {x})
           B == {T \in SUBSET S : ~Good(T)}
<1> SUFFICES ASSUME B # {} PROVE FALSE
  <2>1. S \in SUBSET S
    OBVIOUS
  <2> QED BY <2>1
<1>1. PICK T \in B : \A x \in B : x \subseteq T => x = T
  <2>1. B \in SUBSET (SUBSET S)
    OBVIOUS
  <2> HIDE DEF B
  <2> QED BY <2>1, MinimalSubset
<1>2. T \in SUBSET S /\ ~Good(T) /\ \A U \in SUBSET T : U # T => Good(U)
  BY <1>1
<1>3. \A U \in SUBSET T : IsFiniteSet(U)
  BY FS_Subset
<1>4. PICK Sm : Sm = [U \in SUBSET T |-> SumFunctionOnSet(w, U)]
  OBVIOUS
<1>5. CASE T = {}
  <2>1. IsFiniteSet(T)
    BY <1>3
  <2>2. SumFunctionOnSet(w, T) = 0
    BY <1>5, <2>1, SumStep
  <2>3. 0 \in Nat
    OBVIOUS
  <2>4. Good(T)
    BY <1>5, <2>2, <2>3
  <2> QED BY <1>2, <2>4
<1>6. CASE T # {}
  <2>1. PICK p \in T : p = Pick(T)
    BY <1>6 DEF Pick
  <2>2. SumFunctionOnSet(w, T) = w[p] + SumFunctionOnSet(w, T \ {p})
    BY <1>3, <1>6, <2>1, SumStep
  <2>3. T \ {p} \in SUBSET T /\ T \ {p} # T
    OBVIOUS
  <2>4. Good(T \ {p})
    BY <1>2, <2>3
  <2>5. w[p] \in Nat
    BY <1>2
  <2>6. SumFunctionOnSet(w, T) \in Nat
    BY <2>2, <2>4, <2>5
  <2>7. ASSUME NEW x \in T PROVE SumFunctionOnSet(w, T) = w[x] + SumFunctionOnSet(w, T \ {x})
    <3>1. CASE x = p
      BY <2>2, <3>1
    <3>2. CASE x # p
      <4>1. Good(T \ {x})
        <5>1. T \ {x} \in SUBSET T /\ T \ {x} # T
          OBVIOUS
        <5> QED BY <1>2, <5>1
      <4>2. SumFunctionOnSet(w, T \ {p}) = w[x] + SumFunctionOnSet(w, (T \ {p}) \ {x})
        BY <2>4, <3>2
      <4>3. SumFunctionOnSet(w, T \ {x}) = w[p] + SumFunctionOnSet(w, (T \ {x}) \ {p})
        BY <3>2, <4>1
      <4>4. PICK U : U = (T \ {x}) \ {p} /\ U = (T \ {p}) \ {x}
        OBVIOUS
      <4>5. Good(U)
        <5>1. U \in SUBSET T /\ U # T
          BY <4>4
        <5> QED BY <1>2, <5>1
      <4>6. w[x] \in Nat
        BY <1>2
      <4>7. PICK a \in Nat, b \in Nat, c \in Nat : a = w[x] /\ b = w[p] /\ c = SumFunctionOnSet(w, U)
        BY <2>5, <4>5, <4>6
      <4>8. SumFunctionOnSet(w, T) = b + (a + c)
        BY <2>2, <4>2, <4>4, <4>7
      <4>9. SumFunctionOnSet(w, T \ {x}) = b + c
        BY <4>3, <4>4, <4>7
      <4>10. b + (a + c) = a + (b + c)
        OBVIOUS
      <4> QED BY <4>7, <4>8, <4>9, <4>10
    <3> QED BY <3>1, <3>2
  <2>8. Good(T)
    BY <2>6, <2>7
  <2> QED BY <1>2, <2>8
<1> QED BY <1>5, <1>6

\* A weight that is at most, or at least, k times another one has a sum that is.
LEMMA SumCompare ==
   ASSUME NEW S, IsFiniteSet(S), NEW v, NEW w, NEW k \in Nat,
          \A i \in S : v[i] \in Nat /\ w[i] \in Nat
   PROVE /\ (\A i \in S : v[i] <= k * w[i]) => SumFunctionOnSet(v, S) <= k * SumFunctionOnSet(w, S)
         /\ (\A i \in S : v[i] >= k * w[i]) => SumFunctionOnSet(v, S) >= k * SumFunctionOnSet(w, S)
<1> DEFINE Good(T) ==
         /\ (\A i \in T : v[i] <= k * w[i]) => SumFunctionOnSet(v, T) <= k * SumFunctionOnSet(w, T)
         /\ (\A i \in T : v[i] >= k * w[i]) => SumFunctionOnSet(v, T) >= k * SumFunctionOnSet(w, T)
           B == {T \in SUBSET S : ~Good(T)}
<1> SUFFICES ASSUME B # {} PROVE FALSE
  <2>1. S \in SUBSET S
    OBVIOUS
  <2> QED BY <2>1
<1>1. PICK T \in B : \A x \in B : x \subseteq T => x = T
  <2>1. B \in SUBSET (SUBSET S)
    OBVIOUS
  <2> HIDE DEF B
  <2> QED BY <2>1, MinimalSubset
<1>2. T \in SUBSET S /\ ~Good(T) /\ \A U \in SUBSET T : U # T => Good(U)
  BY <1>1
<1>3. IsFiniteSet(T)
  BY <1>2, FS_Subset
<1>4. CASE T = {}
  <2>1. SumFunctionOnSet(v, T) = 0 /\ SumFunctionOnSet(w, T) = 0
    BY <1>3, <1>4, SumStep
  <2>2. k * 0 = 0
    OBVIOUS
  <2> QED BY <1>2, <2>1, <2>2
<1>5. CASE T # {}
  <2>1. PICK x : x \in T
    BY <1>5
  <2>2. PICK U : U = T \ {x}
    OBVIOUS
  <2>3. U \in SUBSET T /\ U # T /\ IsFiniteSet(U)
    BY <1>3, <2>1, <2>2, FS_Subset
  <2>4. PICK a \in Nat, b \in Nat : a = v[x] /\ b = w[x]
    BY <1>2, <2>1
  <2>5. \A i \in T : v[i] \in Nat /\ w[i] \in Nat
    BY <1>2
  <2>6. PICK c \in Nat : c = SumFunctionOnSet(v, U)
    BY <2>3, <2>5, SumRemove
  <2>7. PICK d \in Nat : d = SumFunctionOnSet(w, U)
    BY <2>3, <2>5, SumRemove
  <2>8. SumFunctionOnSet(v, T) = a + c
    BY <1>3, <2>1, <2>2, <2>4, <2>5, <2>6, SumRemove
  <2>9. SumFunctionOnSet(w, T) = b + d
    BY <1>3, <2>1, <2>2, <2>4, <2>5, <2>7, SumRemove
  <2>10. Good(U)
    BY <1>2, <2>3
  <2>11. k * (b + d) = k * b + k * d /\ k * b \in Nat /\ k * d \in Nat
    OBVIOUS
  <2>12. ASSUME \A i \in T : v[i] <= k * w[i] PROVE a + c <= k * (b + d)
    <3>1. a <= k * b
      BY <2>1, <2>4, <2>12
    <3>2. c <= k * d
      BY <2>3, <2>6, <2>7, <2>10, <2>12
    <3> QED BY <2>11, <3>1, <3>2
  <2>13. ASSUME \A i \in T : v[i] >= k * w[i] PROVE a + c >= k * (b + d)
    <3>1. a >= k * b
      BY <2>1, <2>4, <2>13
    <3>2. c >= k * d
      BY <2>3, <2>6, <2>7, <2>10, <2>13
    <3> QED BY <2>11, <3>1, <3>2
  <2>14. Good(T)
    BY <2>8, <2>9, <2>12, <2>13
  <2> QED BY <1>2, <2>14
<1> QED BY <1>4, <1>5
-----------------------------------------------------------------------------
(* The square root *)

\* The states of the loop of sqrt.
Loop(n) == [left : 0 .. n + 1, right : -1 .. n, result : 0 .. n]

\* The middle of the interval, and the two ways to go on.
Mid(s) == (s.left + s.right) \div 2
Upper(s) == [s EXCEPT !.left = Mid(s) + 1, !.result = Mid(s)]
Lower(s) == [s EXCEPT !.right = Mid(s) - 1]

\* One unfolding of the search.
Unfolded(g, n, s) ==
    IF s.left > s.right THEN s.result
    ELSE IF Mid(s) * Mid(s) <= n THEN g[Upper(s)] ELSE g[Lower(s)]

\* g solves the recursion.
IsSearch(g, n) == g = [s \in Loop(n) |-> Unfolded(g, n, s)]

\* How many candidates are left.
Width(s) == s.right + 1 - s.left

\* sqrt chooses a function that satisfies the recursion.
LEMMA SearchChosen ==
  ASSUME NEW n \in Nat \ {0}
  PROVE  sqrt(n) = (CHOOSE g : IsSearch(g, n))[[left |-> 0, right |-> n, result |-> 0]]
<1>1. ~(n <= 0)
  OBVIOUS
<1> QED BY <1>1, Zenon DEF sqrt, IsSearch, Unfolded, Mid, Upper, Lower, Loop

\* A nonempty set of natural numbers has a least one.
LEMMA LeastNumber ==
   ASSUME NEW B \in SUBSET Nat, B # {}
   PROVE \E k \in B : \A m \in B : k <= m
<1> DEFINE R == OpToRel(<, Nat)
<1>1. \A x, y \in Nat : y < x => <<y, x>> \in R
  BY DEF OpToRel
<1>2. IsWellFoundedOn(R, Nat)
  BY NatLessThanWellFounded
<1> HIDE DEF R
<1>3. PICK x \in B : \A y \in B : ~ (<<y, x>> \in R)
  BY <1>2, WFMin
<1>4. \A y \in B : ~(y < x)
  BY <1>1, <1>3
<1> QED BY <1>4

\* Each iteration stays within the bounds and narrows the interval.
LEMMA Narrows ==
  ASSUME NEW n \in Nat, NEW s \in Loop(n), s.left <= s.right
  PROVE  /\ Mid(s) \in 0 .. n
         /\ Upper(s) \in Loop(n) /\ Width(Upper(s)) < Width(s)
         /\ Lower(s) \in Loop(n) /\ Width(Lower(s)) < Width(s)
         /\ Width(s) \in Nat
<1>1. PICK l \in 0 .. n + 1, r \in -1 .. n, t \in 0 .. n : s = [left |-> l, right |-> r, result |-> t]
  BY DEF Loop
<1>2. PICK m \in Int : m = (l + r) \div 2 /\ l <= m /\ m <= r
  BY <1>1
<1>3. m \in 0 .. n /\ m + 1 \in 0 .. n + 1 /\ m - 1 \in -1 .. n
  BY <1>1, <1>2
<1>4. Mid(s) = m
  BY <1>1, <1>2 DEF Mid
<1>5. Upper(s) = [left |-> m + 1, right |-> r, result |-> m]
  <2>1. PICK a \in Int : a = m + 1
    BY <1>2
  <2>2. Upper(s) = [s EXCEPT !.left = a, !.result = m]
    BY <1>4, <2>1 DEF Upper
  <2>3. [s EXCEPT !.left = a, !.result = m] = [left |-> a, right |-> r, result |-> m]
    <3>1. PICK z : z = [s EXCEPT !.left = a]
      OBVIOUS
    <3>2. z = [left |-> a, right |-> r, result |-> t]
      BY <1>1, <3>1
    <3>3. [s EXCEPT !.left = a, !.result = m] = [z EXCEPT !.result = m]
      BY <3>1
    <3> QED BY <3>2, <3>3
  <2> QED BY <2>1, <2>2, <2>3
<1>6. Lower(s) = [left |-> l, right |-> m - 1, result |-> t]
  BY <1>1, <1>4 DEF Lower
<1>7. Width(s) = r + 1 - l /\ Width(Upper(s)) = r + 1 - (m + 1) /\ Width(Lower(s)) = (m - 1) + 1 - l
  BY <1>1, <1>5, <1>6 DEF Width
<1>8. Upper(s) \in Loop(n) /\ Lower(s) \in Loop(n)
  BY <1>1, <1>3, <1>5, <1>6 DEF Loop
<1>9. r + 1 - l \in Nat
  BY <1>1
<1> QED BY <1>1, <1>2, <1>3, <1>4, <1>7, <1>8, <1>9

\* The recursion has a solution: the interval gets narrower.
LEMMA SearchExists ==
  ASSUME NEW n \in Nat
  PROVE  \E g : IsSearch(g, n)
<1> DEFINE Solves(g, k) == /\ DOMAIN g = Loop(n)
                           /\ g = [s \in Loop(n) |-> g[s]]
                           /\ \A s \in Loop(n) : Width(s) < k => g[s] = Unfolded(g, n, s)
           B == {k \in Nat : ~ \E g : Solves(g, k)}
<1>0. \A s \in Loop(n) : Width(s) \in Int /\ Width(s) < n + 2
  BY DEF Width, Loop
<1>1. SUFFICES ASSUME B # {} PROVE FALSE
  <2>1. n + 2 \in Nat
    OBVIOUS
  <2>2. PICK g : Solves(g, n + 2)
    BY <1>1, <2>1
  <2>3. g = [s \in Loop(n) |-> Unfolded(g, n, s)]
    BY <1>0, <2>2
  <2> QED BY <2>3 DEF IsSearch
<1>2. PICK k \in B : \A m \in B : k <= m
  <2>1. B \in SUBSET Nat
    OBVIOUS
  <2> HIDE DEF B
  <2> QED BY <1>1, <2>1, LeastNumber
<1>3. ~ \E g : Solves(g, k)
  BY <1>2
<1>4. CASE k = 0
  <2>1. PICK g : g = [s \in Loop(n) |-> IF s.left > s.right THEN s.result ELSE 0]
    OBVIOUS
  <2>2. ASSUME NEW s \in Loop(n), Width(s) < 0 PROVE g[s] = Unfolded(g, n, s)
    <3>1. s.left > s.right
      BY <2>2 DEF Width, Loop
    <3> QED BY <2>1, <3>1 DEF Unfolded
  <2>3. Solves(g, k)
    BY <1>4, <2>1, <2>2
  <2> QED BY <1>3, <2>3
<1>5. CASE k # 0
  <2>1. PICK j \in Nat : k = j + 1
    <3>1. k - 1 \in Nat /\ k = (k - 1) + 1
      BY <1>2, <1>5
    <3> QED BY <3>1
  <2>2. PICK g : Solves(g, j)
    <3>1. j \notin B
      BY <1>2, <2>1
    <3> QED BY <3>1
  <2>3. PICK h : h = [s \in Loop(n) |-> Unfolded(g, n, s)]
    OBVIOUS
  <2>4. ASSUME NEW s \in Loop(n), Width(s) < k PROVE h[s] = Unfolded(h, n, s)
    <3>1. CASE s.left > s.right
      BY <2>3, <3>1 DEF Unfolded
    <3>2. CASE ~(s.left > s.right)
      <4>1. s.left <= s.right
        BY <3>2 DEF Loop
      <4>2. PICK a, b : a = Upper(s) /\ b = Lower(s)
        OBVIOUS
      <4>3. a \in Loop(n) /\ b \in Loop(n) /\ Width(a) < Width(s) /\ Width(b) < Width(s) /\ Width(s) \in Nat
        BY <4>1, <4>2, Narrows
      <4>4. Width(a) < j /\ Width(b) < j
        BY <1>0, <2>1, <2>4, <4>3
      <4>5. h[a] = g[a] /\ h[b] = g[b]
        BY <2>2, <2>3, <4>3, <4>4
      <4> QED BY <2>3, <3>2, <4>2, <4>5 DEF Unfolded
    <3> QED BY <3>1, <3>2
  <2>5. Solves(h, k)
    BY <2>3, <2>4
  <2> QED BY <1>3, <2>5
<1> QED BY <1>4, <1>5

\* What the loop keeps: the root is not below result and not above right.
Enclosed(n, s) ==
    /\ s.result * s.result <= n /\ n < (s.right + 1) * (s.right + 1)
    /\ s.left <= s.right + 1
    /\ s.left = s.result + 1 \/ (s.left = 0 /\ s.result = 0)

\* Both iterations keep it.
LEMMA EnclosedStep ==
  ASSUME NEW n \in Nat, NEW s \in Loop(n), s.left <= s.right, Enclosed(n, s)
  PROVE  /\ Mid(s) * Mid(s) <= n => Enclosed(n, Upper(s))
         /\ ~(Mid(s) * Mid(s) <= n) => Enclosed(n, Lower(s))
<1>1. PICK l \in 0 .. n + 1, r \in -1 .. n, t \in 0 .. n : s = [left |-> l, right |-> r, result |-> t]
  BY DEF Loop
<1>2. PICK m \in Int : m = (l + r) \div 2 /\ l <= m /\ m <= r
  BY <1>1
<1>4. Mid(s) = m
  BY <1>1, <1>2 DEF Mid
<1>5. Upper(s) = [left |-> m + 1, right |-> r, result |-> m]
  <2>1. PICK a \in Int : a = m + 1
    BY <1>2
  <2>2. Upper(s) = [s EXCEPT !.left = a, !.result = m]
    BY <1>4, <2>1 DEF Upper
  <2>3. [s EXCEPT !.left = a, !.result = m] = [left |-> a, right |-> r, result |-> m]
    <3>1. PICK z : z = [s EXCEPT !.left = a]
      OBVIOUS
    <3>2. z = [left |-> a, right |-> r, result |-> t]
      BY <1>1, <3>1
    <3>3. [s EXCEPT !.left = a, !.result = m] = [z EXCEPT !.result = m]
      BY <3>1
    <3> QED BY <3>2, <3>3
  <2> QED BY <2>1, <2>2, <2>3
<1>6. Lower(s) = [left |-> l, right |-> m - 1, result |-> t]
  BY <1>1, <1>4 DEF Lower
<1>7. /\ t * t <= n /\ n < (r + 1) * (r + 1)
      /\ l = t + 1 \/ (l = 0 /\ t = 0)
  BY <1>1 DEF Enclosed
<1>8. ASSUME m * m <= n PROVE Enclosed(n, Upper(s))
  BY <1>1, <1>2, <1>5, <1>7, <1>8 DEF Enclosed
<1>9. ASSUME ~(m * m <= n) PROVE Enclosed(n, Lower(s))
  <2>1. PICK q \in Int : q = m - 1
    OBVIOUS
  <2>2. q + 1 = m
    BY <2>1
  <2>3. n < m * m
    BY <1>9
  <2>4. l <= q + 1
    BY <1>2, <2>2
  <2>5. Lower(s) = [left |-> l, right |-> q, result |-> t]
    BY <1>6, <2>1
  <2> QED BY <1>7, <2>2, <2>3, <2>4, <2>5 DEF Enclosed
<1> QED BY <1>4, <1>8, <1>9

\* x is the integer square root of n.
IsRoot(x, n) == x \in 0 .. n /\ x * x <= n /\ n < (x + 1) * (x + 1)

\* The search finds the integer root.
LEMMA SquareRoot ==
  ASSUME NEW n \in Nat
  PROVE  IsRoot(sqrt(n), n)
<1>1. CASE n = 0
  <2>1. sqrt(n) = 0
    BY <1>1 DEF sqrt
  <2> QED BY <1>1, <2>1 DEF IsRoot
<1>2. CASE n # 0
  <2>1. PICK g : g = (CHOOSE f : IsSearch(f, n)) /\ IsSearch(g, n)
    BY SearchExists
  <2>2. PICK s0 : s0 = [left |-> 0, right |-> n, result |-> 0]
    OBVIOUS
  <2>3. sqrt(n) = g[s0]
    BY <1>2, <2>1, <2>2, SearchChosen
  <2>4. s0 \in Loop(n)
    BY <2>2 DEF Loop
  <2>5. Enclosed(n, s0)
    <3>1. n < (n + 1) * (n + 1)
      OBVIOUS
    <3> QED BY <2>2, <3>1 DEF Enclosed
  <2> DEFINE Wrong(s) == Enclosed(n, s) /\ ~IsRoot(g[s], n)
             B == {k \in Nat : \E s \in Loop(n) : Width(s) = k /\ Wrong(s)}
  <2>6. SUFFICES ASSUME B # {} PROVE FALSE
    <3>1. Width(s0) \in Nat
      BY <2>2 DEF Width
    <3>2. Width(s0) \notin B
      BY <2>6
    <3>3. ~Wrong(s0)
      BY <2>4, <3>1, <3>2
    <3> QED BY <2>3, <2>5, <3>3
  <2>7. PICK k \in B : \A m \in B : k <= m
    <3>1. B \in SUBSET Nat
      OBVIOUS
    <3> HIDE DEF B
    <3> QED BY <2>6, <3>1, LeastNumber
  <2>8. PICK s \in Loop(n) : Width(s) = k /\ Wrong(s)
    BY <2>7
  <2>9. g[s] = Unfolded(g, n, s)
    BY <2>1 DEF IsSearch
  <2>10. CASE s.left > s.right
    <3>1. g[s] = s.result
      BY <2>9, <2>10 DEF Unfolded
    <3>2. PICK l \in 0 .. n + 1, r \in -1 .. n, t \in 0 .. n : s = [left |-> l, right |-> r, result |-> t]
      BY DEF Loop
    <3>3. t * t <= n /\ n < (r + 1) * (r + 1) /\ l <= r + 1 /\ l > r /\ (l = t + 1 \/ (l = 0 /\ t = 0))
      BY <2>8, <2>10, <3>2 DEF Enclosed
    <3>4. l = r + 1
      BY <3>3
    <3>5. n < l * l
      BY <3>3, <3>4
    <3>6. l = t + 1
      BY <3>3, <3>5
    <3>7. IsRoot(t, n)
      BY <3>2, <3>3, <3>5, <3>6 DEF IsRoot
    <3> QED BY <2>8, <3>1, <3>2, <3>7
  <2>11. CASE ~(s.left > s.right)
    <3>1. s.left <= s.right
      BY <2>11 DEF Loop
    <3>2. PICK a : a = (IF Mid(s) * Mid(s) <= n THEN Upper(s) ELSE Lower(s))
      OBVIOUS
    <3>3. a \in Loop(n) /\ Width(a) < Width(s) /\ Enclosed(n, a)
      BY <2>8, <3>1, <3>2, Narrows, EnclosedStep
    <3>4. g[s] = g[a]
      BY <2>9, <2>11, <3>2 DEF Unfolded
    <3>5. Wrong(a)
      BY <2>8, <3>3, <3>4
    <3>6. Width(a) \in Nat
      <4>1. a.left \in Int /\ a.right \in Int /\ a.left <= a.right + 1
        BY <3>3 DEF Loop, Enclosed
      <4> QED BY <4>1 DEF Width
    <3>7. Width(a) \in B
      BY <3>3, <3>5, <3>6
    <3> QED BY <2>7, <2>8, <3>3, <3>6, <3>7
  <2> QED BY <2>10, <2>11
<1> QED BY <1>1, <1>2
-----------------------------------------------------------------------------
(* What the aggregator, the predictor and the validator compute *)

\* What the map of chain states holds at any time.
IsStates(cs) ==
    /\ IsFiniteSet(DOMAIN cs)
    /\ \A c \in DOMAIN cs : cs[c].liquidity \in Nat /\ cs[c].price \in Nat /\ cs[c].block \in Nat

\* The fields of a chain state.
LEMMA StateFields ==
    ASSUME NEW cs, IsStates(cs), NEW c \in DOMAIN cs
    PROVE  cs[c].liquidity \in Nat /\ cs[c].price \in Nat /\ cs[c].block \in Nat
BY DEF IsStates

\* A sum of natural numbers is zero exactly when every summand is.
LEMMA SumZero ==
    ASSUME NEW S, IsFiniteSet(S), NEW w, \A i \in S : w[i] \in Nat
    PROVE  /\ SumFunctionOnSet(w, S) \in Nat
           /\ SumFunctionOnSet(w, S) = 0 <=> \A i \in S : w[i] = 0
<1>1. SumFunctionOnSet(w, S) \in Nat
  BY SumRemove
<1>2. ASSUME SumFunctionOnSet(w, S) = 0, NEW i \in S PROVE w[i] = 0
  <2>1. PICK U : U = S \ {i}
    OBVIOUS
  <2>2. IsFiniteSet(U) /\ \A j \in U : w[j] \in Nat
    BY <2>1, FS_Subset
  <2>3. PICK a \in Nat : a = SumFunctionOnSet(w, U)
    BY <2>2, SumRemove
  <2>4. 0 = w[i] + a
    BY <1>2, <2>1, <2>3, SumRemove
  <2> QED BY <2>3, <2>4
<1>3. ASSUME \A i \in S : w[i] = 0 PROVE SumFunctionOnSet(w, S) = 0
  <2>1. \A i \in S : w[i] <= 0 * w[i]
    BY <1>3
  <2>2. PICK a \in Nat : a = SumFunctionOnSet(w, S)
    BY <1>1
  <2>3. PICK z \in Nat : z = 0
    OBVIOUS
  <2>4. \A i \in S : w[i] <= z * w[i]
    BY <2>1, <2>3
  <2>5. a <= z * a
    BY <2>2, <2>3, <2>4, SumCompare
  <2> QED BY <2>2, <2>3, <2>5
<1> QED BY <1>1, <1>2, <1>3

\* calculateTotalLiquidity.
LEMMA TotalLemma ==
    ASSUME NEW cs, IsStates(cs)
    PROVE  /\ TotalLiquidity(cs) \in Nat
           /\ TotalLiquidity(cs) = 0 <=> \A c \in DOMAIN cs : cs[c].liquidity = 0
<1>1. PICK w : w = [c \in DOMAIN cs |-> cs[c].liquidity]
  OBVIOUS
<1>2. TotalLiquidity(cs) = SumFunctionOnSet(w, DOMAIN cs)
  BY <1>1 DEF TotalLiquidity, SumFunction
<1>3. \A c \in DOMAIN cs : w[c] \in Nat
  BY <1>1, StateFields
<1>4. IsFiniteSet(DOMAIN cs)
  BY DEF IsStates
<1> QED BY <1>1, <1>2, <1>3, <1>4, SumZero

\* The quotient of two natural numbers.
LEMMA Quotient ==
    ASSUME NEW a \in Nat, NEW b \in Nat \ {0}
    PROVE  /\ a \div b \in Nat
           /\ b * (a \div b) <= a
           /\ a < b * (a \div b + 1)
           /\ \A k \in Int : a >= k * b => a \div b >= k
           /\ \A k \in Int : a <= k * b => a \div b <= k
<1>1. PICK q \in Int : q = a \div b
  OBVIOUS
<1>2. b * q <= a /\ a < b * q + b
  BY <1>1
<1>3. b * (q + 1) = b * q + b
  BY <1>1
<1>4. q \in Nat
  <2>1. SUFFICES ASSUME q <= -1 PROVE FALSE
    BY <1>1
  <2>2. b * (q + 1) <= 0
    BY <2>1
  <2> QED BY <1>2, <1>3, <2>2
<1>5. ASSUME NEW k \in Int, a >= k * b PROVE q >= k
  <2>1. SUFFICES ASSUME q + 1 <= k PROVE FALSE
    BY <1>1
  <2>2. b * (q + 1) <= k * b
    BY <2>1
  <2> QED BY <1>2, <1>3, <1>5, <2>2
<1>6. ASSUME NEW k \in Int, a <= k * b PROVE q <= k
  <2>1. SUFFICES ASSUME q >= k + 1 PROVE FALSE
    BY <1>1
  <2>2. b * q >= b * (k + 1) /\ b * (k + 1) = k * b + b
    BY <2>1
  <2> QED BY <1>2, <1>6, <2>2
<1> QED BY <1>1, <1>2, <1>3, <1>4, <1>5, <1>6

\* calculateWeightedAveragePrice lies between two of the prices.
LEMMA AverageLemma ==
    ASSUME NEW cs, IsStates(cs), TotalLiquidity(cs) > 0
    PROVE  /\ WeightedAveragePrice(cs) \in Nat
           /\ \E c, d \in DOMAIN cs : /\ cs[c].price <= WeightedAveragePrice(cs)
                                      /\ WeightedAveragePrice(cs) <= cs[d].price
<1>1. PICK w : w = [c \in DOMAIN cs |-> cs[c].liquidity]
  OBVIOUS
<1>2. PICK v : v = [c \in DOMAIN cs |-> cs[c].price * cs[c].liquidity]
  OBVIOUS
<1>3. IsFiniteSet(DOMAIN cs)
  BY DEF IsStates
<1>4. \A c \in DOMAIN cs : w[c] \in Nat /\ v[c] \in Nat
  BY <1>1, <1>2, StateFields
<1>5. PICK t \in Nat \ {0} : t = SumFunctionOnSet(w, DOMAIN cs) /\ t = TotalLiquidity(cs)
  BY <1>1, TotalLemma DEF TotalLiquidity, SumFunction
<1>6. PICK x \in Nat : x = SumFunctionOnSet(v, DOMAIN cs)
  BY <1>3, <1>4, SumRemove
<1>7. PICK q \in Nat : q = x \div t /\ q = WeightedAveragePrice(cs)
  <2>1. x \div t \in Nat
    BY Quotient
  <2>2. WeightedAveragePrice(cs) = x \div t
    BY <1>2, <1>5, <1>6 DEF WeightedAveragePrice, SumFunction
  <2> QED BY <2>1, <2>2
<1>8. ASSUME \A c \in DOMAIN cs : ~(cs[c].price <= q) PROVE FALSE
  <2>1. PICK k \in Nat : k = q + 1
    OBVIOUS
  <2>2. ASSUME NEW c \in DOMAIN cs PROVE v[c] >= k * w[c]
    <3>1. PICK p \in Nat, l \in Nat : p = cs[c].price /\ l = cs[c].liquidity
      BY StateFields
    <3>2. p >= k
      BY <1>8, <2>1, <3>1
    <3>3. p * l >= k * l
      BY <3>2
    <3> QED BY <1>1, <1>2, <3>1, <3>3
  <2>3. x >= k * t
    BY <1>3, <1>4, <1>5, <1>6, <2>2, SumCompare
  <2>4. q >= k
    BY <1>7, <2>3, Quotient
  <2> QED BY <2>1, <2>4
<1>9. ASSUME \A d \in DOMAIN cs : ~(q <= cs[d].price) PROVE FALSE
  <2>1. PICK c \in DOMAIN cs : TRUE
    BY <1>5, TotalLemma
  <2>2. q > 0
    BY <1>9, <2>1, StateFields
  <2>3. PICK k \in Nat : k = q - 1
    BY <2>2
  <2>4. ASSUME NEW d \in DOMAIN cs PROVE v[d] <= k * w[d]
    <3>1. PICK p \in Nat, l \in Nat : p = cs[d].price /\ l = cs[d].liquidity
      BY StateFields
    <3>2. p <= k
      BY <1>9, <2>3, <3>1
    <3>3. p * l <= k * l
      BY <3>2
    <3> QED BY <1>1, <1>2, <3>1, <3>3
  <2>5. x <= k * t
    BY <1>3, <1>4, <1>5, <1>6, <2>4, SumCompare
  <2>6. q <= k
    BY <1>7, <2>5, Quotient
  <2> QED BY <2>3, <2>6
<1> QED BY <1>7, <1>8, <1>9

\* The price variance is a natural number.
LEMMA VarianceLemma ==
    ASSUME NEW cs, IsStates(cs), DOMAIN cs # {}, NEW mean \in Int
    PROVE  PriceVariance(cs, mean) \in Nat
<1>1. PICK w : w = [c \in DOMAIN cs |-> (cs[c].price - mean) * (cs[c].price - mean)]
  OBVIOUS
<1>2. IsFiniteSet(DOMAIN cs)
  BY DEF IsStates
<1>3. PICK n \in Nat \ {0} : n = Cardinality(DOMAIN cs)
  BY <1>2, FS_CardinalityType, FS_EmptySet
<1>4. ASSUME NEW c \in DOMAIN cs PROVE w[c] \in Nat
  <2>1. PICK d \in Int : d = cs[c].price - mean
    BY StateFields
  <2>2. d * d \in Nat
    OBVIOUS
  <2> QED BY <1>1, <2>1, <2>2
<1>5. PICK x \in Nat : x = SumFunctionOnSet(w, DOMAIN cs)
  BY <1>2, <1>4, SumRemove
<1>6. PriceVariance(cs, mean) = x \div n
  BY <1>1, <1>3, <1>5 DEF PriceVariance, SumFunction
<1> QED BY <1>3, <1>6, Quotient

\* calculateImbalanceScore is the integer root of the price variance.
LEMMA ScoreLemma ==
    ASSUME NEW cs, IsStates(cs), Cardinality(DOMAIN cs) > 1, NEW mean \in Int
    PROVE  /\ PriceVariance(cs, mean) \in Nat
           /\ IsRoot(ImbalanceScore(cs, mean), PriceVariance(cs, mean))
<1>1. IsFiniteSet(DOMAIN cs)
  BY DEF IsStates
<1>2. PICK n \in Nat : n = Cardinality(DOMAIN cs)
  BY <1>1, FS_CardinalityType
<1>3. DOMAIN cs # {}
  BY <1>2, FS_EmptySet
<1>4. PICK v \in Nat : v = PriceVariance(cs, mean)
  BY <1>3, VarianceLemma
<1>5. ImbalanceScore(cs, mean) = sqrt(v)
  BY <1>2, <1>4 DEF ImbalanceScore
<1> QED BY <1>4, <1>5, SquareRoot

\* A finite nonempty set of numbers has a maximum.
LEMMA MaxLemma ==
    ASSUME NEW S, IsFiniteSet(S), S # {}, \A x \in S : x \in Int
    PROVE  Max(S) \in S /\ \A y \in S : Max(S) >= y
<1> DEFINE B == {T \in SUBSET S : T # {} /\ ~ \E x \in T : \A y \in T : x >= y}
<1>1. B = {}
  <2>1. SUFFICES ASSUME B # {} PROVE FALSE
    OBVIOUS
  <2>2. PICK T \in B : \A U \in B : U \subseteq T => U = T
    <3>1. B \in SUBSET (SUBSET S)
      OBVIOUS
    <3>2. B # {} /\ IsFiniteSet(S)
      BY <2>1
    <3> HIDE DEF B
    <3> QED BY <3>1, <3>2, MinimalSubset
  <2>3. PICK x : x \in T
    BY <2>2
  <2>4. T \ {x} \notin B /\ T \ {x} \in SUBSET S
    BY <2>2, <2>3
  <2>5. CASE T = {x}
    <3>1. x \in Int /\ x >= x
      BY <2>2, <2>3
    <3> QED BY <2>2, <2>5, <3>1
  <2>6. CASE T # {x}
    <3>1. PICK z \in T \ {x} : \A y \in T \ {x} : z >= y
      BY <2>3, <2>4, <2>6
    <3>2. \A y \in T : y \in Int
      BY <2>2
    <3>3. CASE z >= x
      <4>1. \A y \in T : z >= y
        BY <3>1, <3>3
      <4> QED BY <2>2, <3>1, <4>1
    <3>4. CASE ~(z >= x)
      <4>1. x \in Int /\ z \in Int /\ x >= z
        BY <2>3, <3>1, <3>2, <3>4
      <4>2. \A y \in T : x >= y
        BY <3>1, <3>2, <4>1
      <4> QED BY <2>2, <2>3, <4>2
    <3> QED BY <3>3, <3>4
  <2> QED BY <2>5, <2>6
<1>2. \E x \in S : \A y \in S : x >= y
  BY <1>1
<1> QED BY <1>2, Zenon DEF Max

\* getLatestBlock.
LEMMA BlockLemma ==
    ASSUME NEW cs, IsStates(cs)
    PROVE  /\ LatestBlock(cs) \in Nat
           /\ \A c \in DOMAIN cs : LatestBlock(cs) >= cs[c].block
           /\ DOMAIN cs # {} => \E c \in DOMAIN cs : LatestBlock(cs) = cs[c].block
<1> DEFINE B == {cs[c].block : c \in DOMAIN cs}
           S == {0} \cup B
<1>1. IsFiniteSet(DOMAIN cs)
  BY DEF IsStates
<1>2. IsFiniteSet(B)
  <2>1. PICK f : f = [c \in DOMAIN cs |-> cs[c].block]
    OBVIOUS
  <2>2. f \in Surjection(DOMAIN cs, B)
    BY <2>1 DEF Surjection
  <2> HIDE DEF B
  <2> QED BY <1>1, <2>2, FS_Surjection
<1>3. IsFiniteSet(S) /\ (\A x \in S : x \in Nat) /\ (\A x \in S : x \in Int) /\ S # {}
  <2>1. S = B \cup {0}
    OBVIOUS
  <2>2. IsFiniteSet(S)
    BY <1>2, <2>1, FS_AddElement
  <2>3. \A x \in B : x \in Nat
    BY StateFields
  <2>4. \A x \in S : x \in Nat
    BY <2>3
  <2>5. (\A x \in S : x \in Int) /\ S # {}
    BY <2>4
  <2> QED BY <2>2, <2>4, <2>5
<1>4. PICK m : m = LatestBlock(cs) /\ m = Max(S)
  BY DEF LatestBlock
<1>5. m \in S /\ \A y \in S : m >= y
  <2> HIDE DEF S
  <2> QED BY <1>3, <1>4, MaxLemma
<1>6. \A c \in DOMAIN cs : m >= cs[c].block
  BY <1>5
<1>7. ASSUME DOMAIN cs # {} PROVE \E c \in DOMAIN cs : m = cs[c].block
  <2>1. CASE m \in B
    BY <2>1
  <2>2. CASE m = 0
    BY <1>6, <1>7, <2>2, StateFields
  <2> QED BY <1>5, <2>1, <2>2
<1> QED BY <1>3, <1>4, <1>5, <1>6, <1>7

Trends == [direction : {"up", "down", "sideways"}, strength : Nat]

\* An entry more is still a map of chain states.
LEMMA WithLemma ==
    ASSUME NEW cs, IsStates(cs), NEW c, NEW st,
           st.liquidity \in Nat, st.price \in Nat, st.block \in Nat
    PROVE  IsStates(With(cs, c, st)) /\ DOMAIN With(cs, c, st) = DOMAIN cs \cup {c}
<1>1. PICK new : new = With(cs, c, st)
  OBVIOUS
<1>2. DOMAIN new = DOMAIN cs \cup {c}
  BY <1>1 DEF With
<1>3. IsFiniteSet(DOMAIN new)
  BY <1>2, FS_AddElement DEF IsStates
<1>4. \A d \in DOMAIN new : new[d] = st \/ (d \in DOMAIN cs /\ new[d] = cs[d])
  BY <1>1, <1>2 DEF With
<1>5. \A d \in DOMAIN new : new[d].liquidity \in Nat /\ new[d].price \in Nat /\ new[d].block \in Nat
  BY <1>4 DEF IsStates
<1> QED BY <1>1, <1>2, <1>3, <1>5 DEF IsStates

\* calculateTrendDirection, whatever the chain states are.
LEMMA DirectionLemma ==
    ASSUME NEW cs, IsStates(cs), DOMAIN cs # {}
    PROVE  calculateTrendDirection(cs) \in Trends
<1>1. IsFiniteSet(DOMAIN cs)
  BY DEF IsStates
<1>2. PICK n \in Nat : n = Cardinality(DOMAIN cs) /\ n # 0
  BY <1>1, FS_CardinalityType, FS_EmptySet
<1>3. PICK mean : mean = calculateAverage(cs)
  OBVIOUS
<1>4. PICK a \in Nat : a <= n /\ a = Cardinality({c \in DOMAIN cs : cs[c].price > mean})
  <2>1. PICK U : U = {c \in DOMAIN cs : cs[c].price > mean} /\ U \in SUBSET DOMAIN cs
    OBVIOUS
  <2>2. IsFiniteSet(U) /\ Cardinality(U) <= Cardinality(DOMAIN cs) /\ Cardinality(U) \in Nat
    BY <1>1, <2>1, FS_Subset, FS_CardinalityType
  <2> QED BY <1>2, <2>1, <2>2
<1>5. PICK x \in Nat, y \in Nat : x = (100 * a) \div n /\ y = (100 * (n - a)) \div n
  <2>1. 100 * a \in Nat /\ 100 * (n - a) \in Nat /\ n \in Nat \ {0}
    BY <1>2, <1>4
  <2> QED BY <2>1, Quotient
<1>6. \/ calculateTrendDirection(cs) = Sideways
      \/ calculateTrendDirection(cs) = [direction |-> "up", strength |-> x]
      \/ calculateTrendDirection(cs) = [direction |-> "down", strength |-> y]
  BY <1>2, <1>3, <1>4, <1>5 DEF calculateTrendDirection
<1> QED BY <1>5, <1>6 DEF Sideways, Trends

\* What holds of a price that was predicted.
PriceGood(p) ==
    /\ p.base \in Nat \ {0} /\ p.price \in Nat \ {0} /\ p.trust \in Nat
    /\ 10 * Abs(p.price - p.base) <= p.base

\* predictPrice changes a price by at most a tenth of it.
LEMMA PriceLemma ==
    ASSUME NEW base \in Nat \ {0}, NEW trend \in Trends, NEW f \in Nat, NEW horizon \in Nat
    PROVE  /\ predictPrice(base, trend, f, horizon) \in Nat \ {0}
           /\ 10 * Abs(predictPrice(base, trend, f, horizon) - base) <= base
<1>1. PICK s \in Nat : s = trend.strength
  BY DEF Trends
<1>2. PICK x \in Nat : x = (s * horizon * f) \div 3000
  <2>1. PICK y \in Nat : y = s * horizon
    OBVIOUS
  <2>2. PICK z \in Nat : z = y * f
    OBVIOUS
  <2>3. z \div 3000 \in Nat
    OBVIOUS
  <2> QED BY <2>1, <2>2, <2>3
<1>3. PICK q \in Nat : q <= 10 /\ q = calculatePriceChangePercent(trend, f, horizon)
  <2>1. calculatePriceChangePercent(trend, f, horizon) = IF x > 10 THEN 10 ELSE x
    BY <1>1, <1>2 DEF calculatePriceChangePercent
  <2> QED BY <2>1
<1>4. PICK d \in Nat : d = (base * q) \div 100 /\ 10 * d <= base
  <2>1. PICK y \in Nat : y = base * q /\ y <= 10 * base
    <3>1. base * q <= base * 10 /\ base * q \in Nat
      BY <1>3
    <3> QED BY <3>1
  <2>2. y \div 100 \in Nat /\ 100 * (y \div 100) <= y
    OBVIOUS
  <2> QED BY <2>1, <2>2
<1>5. d < base
  BY <1>4
<1>6. PICK r \in Nat \ {0} : r = predictPrice(base, trend, f, horizon) /\ r \in {base, base + d, base - d}
  <2>1. ~(d > base) /\ base - d \in Nat \ {0} /\ base + d \in Nat \ {0}
    BY <1>5
  <2>2. CASE trend.direction = "up"
    BY <1>3, <1>4, <2>1, <2>2 DEF predictPrice
  <2>3. CASE trend.direction = "down"
    BY <1>3, <1>4, <2>1, <2>3 DEF predictPrice
  <2>4. CASE trend.direction = "sideways"
    BY <1>3, <1>4, <2>1, <2>4 DEF predictPrice
  <2>5. trend.direction \in {"up", "down", "sideways"}
    BY DEF Trends
  <2> QED BY <2>2, <2>3, <2>4, <2>5
<1>7. 10 * Abs(r - base) <= base
  BY <1>4, <1>5, <1>6 DEF Abs
<1> QED BY <1>6, <1>7

\* What holds once the liquidity is predicted too.
PredictionGood(p) ==
    /\ 10 * Abs(p.price - p.base) <= p.base /\ p.price > 0
    /\ p.reread = p.base => 20 * Abs(p.liquidity - p.total) < p.total + 20
    /\ 2 * p.liquidity >= p.total - 1
    /\ p \in [base : Nat, trust : Nat, price : Nat, total : Nat, reread : Nat, liquidity : Nat]

\* predictLiquidity from any average, and from the average the price is of.
LEMMA LiquidityLemma ==
    ASSUME NEW tot \in Nat, NEW base \in Nat \ {0}, NEW price \in Nat \ {0}
    PROVE  /\ predictLiquidity(tot, base, price) \in Nat
           /\ 2 * predictLiquidity(tot, base, price) >= tot - 1
           /\ 10 * Abs(price - base) <= base =>
                 20 * Abs(predictLiquidity(tot, base, price) - tot) < tot + 20
<1>1. PICK p \in Int : p = ((price - base) * 100) \div base
  OBVIOUS
<1>2. PICK a \in Int : a = (price - base) * 100
  OBVIOUS
<1>3. base * p <= a /\ a < base * p + base
  BY <1>1, <1>2
<1>4. p >= -100
  <2>1. SUFFICES ASSUME p + 1 <= -100 PROVE FALSE
    BY <1>1
  <2>2. base * (p + 1) <= base * (-100) /\ base * (p + 1) = base * p + base
    BY <2>1
  <2> QED BY <1>2, <1>3, <2>2
<1>5. PICK b \in Int : b = tot * p
  OBVIOUS
<1>6. PICK q \in Int : q = b \div 200 /\ 200 * q <= b /\ b < 200 * q + 200
  BY <1>5
<1>7. b >= tot * (-100)
  BY <1>4, <1>5
<1>8. 2 * q >= -tot - 1
  BY <1>6, <1>7
<1>9. tot + q \in Nat
  BY <1>8
<1>10. predictLiquidity(tot, base, price) = tot + q
  BY <1>1, <1>5, <1>6, <1>9 DEF predictLiquidity
<1>11. ASSUME 10 * Abs(price - base) <= base PROVE 20 * Abs((tot + q) - tot) < tot + 20
  <2>1. 10 * (price - base) <= base /\ -base <= 10 * (price - base)
    BY <1>11 DEF Abs
  <2>2. a <= 10 * base /\ a >= -(10 * base)
    BY <1>2, <2>1
  <2>3. p <= 10
    <3>1. SUFFICES ASSUME p >= 11 PROVE FALSE
      BY <1>1
    <3>2. base * p >= base * 11
      BY <3>1
    <3> QED BY <1>3, <2>2, <3>2
  <2>4. p >= -10
    <3>1. SUFFICES ASSUME p + 1 <= -10 PROVE FALSE
      BY <1>1
    <3>2. base * (p + 1) <= base * (-10) /\ base * (p + 1) = base * p + base
      BY <3>1
    <3> QED BY <1>3, <2>2, <3>2
  <2>5. b <= tot * 10 /\ b >= tot * (-10)
    BY <1>5, <2>3, <2>4
  <2>6. 20 * q <= tot /\ 20 * q > -tot - 20
    BY <1>6, <2>5
  <2>7. (tot + q) - tot = q
    OBVIOUS
  <2> QED BY <2>6, <2>7 DEF Abs
<1> QED BY <1>8, <1>9, <1>10, <1>11

\* What holds of a rebalancing that PredictRebalancingNeed asks for.
NeedGood(p) ==
    p.needed =>
        /\ p.judged > 0
        /\ 2 * p.amount <= p.imbalance \/ p.amount <= MinAmount
        /\ 10 * p.amount <= p.total
        /\ p.total >= 10 /\ MinAmount > 0 => p.amount > 0

\* The distances from a share add up to a natural number.
LEMMA DeviationLemma ==
    ASSUME NEW cs, IsStates(cs), NEW e \in Int
    PROVE  Deviation(cs, e) \in Nat
<1>1. IsFiniteSet(DOMAIN cs)
  BY DEF IsStates
<1>2. PICK w : w = [c \in DOMAIN cs |-> Abs(cs[c].liquidity - e)]
  OBVIOUS
<1>3. ASSUME NEW c \in DOMAIN cs PROVE w[c] \in Nat
  <2>1. PICK l \in Nat : l = cs[c].liquidity
    BY StateFields
  <2>2. Abs(l - e) \in Nat
    BY DEF Abs
  <2> QED BY <1>2, <2>1, <2>2
<1>4. SumFunctionOnSet(w, DOMAIN cs) \in Nat
  BY <1>1, <1>3, SumRemove
<1>5. Deviation(cs, e) = SumFunctionOnSet(w, DOMAIN cs)
  BY <1>2 DEF Deviation, SumFunction
<1> QED BY <1>4, <1>5

\* The smaller and the larger of two numbers.
LEMMA PairLemma ==
    ASSUME NEW a \in Int, NEW b \in Int
    PROVE  /\ Max({a, b}) \in {a, b} /\ Max({a, b}) >= a /\ Max({a, b}) >= b
           /\ Min({a, b}) \in {a, b} /\ Min({a, b}) <= a /\ Min({a, b}) <= b
<1>1. \E x \in {a, b} : \A y \in {a, b} : x >= y
  OBVIOUS
<1>2. \E x \in {a, b} : \A y \in {a, b} : x =< y
  OBVIOUS
<1>3. Max({a, b}) \in {a, b} /\ \A y \in {a, b} : Max({a, b}) >= y
  BY <1>1, Zenon DEF Max
<1>4. Min({a, b}) \in {a, b} /\ \A y \in {a, b} : Min({a, b}) =< y
  BY <1>2, Zenon DEF Min
<1> QED BY <1>3, <1>4

\* The amount is cut to a tenth after it was raised to the smallest amount.
LEMMA AmountLemma ==
    ASSUME NEW tot \in Nat, NEW i \in Nat
    PROVE  LET a == calculateRebalancingAmount(tot, i) IN
           /\ 2 * a <= i \/ a <= MinAmount
           /\ 10 * a <= tot
           /\ tot >= 10 /\ MinAmount > 0 => a > 0
<1>1. PICK h \in Nat : h = i \div 2 /\ 2 * h <= i
  OBVIOUS
<1>2. PICK lo \in Nat : lo = MinAmount
  BY PredictorAssumption
<1>3. PICK m \in Nat : m = Max({h, lo}) /\ m >= lo /\ (m = h \/ m = lo)
  BY PairLemma
<1>4. PICK t \in Nat : t = tot \div 10 /\ 10 * t <= tot /\ (tot >= 10 => t > 0)
  OBVIOUS
<1>5. PICK k \in Nat : k = Min({m, t}) /\ k <= t /\ k <= m /\ (k = m \/ k = t)
  BY PairLemma
<1>6. calculateRebalancingAmount(tot, i) = k
  BY <1>1, <1>2, <1>3, <1>4, <1>5 DEF calculateRebalancingAmount
<1> QED BY <1>1, <1>2, <1>3, <1>4, <1>5, <1>6

\* What holds of a report that was accepted.
AcceptedGood(v) ==
    /\ v.timestamp \in Nat
    /\ v.timestamp <= Now => Now - v.timestamp <= Criteria.maxTimeGap
    /\ v.timestamp > Now => Criteria.maxTimeGap > Now

\* What holds of a report whose confidence was worked out.
RatedGood(v) ==
    /\ v.timestamp <= Now => /\ Now - v.timestamp <= Criteria.maxTimeGap
                             /\ v.confidence >= 432 * AgeDiscount(Criteria.maxTimeGap + 1)
    /\ v.timestamp > Now => Criteria.maxTimeGap > Now

\* validateTimestamp: in uint64 a timestamp ahead of the clock is older than the
\* clock has run.
LEMMA AgeLemma ==
    ASSUME NEW t \in Timestamps, validateTimestamp(t, Now)
    PROVE  /\ t \in Nat
           /\ t <= Now => Now - t <= Criteria.maxTimeGap
           /\ t > Now => Criteria.maxTimeGap > Now
<1>1. PICK gap \in Nat : gap = Criteria.maxTimeGap
  BY ValidatorAssumption
<1>2. PICK n \in Nat : n = Now
  BY StoreAssumption
<1>3. PICK w \in Nat \ {0} : w = Word
  BY <1>1, ValidatorAssumption
<1>4. t \in 0 .. w - 1 /\ n \in 0 .. w - 1
  BY <1>2, <1>3, ClockAssumption
<1>5. (n - t) % w <= gap
  BY <1>1, <1>2, <1>3 DEF validateTimestamp, Age
<1>6. CASE t <= n
  <2>1. (n - t) % w = n - t
    BY <1>4, <1>6
  <2> QED BY <1>1, <1>2, <1>4, <1>5, <1>6, <2>1
<1>7. CASE t > n
  <2>1. (n - t) % w = n - t + w
    BY <1>4, <1>7
  <2> QED BY <1>1, <1>2, <1>4, <1>5, <1>7, <2>1
<1> QED BY <1>4, <1>6, <1>7

\* A discount is at least 0.432, and no less for a smaller number.
LEMMA DiscountLemma ==
    ASSUME NEW x, NEW a, NEW b, NEW c
    PROVE  /\ Discount(x, a, b, c) \in Nat /\ Discount(x, a, b, c) >= 432
           /\ \A y : (x > a => y > a) /\ (x > b => y > b) /\ (x > c => y > c)
                        => Discount(y, a, b, c) <= Discount(x, a, b, c)
<1>1. PICK i \in {9, 10} : i = IF x > a THEN 9 ELSE 10
  OBVIOUS
<1>2. PICK j \in {8, 10} : j = IF x > b THEN 8 ELSE 10
  OBVIOUS
<1>3. PICK k \in {6, 10} : k = IF x > c THEN 6 ELSE 10
  OBVIOUS
<1>4. Discount(x, a, b, c) = i * j * k
  BY <1>1, <1>2, <1>3 DEF Discount
<1>5. i * j * k \in Nat /\ i * j * k >= 432
  BY <1>1, <1>2, <1>3
<1>6. ASSUME NEW y, x > a => y > a, x > b => y > b, x > c => y > c
      PROVE  Discount(y, a, b, c) <= i * j * k
  <2>1. PICK l \in {9, 10} : l = (IF y > a THEN 9 ELSE 10) /\ l <= i
    BY <1>1, <1>6
  <2>2. PICK m \in {8, 10} : m = (IF y > b THEN 8 ELSE 10) /\ m <= j
    BY <1>2, <1>6
  <2>3. PICK q \in {6, 10} : q = (IF y > c THEN 6 ELSE 10) /\ q <= k
    BY <1>3, <1>6
  <2>4. Discount(y, a, b, c) = l * m * q
    BY <2>1, <2>2, <2>3 DEF Discount
  <2>5. l * m * q <= i * j * k
    BY <1>1, <1>2, <1>3, <2>1, <2>2, <2>3
  <2> QED BY <2>4, <2>5
<1> QED BY <1>4, <1>5, <1>6

\* The discount for the age of an accepted report, when the clock has moved on
\* at most one second.
LEMMA AgeRateLemma ==
    ASSUME NEW t \in Nat, t <= Now, Now - t <= Criteria.maxTimeGap,
           NEW later \in {Now, Now + 1}
    PROVE  AgeDiscount(Criteria.maxTimeGap + 1) <= AgeDiscount(Age(t, later))
<1>1. PICK n \in Nat : n = Now
  BY StoreAssumption
<1>2. PICK gap \in Nat : gap = Criteria.maxTimeGap
  BY ValidatorAssumption
<1>3. PICK w \in Nat \ {0} : w = Word
  BY ValidatorAssumption
<1>4. PICK d \in Nat : d = later - t /\ d <= gap + 1
  BY <1>1, <1>2
<1>5. PICK x \in Nat : x = d % w /\ x <= d
  BY <1>3
<1>6. Age(t, later) = x
  BY <1>3, <1>4, <1>5 DEF Age
<1>7. \A k \in Nat : x > k => gap + 1 > k
  BY <1>4, <1>5
<1>8. PICK y : y = gap + 1
  OBVIOUS
<1>9. (x > 300 => y > 300) /\ (x > 600 => y > 600) /\ (x > 1800 => y > 1800)
  BY <1>7, <1>8
<1>10. Discount(y, 300, 600, 1800) <= Discount(x, 300, 600, 1800)
  BY <1>9, DiscountLemma
<1> QED BY <1>2, <1>6, <1>8, <1>10 DEF AgeDiscount

-----------------------------------------------------------------------------
(* The store: the inductive invariant *)

Fields == Nat \cup {Nil}

StoreTyped ==
    /\ pc \in [Updaters -> {"idle", "total", "average", "score", "block"}]
    /\ IsStates(chainStates)
    /\ total \in Fields /\ average \in Fields
    /\ latest \in Nat
    /\ failed \in BOOLEAN
    /\ DOMAIN reader = Readers

\* An updater is at work exactly while it has the lock.
LockHeld ==
    /\ writer \in Updaters \cup {None}
    /\ \A u \in Updaters : pc[u] # "idle" <=> writer = u

TotalCurrent == total = TotalLiquidity(chainStates)

AverageCurrent ==
    TotalLiquidity(chainStates) > 0 /\ average = WeightedAveragePrice(chainStates)

ScoreCurrent == score = ImbalanceScore(chainStates, average)

\* The fields that an update has written, up to the step it is at, belong to the
\* chain states; an update that failed has found no liquidity.
FieldsFollow ==
    /\ \A u \in Updaters :
          /\ pc[u] # "idle" => Exists
          /\ pc[u] \in {"average", "score", "block"} => TotalCurrent
          /\ pc[u] \in {"score", "block"} => AverageCurrent
          /\ pc[u] = "block" => ScoreCurrent
    /\ LockFree /\ Exists =>
          /\ TotalCurrent
          /\ failed => TotalLiquidity(chainStates) = 0
          /\ ~failed => AverageCurrent /\ ScoreCurrent /\ latest = LatestBlock(chainStates)

\* A range over the chain states that is under way.
WalkGood(w) ==
    /\ w = [kept |-> w.kept, chains |-> w.chains, seen |-> w.seen]
    /\ IsStates(w.seen) /\ w.chains # {}

\* What a reader has, when the record has the total and the average given.  A
\* field that was written once is never nil again.
ReaderGood(rd, tot, avg) ==
    /\ rd.at # "out" => tot \in Nat
    /\ rd.at \in Walking => WalkGood(rd.result)
    /\ rd.at = "directions" => rd.result.kept \in Nat
    /\ rd.at = "confidences" => rd.result.kept.horizon \in Nat /\ rd.result.kept.trend \in Trends
    /\ rd.at = "trend" => /\ rd.result.horizon \in Nat /\ rd.result.trend \in Trends
                          /\ rd.result.trust \in Nat
    /\ rd.at \in {"price", "liquidity"} => avg \in Nat /\ PriceGood(rd.result)
    /\ rd.at = "liquidity" => rd.result.total \in Nat
    /\ rd.at \in {"counting", "dating", "predicted"} => PredictionGood(rd.result)
    /\ rd.at \in {"share", "divide", "imbalance"} => rd.result.threshold \in Nat
    /\ rd.at = "divide" => rd.result.total \in Nat
    /\ rd.at = "deviations" =>
          rd.result.kept.threshold \in Nat /\ rd.result.kept.expected \in Int
    /\ rd.at \in {"imbalance", "judged"} => rd.result.imbalance \in Nat
    /\ rd.at = "judged" => rd.result.judged \in Nat \ {0}
    /\ rd.at = "needs" => NeedGood(rd.result)
    /\ rd.at \in {"compare", "priced", "liquid"} => rd.result.timestamp \in Timestamps
    /\ rd.at \in {"accepted", "deviate", "percent", "aged"} => AcceptedGood(rd.result)
    /\ rd.at = "aged" => rd.result.confidence \in Nat /\ rd.result.confidence >= 432
    /\ rd.at = "rated" => RatedGood(rd.result)

ReadersKept ==
    \A r \in Readers : /\ ReaderGood(reader[r], total, average)
                       /\ reader[r].at # "out" => Exists

IInv == StoreTyped /\ LockHeld /\ FieldsFollow /\ ReadersKept

\* The store is created empty.
LEMMA InitLemma == Init => IInv
<1> SUFFICES ASSUME Init PROVE IInv
  OBVIOUS
<1> USE DEF Init
<1>1. DOMAIN chainStates = {}
  OBVIOUS
<1>2. StoreTyped
  <2>1. IsStates(chainStates)
    BY <1>1, FS_EmptySet DEF IsStates
  <2>2. latest \in Nat
    OBVIOUS
  <2>3. failed \in BOOLEAN
    BY Zenon
  <2>4. DOMAIN reader = Readers
    OBVIOUS
  <2>5. pc \in [Updaters -> {"idle", "total", "average", "score", "block"}]
    OBVIOUS
  <2> QED BY <2>1, <2>2, <2>3, <2>4, <2>5 DEF StoreTyped, Fields
<1>3. LockHeld
  BY StoreAssumption DEF LockHeld
<1>4. FieldsFollow
  BY <1>1 DEF FieldsFollow, Exists
<1>5. ReadersKept
  BY DEF ReadersKept, ReaderGood, OutOfStore, Walking
<1> QED BY <1>2, <1>3, <1>4, <1>5 DEF IInv

\* While u has the lock every other updater is idle.
LEMMA OthersIdle ==
    ASSUME LockHeld, NEW u \in Updaters, writer = u \/ writer = None, NEW v \in Updaters, v # u
    PROVE  pc[v] = "idle"
BY StoreAssumption DEF LockHeld

\* A step that leaves the readers alone, and turns no field into nil, keeps what
\* they have.
LEMMA ReadersStay ==
    ASSUME ReadersKept, reader' = reader,
           total \in Nat => total' \in Nat, average \in Nat => average' \in Nat,
           Exists => Exists'
    PROVE  ReadersKept'
<1>1. ASSUME NEW r \in Readers PROVE ReaderGood(reader[r], total', average')
  <2>1. ReaderGood(reader[r], total, average)
    BY DEF ReadersKept
  <2> QED BY <2>1 DEF ReaderGood
<1> QED BY <1>1 DEF ReadersKept

LEMMA StoreStep ==
    ASSUME IInv, NEW u \in Updaters, NEW c \in Chains, NEW s \in ChainStates, Store(u, c, s)
    PROVE  IInv'
<1> USE DEF IInv, Store
<1>2. IsStates(chainStates') /\ DOMAIN chainStates' = DOMAIN chainStates \cup {c}
  <2>1. s.liquidity \in Nat /\ s.price \in Nat /\ s.block \in Nat
    BY ReportAssumption
  <2>2. IsStates(chainStates)
    BY DEF StoreTyped
  <2> QED BY <2>1, <2>2, WithLemma
<1>3. StoreTyped'
  BY <1>2 DEF StoreTyped
<1>4. \A v \in Updaters : v # u => pc[v] = "idle"
  BY OthersIdle DEF LockFree
<1>5. pc'[u] = "total" /\ \A v \in Updaters : v # u => pc'[v] = "idle"
  BY <1>4 DEF StoreTyped
<1>6. LockHeld'
  BY <1>5 DEF LockHeld
<1>7. FieldsFollow'
  <2>1. Exists'
    BY <1>2 DEF Exists
  <2>2. ~LockFree'
    BY StoreAssumption DEF LockFree
  <2> QED BY <1>5, <2>1, <2>2 DEF FieldsFollow
<1>8. ReadersKept'
  BY <1>2, ReadersStay DEF Exists
<1> QED BY <1>3, <1>6, <1>7, <1>8

\* What the five steps of an update under the lock have in common.
LEMMA Locked ==
    ASSUME IInv, NEW u \in Updaters, pc[u] # "idle"
    PROVE  /\ writer = u /\ writer # None /\ Exists /\ IsStates(chainStates)
           /\ \A v \in Updaters : v # u => pc[v] = "idle"
           /\ TotalLiquidity(chainStates) \in Nat
<1>1. writer = u /\ writer # None
  BY StoreAssumption DEF IInv, LockHeld
<1>2. \A v \in Updaters : v # u => pc[v] = "idle"
  BY <1>1, OthersIdle DEF IInv
<1>3. Exists /\ IsStates(chainStates)
  BY DEF IInv, FieldsFollow, StoreTyped
<1> QED BY <1>1, <1>2, <1>3, TotalLemma

LEMMA WriteTotalStep ==
    ASSUME IInv, NEW u \in Updaters, WriteTotal(u)
    PROVE  IInv'
<1> USE DEF WriteTotal
<1>1. /\ writer = u /\ writer # None /\ Exists /\ IsStates(chainStates)
      /\ \A v \in Updaters : v # u => pc[v] = "idle"
      /\ TotalLiquidity(chainStates) \in Nat
  BY Locked
<1>2. pc'[u] = "average" /\ \A v \in Updaters : v # u => pc'[v] = "idle"
  BY <1>1 DEF IInv, StoreTyped
<1>3. StoreTyped'
  BY <1>1 DEF IInv, StoreTyped, Fields
<1>4. LockHeld'
  BY <1>1, <1>2 DEF IInv, LockHeld
<1>5. FieldsFollow'
  <2>1. Exists' /\ TotalCurrent' /\ ~LockFree'
    BY <1>1 DEF Exists, TotalCurrent, LockFree
  <2> QED BY <1>2, <2>1 DEF FieldsFollow
<1>6. ReadersKept'
  BY <1>1, ReadersStay DEF IInv, Exists
<1> QED BY <1>3, <1>4, <1>5, <1>6 DEF IInv

LEMMA FailStep ==
    ASSUME IInv, NEW u \in Updaters, Fail(u)
    PROVE  IInv'
<1> USE DEF Fail, fields
<1>1. /\ writer = u /\ writer # None /\ Exists /\ IsStates(chainStates)
      /\ \A v \in Updaters : v # u => pc[v] = "idle"
      /\ TotalLiquidity(chainStates) \in Nat
  BY Locked
<1>2. \A v \in Updaters : pc'[v] = "idle"
  BY <1>1 DEF IInv, StoreTyped
<1>3. StoreTyped'
  <2>1. failed' \in BOOLEAN
    BY Zenon
  <2> QED BY <2>1 DEF IInv, StoreTyped
<1>4. LockHeld'
  BY <1>1, <1>2, StoreAssumption DEF IInv, LockHeld
<1>5. FieldsFollow'
  <2>1. TotalCurrent' /\ failed'
    BY DEF IInv, FieldsFollow, TotalCurrent
  <2>2. TotalLiquidity(chainStates') = 0
    BY DEF NoWeight
  <2> QED BY <1>2, <2>1, <2>2 DEF FieldsFollow
<1>6. ReadersKept'
  BY <1>1, ReadersStay DEF IInv, Exists
<1> QED BY <1>3, <1>4, <1>5, <1>6 DEF IInv

LEMMA WriteAverageStep ==
    ASSUME IInv, NEW u \in Updaters, WriteAverage(u)
    PROVE  IInv'
<1> USE DEF WriteAverage
<1>1. /\ writer = u /\ writer # None /\ Exists /\ IsStates(chainStates)
      /\ \A v \in Updaters : v # u => pc[v] = "idle"
      /\ TotalLiquidity(chainStates) \in Nat
  BY Locked
<1>2. pc'[u] = "score" /\ \A v \in Updaters : v # u => pc'[v] = "idle"
  BY <1>1 DEF IInv, StoreTyped
<1>3. TotalLiquidity(chainStates) > 0
  BY <1>1 DEF NoWeight
<1>4. average' \in Nat
  BY <1>1, <1>3, AverageLemma
<1>5. StoreTyped'
  BY <1>4 DEF IInv, StoreTyped, Fields
<1>6. LockHeld'
  BY <1>1, <1>2 DEF IInv, LockHeld
<1>7. FieldsFollow'
  <2>1. Exists' /\ ~LockFree'
    BY <1>1 DEF Exists, LockFree
  <2>2. TotalCurrent'
    BY DEF IInv, FieldsFollow, TotalCurrent
  <2>3. AverageCurrent'
    BY <1>3 DEF AverageCurrent
  <2> QED BY <1>2, <2>1, <2>2, <2>3 DEF FieldsFollow
<1>8. ReadersKept'
  BY <1>4, ReadersStay DEF IInv, Exists
<1> QED BY <1>5, <1>6, <1>7, <1>8 DEF IInv

LEMMA WriteScoreStep ==
    ASSUME IInv, NEW u \in Updaters, WriteScore(u)
    PROVE  IInv'
<1> USE DEF WriteScore
<1>1. /\ writer = u /\ writer # None /\ Exists /\ IsStates(chainStates)
      /\ \A v \in Updaters : v # u => pc[v] = "idle"
      /\ TotalLiquidity(chainStates) \in Nat
  BY Locked
<1>2. pc'[u] = "block" /\ \A v \in Updaters : v # u => pc'[v] = "idle"
  BY <1>1 DEF IInv, StoreTyped
<1>3. StoreTyped'
  BY DEF IInv, StoreTyped
<1>4. LockHeld'
  BY <1>1, <1>2 DEF IInv, LockHeld
<1>5. FieldsFollow'
  <2>1. Exists' /\ ~LockFree'
    BY <1>1 DEF Exists, LockFree
  <2>2. TotalCurrent'
    BY DEF IInv, FieldsFollow, TotalCurrent
  <2>3. AverageCurrent'
    BY DEF IInv, FieldsFollow, AverageCurrent
  <2>4. ScoreCurrent'
    BY DEF ScoreCurrent
  <2> QED BY <1>2, <2>1, <2>2, <2>3, <2>4 DEF FieldsFollow
<1>6. ReadersKept'
  BY ReadersStay DEF IInv, Exists
<1> QED BY <1>3, <1>4, <1>5, <1>6 DEF IInv

LEMMA WriteBlockStep ==
    ASSUME IInv, NEW u \in Updaters, WriteBlock(u)
    PROVE  IInv'
<1> USE DEF WriteBlock
<1>1. /\ writer = u /\ writer # None /\ Exists /\ IsStates(chainStates)
      /\ \A v \in Updaters : v # u => pc[v] = "idle"
      /\ TotalLiquidity(chainStates) \in Nat
  BY Locked
<1>2. \A v \in Updaters : pc'[v] = "idle"
  BY <1>1 DEF IInv, StoreTyped
<1>3. latest' = LatestBlock(chainStates') /\ latest' \in Nat
  BY <1>1, BlockLemma DEF BlockAfter
<1>4. StoreTyped'
  <2>1. failed' \in BOOLEAN
    BY Zenon
  <2> QED BY <1>3, <2>1 DEF IInv, StoreTyped
<1>5. LockHeld'
  BY <1>1, <1>2, StoreAssumption DEF IInv, LockHeld
<1>6. FieldsFollow'
  <2>1. TotalCurrent' /\ ~failed'
    BY DEF IInv, FieldsFollow, TotalCurrent
  <2>2. AverageCurrent'
    BY DEF IInv, FieldsFollow, AverageCurrent
  <2>3. ScoreCurrent'
    BY DEF IInv, FieldsFollow, ScoreCurrent
  <2> QED BY <1>2, <1>3, <2>1, <2>2, <2>3 DEF FieldsFollow
<1>7. ReadersKept'
  BY ReadersStay DEF IInv, Exists
<1> QED BY <1>4, <1>5, <1>6, <1>7 DEF IInv

\* A reader changes nothing but what it has itself.
LEMMA ReaderStays ==
    ASSUME IInv, NEW r \in Readers, NEW at, NEW result, Gets(r, at, result),
           ReaderGood([at |-> at, result |-> result], total, average),
           at # "out" => Exists
    PROVE  IInv'
<1> USE DEF Gets, fields
<1>1. reader' = [reader EXCEPT ![r] = [at |-> at, result |-> result]]
  OBVIOUS
<1>2. StoreTyped'
  BY DEF IInv, StoreTyped
<1>3. LockHeld'
  BY DEF IInv, LockHeld
<1>4. FieldsFollow'
  <2>1. /\ Exists' = Exists /\ LockFree' = LockFree /\ TotalCurrent' = TotalCurrent
        /\ AverageCurrent' = AverageCurrent /\ ScoreCurrent' = ScoreCurrent
    BY DEF Exists, LockFree, TotalCurrent, AverageCurrent, ScoreCurrent
  <2> QED BY <2>1 DEF IInv, FieldsFollow
<1>5. ASSUME NEW q \in Readers
      PROVE  ReaderGood(reader'[q], total', average') /\ (reader'[q].at # "out" => Exists')
  <2>1. DOMAIN reader = Readers
    BY DEF IInv, StoreTyped
  <2>4. Exists' = Exists
    BY DEF Exists
  <2>2. CASE q = r
    BY <1>1, <2>1, <2>2, <2>4
  <2>3. CASE q # r
    <3>1. reader'[q] = reader[q]
      BY <1>1, <2>1, <2>3
    <3> QED BY <2>4, <3>1 DEF IInv, ReadersKept
  <2> QED BY <2>2, <2>3
<1>6. ReadersKept'
  BY <1>5 DEF ReadersKept
<1> QED BY <1>2, <1>3, <1>4, <1>6 DEF IInv

\* Whoever finds a record finds a chain and a total in it.
LEMMA TotalKnown ==
    ASSUME IInv, NEW r \in Readers, reader[r].at # "out" \/ (LockFree /\ Exists)
    PROVE  total \in Nat /\ Exists
<1>1. CASE reader[r].at # "out"
  BY <1>1 DEF IInv, ReadersKept, ReaderGood
<1>2. CASE LockFree /\ Exists
  <2>1. total = TotalLiquidity(chainStates)
    BY <1>2 DEF IInv, FieldsFollow, TotalCurrent
  <2> QED BY <1>2, <2>1, TotalLemma DEF IInv, StoreTyped
<1> QED BY <1>1, <1>2

\* What a reader that has a pointer knows.
LEMMA ReaderKnows ==
    ASSUME IInv, NEW r \in Readers, reader[r].at # "out"
    PROVE  /\ total \in Nat /\ Exists /\ IsStates(chainStates)
           /\ ReaderGood(reader[r], total, average)
BY TotalKnown DEF IInv, StoreTyped, ReadersKept

\* An entry met by a range.
LEMMA VisitStep ==
    ASSUME IInv, NEW r \in Readers, NEW c \in Chains, Visit(r, c)
    PROVE  IInv'
<1>1. PICK got, at : got = reader[r].result /\ at = reader[r].at /\ at \in Walking
  BY DEF Visit
<1>2. at # "out"
  BY <1>1 DEF Walking
<1>3. total \in Nat /\ Exists /\ IsStates(chainStates) /\ ReaderGood(reader[r], total, average)
  BY <1>1, <1>2, ReaderKnows
<1>4. WalkGood(got)
  BY <1>1, <1>3 DEF ReaderGood
<1>5. PICK seen : seen = With(got.seen, c, chainStates[c])
  OBVIOUS
<1>6. IsStates(seen)
  <2>1. c \in DOMAIN chainStates
    BY DEF Visit
  <2>2. PICK st : st = chainStates[c] /\ st.liquidity \in Nat /\ st.price \in Nat /\ st.block \in Nat
    BY <1>3, <2>1, StateFields
  <2> QED BY <1>4, <1>5, <2>2, WithLemma DEF WalkGood
<1>7. PICK w : w = [got EXCEPT !.seen = seen]
  OBVIOUS
<1>8. w = [kept |-> got.kept, chains |-> got.chains, seen |-> seen]
  BY <1>4, <1>7 DEF WalkGood
<1>9. WalkGood(w) /\ w.kept = got.kept
  BY <1>4, <1>6, <1>8 DEF WalkGood
<1>10. Gets(r, at, w)
  BY <1>1, <1>5, <1>7 DEF Visit
<1>11. ReaderGood([at |-> at, result |-> w], total, average)
  BY <1>1, <1>3, <1>9 DEF ReaderGood, Walking
<1> QED BY <1>2, <1>3, <1>10, <1>11, ReaderStays

\* A range that starts, and one that ends.
LEMMA WalkLemma ==
    ASSUME IInv, Exists, NEW kept
    PROVE  WalkGood(Walk(kept)) /\ Walk(kept).kept = kept
<1>1. PICK w : w = Walk(kept) /\ w = [kept |-> kept, chains |-> DOMAIN chainStates, seen |-> << >>]
  BY DEF Walk
<1>2. w.kept = kept /\ w.chains = DOMAIN chainStates /\ w.seen = << >>
  BY <1>1
<1>3. IsStates(<< >>)
  <2>1. DOMAIN << >> = {}
    OBVIOUS
  <2> QED BY <2>1, FS_EmptySet DEF IsStates
<1> QED BY <1>1, <1>2, <1>3 DEF WalkGood, Exists

LEMMA WalkEnds ==
    ASSUME NEW w, WalkGood(w), Met(w)
    PROVE  IsStates(w.seen) /\ DOMAIN w.seen # {}
BY DEF WalkGood, Met

\* PredictPoolState up to the trend.
LEMMA TrendStep ==
    ASSUME IInv, NEW r \in Readers, NEW h \in Horizons, Trend(r, h)
    PROVE  IInv'
<1> USE DEF Trend
<1>1. total \in Nat /\ Exists /\ h \in Nat
  BY ReaderKnows, StoreAssumption
<1>2. CASE Cardinality(DOMAIN chainStates) < 2
  <2>1. PICK v : v = [horizon |-> h, trend |-> Sideways, trust |-> 0]
    OBVIOUS
  <2>2. v.horizon \in Nat /\ v.trend \in Trends /\ v.trust \in Nat
    BY <1>1, <2>1 DEF Sideways, Trends
  <2>3. Gets(r, "trend", v)
    BY <1>2, <2>1
  <2>4. ReaderGood([at |-> "trend", result |-> v], total, average)
    BY <1>1, <2>2 DEF ReaderGood, Walking
  <2> QED BY <1>1, <2>3, <2>4, ReaderStays
<1>3. CASE ~(Cardinality(DOMAIN chainStates) < 2)
  <2>1. PICK v : v = Walk(h) /\ WalkGood(v) /\ v.kept = h
    BY <1>1, WalkLemma
  <2>2. Gets(r, "directions", v)
    BY <1>3, <2>1
  <2>3. ReaderGood([at |-> "directions", result |-> v], total, average)
    BY <1>1, <2>1 DEF ReaderGood, Walking
  <2> QED BY <1>1, <2>2, <2>3, ReaderStays
<1> QED BY <1>2, <1>3

LEMMA TrendDirectionStep ==
    ASSUME IInv, NEW r \in Readers, TrendDirection(r)
    PROVE  IInv'
<1>1. PICK got : got = reader[r].result /\ reader[r].at = "directions" /\ Met(got)
  BY DEF TrendDirection
<1>2. total \in Nat /\ Exists /\ WalkGood(got) /\ got.kept \in Nat
  BY <1>1, ReaderKnows DEF ReaderGood, Walking
<1>3. PICK trend \in Trends : trend = calculateTrendDirection(got.seen)
  BY <1>1, <1>2, WalkEnds, DirectionLemma
<1>4. PICK kept : kept = [horizon |-> got.kept, trend |-> trend]
  OBVIOUS
<1>5. PICK v : v = Walk(kept) /\ WalkGood(v) /\ v.kept = kept
  BY <1>2, WalkLemma
<1>6. Gets(r, "confidences", v)
  BY <1>1, <1>3, <1>4, <1>5 DEF TrendDirection
<1>7. ReaderGood([at |-> "confidences", result |-> v], total, average)
  BY <1>2, <1>3, <1>4, <1>5 DEF ReaderGood, Walking
<1> QED BY <1>2, <1>6, <1>7, ReaderStays

LEMMA TrendConfidenceStep ==
    ASSUME IInv, NEW r \in Readers, TrendConfidence(r)
    PROVE  IInv'
<1>1. PICK got : got = reader[r].result /\ reader[r].at = "confidences"
  BY DEF TrendConfidence
<1>2. total \in Nat /\ Exists /\ got.kept.horizon \in Nat /\ got.kept.trend \in Trends
  BY <1>1, ReaderKnows DEF ReaderGood
<1>3. PICK f \in Nat : f = calculateTrendConfidence(got.seen)
  BY DEF calculateTrendConfidence
<1>4. PICK v : v = [horizon |-> got.kept.horizon, trend |-> got.kept.trend, trust |-> f]
  OBVIOUS
<1>5. Gets(r, "trend", v)
  BY <1>1, <1>3, <1>4 DEF TrendConfidence
<1>6. ReaderGood([at |-> "trend", result |-> v], total, average)
  BY <1>2, <1>3, <1>4 DEF ReaderGood, Walking
<1> QED BY <1>2, <1>5, <1>6, ReaderStays

\* An error ends a prediction.
LEMMA ErrorStep ==
    ASSUME IInv, NEW r \in Readers, reader[r].at # "out",
           Gets(r, "error", Nil) \/ Gets(r, "rejected", Nil)
    PROVE  IInv'
<1>1. total \in Nat /\ Exists
  BY ReaderKnows
<1>2. /\ ReaderGood([at |-> "error", result |-> Nil], total, average)
      /\ ReaderGood([at |-> "rejected", result |-> Nil], total, average)
  BY <1>1 DEF ReaderGood, Walking
<1> QED BY <1>1, <1>2, ReaderStays

LEMMA PredictPriceStep ==
    ASSUME IInv, NEW r \in Readers, PredictPrice(r)
    PROVE  IInv'
<1>1. PICK got : got = reader[r].result /\ reader[r].at = "trend"
  BY DEF PredictPrice
<1>2. /\ total \in Nat /\ Exists
      /\ got.horizon \in Nat /\ got.trend \in Trends /\ got.trust \in Nat
  BY <1>1, ReaderKnows DEF ReaderGood
<1>3. average \in Nat
  BY DEF PredictPrice, AnalysisPanic, IInv, StoreTyped, Fields
<1>4. CASE average = 0
  BY <1>1, <1>4, ErrorStep DEF PredictPrice
<1>5. CASE average # 0
  <2>1. PICK price : price = predictPrice(average, got.trend, got.trust, got.horizon)
    OBVIOUS
  <2>2. price \in Nat \ {0} /\ 10 * Abs(price - average) <= average
    BY <1>2, <1>3, <1>5, <2>1, PriceLemma
  <2>3. PICK v : v = [base |-> average, trust |-> got.trust, price |-> price]
    OBVIOUS
  <2>4. PriceGood(v)
    BY <1>2, <1>3, <1>5, <2>2, <2>3 DEF PriceGood
  <2>5. Gets(r, "price", v)
    BY <1>1, <1>5, <2>1, <2>3 DEF PredictPrice
  <2>6. ReaderGood([at |-> "price", result |-> v], total, average)
    BY <1>2, <1>3, <2>4 DEF ReaderGood, Walking
  <2> QED BY <1>2, <2>5, <2>6, ReaderStays
<1> QED BY <1>4, <1>5

LEMMA CurrentLiquidityStep ==
    ASSUME IInv, NEW r \in Readers, CurrentLiquidity(r)
    PROVE  IInv'
<1>1. PICK got : got = reader[r].result /\ reader[r].at = "price"
  BY DEF CurrentLiquidity
<1>2. total \in Nat /\ Exists /\ average \in Nat /\ PriceGood(got)
  BY <1>1, ReaderKnows DEF ReaderGood
<1>3. CASE total = 0
  BY <1>1, <1>3, ErrorStep DEF CurrentLiquidity
<1>4. CASE total # 0
  <2>1. PICK v : v = [base |-> got.base, trust |-> got.trust, price |-> got.price, total |-> total]
    OBVIOUS
  <2>2. PriceGood(v) /\ v.total \in Nat
    BY <1>2, <2>1 DEF PriceGood
  <2>3. Gets(r, "liquidity", v)
    BY <1>1, <1>4, <2>1 DEF CurrentLiquidity
  <2>4. ReaderGood([at |-> "liquidity", result |-> v], total, average)
    BY <1>2, <2>2 DEF ReaderGood, Walking
  <2> QED BY <1>2, <2>3, <2>4, ReaderStays
<1> QED BY <1>3, <1>4

LEMMA PredictLiquidityStep ==
    ASSUME IInv, NEW r \in Readers, PredictLiquidity(r)
    PROVE  IInv'
<1>1. PICK got : got = reader[r].result /\ reader[r].at = "liquidity"
  BY DEF PredictLiquidity
<1>2. total \in Nat /\ Exists /\ average \in Nat /\ PriceGood(got) /\ got.total \in Nat
  BY <1>1, ReaderKnows DEF ReaderGood
<1>3. PICK b \in Nat \ {0}, x \in Nat \ {0}, f \in Nat : b = got.base /\ x = got.price /\ f = got.trust
  BY <1>2 DEF PriceGood
<1>4. 10 * Abs(x - b) <= b
  BY <1>2, <1>3 DEF PriceGood
<1>5. PICK t \in Nat : t = got.total
  BY <1>2
<1>6. PICK l : l = predictLiquidity(t, average, x)
  OBVIOUS
<1>7. l \in Nat /\ 2 * l >= t - 1 /\ (average = b => 20 * Abs(l - t) < t + 20)
  <2>1. CASE average = 0
    <3>1. l = t /\ average # b
      BY <1>3, <1>6, <2>1 DEF predictLiquidity
    <3> QED BY <1>5, <3>1
  <2>2. CASE average # 0
    <3>1. PICK a \in Nat \ {0} : a = average
      BY <1>2, <2>2
    <3>2. l \in Nat /\ 2 * l >= t - 1
      BY <1>3, <1>5, <1>6, <3>1, LiquidityLemma
    <3>3. ASSUME a = b PROVE 20 * Abs(l - t) < t + 20
      BY <1>3, <1>4, <1>5, <1>6, <3>1, <3>3, LiquidityLemma
    <3> QED BY <3>1, <3>2, <3>3
  <2> QED BY <2>1, <2>2
<1>8. PICK v : v = [base |-> b, trust |-> f, price |-> x, total |-> t, reread |-> average,
                    liquidity |-> l]
  OBVIOUS
<1>9. PredictionGood(v)
  BY <1>2, <1>3, <1>4, <1>5, <1>7, <1>8 DEF PredictionGood
<1>10. Gets(r, "counting", v)
  BY <1>1, <1>3, <1>5, <1>6, <1>8 DEF PredictLiquidity
<1>11. ReaderGood([at |-> "counting", result |-> v], total, average)
  BY <1>2, <1>9 DEF ReaderGood, Walking
<1> QED BY <1>2, <1>10, <1>11, ReaderStays

\* The confidence changes nothing else of a prediction.
LEMMA ConfidenceStep ==
    ASSUME IInv, NEW r \in Readers, CountChains(r) \/ PredictConfidence(r)
    PROVE  IInv'
<1>1. PICK got, at : got = reader[r].result /\ at = reader[r].at /\ at \in {"counting", "dating"}
  BY DEF CountChains, PredictConfidence
<1>2. total \in Nat /\ Exists /\ PredictionGood(got)
  BY <1>1, ReaderKnows DEF ReaderGood
<1>3. PICK f \in Nat, to \in {"dating", "predicted"} : Gets(r, to, [got EXCEPT !.trust = f])
  <2>1. got.trust \in Nat
    BY <1>2 DEF PredictionGood
  <2>2. CASE CountChains(r)
    <3>1. PICK k \in Nat : k = ChainFactor(Cardinality(DOMAIN chainStates))
      BY DEF ChainFactor
    <3>2. got.trust * k \in Nat
      BY <2>1
    <3>3. Gets(r, "dating", [got EXCEPT !.trust = got.trust * k])
      BY <1>1, <2>2, <3>1 DEF CountChains
    <3> QED BY <3>2, <3>3
  <2>3. CASE PredictConfidence(r)
    <3>1. PICK k \in Nat : k = FreshnessFactor(Age(latest, Now))
      BY DEF FreshnessFactor
    <3>2. got.trust * k \in Nat
      BY <2>1
    <3>3. Gets(r, "predicted", [got EXCEPT !.trust = got.trust * k])
      BY <1>1, <2>3, <3>1 DEF PredictConfidence
    <3> QED BY <3>2, <3>3
  <2> QED BY <2>2, <2>3
<1>4. PICK v : v = [got EXCEPT !.trust = f]
  OBVIOUS
<1>5. /\ v \in [base : Nat, trust : Nat, price : Nat, total : Nat, reread : Nat, liquidity : Nat]
      /\ v.base = got.base /\ v.price = got.price /\ v.total = got.total
      /\ v.reread = got.reread /\ v.liquidity = got.liquidity
  BY <1>2, <1>3, <1>4 DEF PredictionGood
<1>6. PredictionGood(v)
  BY <1>2, <1>5 DEF PredictionGood
<1>7. ReaderGood([at |-> to, result |-> v], total, average)
  BY <1>2, <1>3, <1>6 DEF ReaderGood, Walking
<1> QED BY <1>2, <1>3, <1>4, <1>7, ReaderStays

\* PredictRebalancingNeed up to the imbalance.
LEMMA ImbalanceStep ==
    ASSUME IInv, NEW r \in Readers, NEW t \in Thresholds, Imbalance(r, t)
    PROVE  IInv'
<1> USE DEF Imbalance
<1>1. total \in Nat /\ Exists /\ t \in Nat
  BY ReaderKnows, StoreAssumption
<1>2. CASE Cardinality(DOMAIN chainStates) < 2
  <2>1. PICK v : v = [threshold |-> t, imbalance |-> 0]
    OBVIOUS
  <2>2. Gets(r, "imbalance", v)
    BY <1>2, <2>1
  <2>3. ReaderGood([at |-> "imbalance", result |-> v], total, average)
    BY <1>1, <2>1 DEF ReaderGood, Walking
  <2> QED BY <1>1, <2>2, <2>3, ReaderStays
<1>3. CASE ~(Cardinality(DOMAIN chainStates) < 2)
  <2>1. PICK v : v = [threshold |-> t]
    OBVIOUS
  <2>2. Gets(r, "share", v)
    BY <1>3, <2>1
  <2>3. ReaderGood([at |-> "share", result |-> v], total, average)
    BY <1>1, <2>1 DEF ReaderGood, Walking
  <2> QED BY <1>1, <2>2, <2>3, ReaderStays
<1> QED BY <1>2, <1>3

LEMMA ImbalanceTotalStep ==
    ASSUME IInv, NEW r \in Readers, ImbalanceTotal(r)
    PROVE  IInv'
<1>1. PICK got : got = reader[r].result /\ reader[r].at = "share"
  BY DEF ImbalanceTotal
<1>2. total \in Nat /\ Exists /\ got.threshold \in Nat
  BY <1>1, ReaderKnows DEF ReaderGood
<1>3. PICK v : v = [threshold |-> got.threshold, total |-> total]
  OBVIOUS
<1>4. Gets(r, "divide", v)
  BY <1>1, <1>3 DEF ImbalanceTotal
<1>5. ReaderGood([at |-> "divide", result |-> v], total, average)
  BY <1>2, <1>3 DEF ReaderGood, Walking
<1> QED BY <1>2, <1>4, <1>5, ReaderStays

LEMMA ExpectedPerChainStep ==
    ASSUME IInv, NEW r \in Readers, ExpectedPerChain(r)
    PROVE  IInv'
<1>1. PICK got : got = reader[r].result /\ reader[r].at = "divide"
  BY DEF ExpectedPerChain
<1>2. /\ total \in Nat /\ Exists /\ IsStates(chainStates)
      /\ got.threshold \in Nat /\ got.total \in Nat
  BY <1>1, ReaderKnows DEF ReaderGood
<1>3. PICK n \in Nat \ {0} : n = Cardinality(DOMAIN chainStates)
  BY <1>2, FS_CardinalityType, FS_EmptySet DEF IsStates, Exists
<1>4. PICK e \in Int : e = got.total \div n
  BY <1>2, <1>3
<1>5. PICK kept : kept = [threshold |-> got.threshold, expected |-> e]
  OBVIOUS
<1>6. PICK v : v = Walk(kept) /\ WalkGood(v) /\ v.kept = kept
  BY <1>2, WalkLemma
<1>7. Gets(r, "deviations", v)
  BY <1>1, <1>3, <1>4, <1>5, <1>6 DEF ExpectedPerChain
<1>8. ReaderGood([at |-> "deviations", result |-> v], total, average)
  BY <1>2, <1>4, <1>5, <1>6 DEF ReaderGood, Walking
<1> QED BY <1>2, <1>7, <1>8, ReaderStays

LEMMA TotalDeviationStep ==
    ASSUME IInv, NEW r \in Readers, TotalDeviation(r)
    PROVE  IInv'
<1>1. PICK got : got = reader[r].result /\ reader[r].at = "deviations" /\ Met(got)
  BY DEF TotalDeviation
<1>2. /\ total \in Nat /\ Exists /\ WalkGood(got)
      /\ got.kept.threshold \in Nat /\ got.kept.expected \in Int
  BY <1>1, ReaderKnows DEF ReaderGood, Walking
<1>3. PICK i \in Nat : i = Deviation(got.seen, got.kept.expected)
  BY <1>1, <1>2, WalkEnds, DeviationLemma
<1>4. PICK v : v = [threshold |-> got.kept.threshold, imbalance |-> i]
  OBVIOUS
<1>5. Gets(r, "imbalance", v)
  BY <1>1, <1>3, <1>4 DEF TotalDeviation
<1>6. ReaderGood([at |-> "imbalance", result |-> v], total, average)
  BY <1>2, <1>3, <1>4 DEF ReaderGood, Walking
<1> QED BY <1>2, <1>5, <1>6, ReaderStays

\* A total of zero never calls for a rebalancing.
LEMMA JudgeImbalanceStep ==
    ASSUME IInv, NEW r \in Readers, JudgeImbalance(r)
    PROVE  IInv'
<1>1. PICK got : got = reader[r].result /\ reader[r].at = "imbalance"
  BY DEF JudgeImbalance
<1>2. total \in Nat /\ Exists /\ got.threshold \in Nat /\ got.imbalance \in Nat
  BY <1>1, ReaderKnows DEF ReaderGood
<1>3. CASE calculateImbalancePercent(got.imbalance, total) > got.threshold
  <2>1. total # 0
    BY <1>2, <1>3 DEF calculateImbalancePercent
  <2>2. PICK v : v = [imbalance |-> got.imbalance, judged |-> total]
    OBVIOUS
  <2>3. Gets(r, "judged", v)
    BY <1>1, <1>3, <2>2 DEF JudgeImbalance
  <2>4. ReaderGood([at |-> "judged", result |-> v], total, average)
    BY <1>2, <2>1, <2>2 DEF ReaderGood, Walking
  <2> QED BY <1>2, <2>3, <2>4, ReaderStays
<1>4. CASE ~(calculateImbalancePercent(got.imbalance, total) > got.threshold)
  <2>1. PICK v : v = [needed |-> FALSE]
    OBVIOUS
  <2>2. NeedGood(v)
    BY <2>1 DEF NeedGood
  <2>3. Gets(r, "needs", v)
    BY <1>1, <1>4, <2>1 DEF JudgeImbalance
  <2>4. ReaderGood([at |-> "needs", result |-> v], total, average)
    BY <1>2, <2>2 DEF ReaderGood, Walking
  <2> QED BY <1>2, <2>3, <2>4, ReaderStays
<1> QED BY <1>3, <1>4

LEMMA RebalancingAmountStep ==
    ASSUME IInv, NEW r \in Readers, RebalancingAmount(r)
    PROVE  IInv'
<1>1. PICK got : got = reader[r].result /\ reader[r].at = "judged"
  BY DEF RebalancingAmount
<1>2. total \in Nat /\ Exists /\ got.imbalance \in Nat /\ got.judged \in Nat \ {0}
  BY <1>1, ReaderKnows DEF ReaderGood
<1>3. PICK a : a = calculateRebalancingAmount(total, got.imbalance)
  OBVIOUS
<1>4. /\ 2 * a <= got.imbalance \/ a <= MinAmount
      /\ 10 * a <= total
      /\ total >= 10 /\ MinAmount > 0 => a > 0
  BY <1>2, <1>3, AmountLemma
<1>5. PICK v : v = [needed |-> TRUE, imbalance |-> got.imbalance, judged |-> got.judged,
                    total |-> total, amount |-> a]
  OBVIOUS
<1>6. NeedGood(v)
  BY <1>2, <1>4, <1>5 DEF NeedGood
<1>7. Gets(r, "needs", v)
  BY <1>1, <1>3, <1>5 DEF RebalancingAmount
<1>8. ReaderGood([at |-> "needs", result |-> v], total, average)
  BY <1>2, <1>6 DEF ReaderGood, Walking
<1> QED BY <1>2, <1>7, <1>8, ReaderStays

\* The checks of ValidatePoolState.
LEMMA ValidateStep ==
    ASSUME IInv, NEW r \in Readers, NEW c \in Chains, NEW st \in ChainStates, NEW t \in Timestamps,
           Validate(r, c, st, t)
    PROVE  IInv'
<1>1. total \in Nat /\ Exists
  BY ReaderKnows DEF Validate
<1>2. PICK v : v = [chain |-> c, report |-> st, timestamp |-> t]
  OBVIOUS
<1>3. PICK at \in {"priced", "compare"} : Gets(r, at, v)
  BY <1>2 DEF Validate
<1>4. ReaderGood([at |-> at, result |-> v], total, average)
  BY <1>1, <1>2, <1>3 DEF ReaderGood, Walking
<1> QED BY <1>1, <1>3, <1>4, ReaderStays

LEMMA CheckStep ==
    ASSUME IInv, NEW r \in Readers, ValidatePrice(r) \/ ValidateLiquidity(r) \/ ValidateTimestamp(r)
    PROVE  IInv'
<1>1. PICK got : got = reader[r].result /\ reader[r].at \in {"compare", "priced", "liquid"}
  BY DEF ValidatePrice, ValidateLiquidity, ValidateTimestamp, Check
<1>2. total \in Nat /\ Exists /\ got.timestamp \in Timestamps
  BY <1>1, ReaderKnows DEF ReaderGood
<1>3. \/ Gets(r, "rejected", Nil)
      \/ Gets(r, "priced", got) \/ Gets(r, "liquid", got)
      \/ Gets(r, "accepted", got) /\ validateTimestamp(got.timestamp, Now)
  BY <1>1 DEF ValidatePrice, ValidateLiquidity, ValidateTimestamp, Check
<1>4. CASE Gets(r, "rejected", Nil)
  BY <1>1, <1>4, ErrorStep
<1>5. CASE Gets(r, "priced", got) \/ Gets(r, "liquid", got)
  <2>1. /\ ReaderGood([at |-> "priced", result |-> got], total, average)
        /\ ReaderGood([at |-> "liquid", result |-> got], total, average)
    BY <1>2 DEF ReaderGood, Walking
  <2> QED BY <1>2, <1>5, <2>1, ReaderStays
<1>6. CASE Gets(r, "accepted", got) /\ validateTimestamp(got.timestamp, Now)
  <2>1. AcceptedGood(got)
    BY <1>2, <1>6, AgeLemma DEF AcceptedGood
  <2>2. ReaderGood([at |-> "accepted", result |-> got], total, average)
    BY <1>2, <2>1 DEF ReaderGood, Walking
  <2> QED BY <1>2, <1>6, <2>2, ReaderStays
<1> QED BY <1>3, <1>4, <1>5, <1>6

\* The confidence of an accepted report, the part of the price.
LEMMA RateStep ==
    ASSUME IInv, NEW r \in Readers, Rate(r) \/ PriceDeviation(r) \/ DeviationPercent(r)
    PROVE  IInv'
<1>1. PICK got : got = reader[r].result /\ reader[r].at \in {"accepted", "deviate", "percent"}
  BY DEF Rate, PriceDeviation, DeviationPercent
<1>2. total \in Nat /\ Exists /\ AcceptedGood(got)
  BY <1>1, ReaderKnows DEF ReaderGood
<1>3. \/ Gets(r, "deviate", got)
      \/ \E d : Gets(r, "percent", [timestamp |-> got.timestamp, diff |-> d])
      \/ Gets(r, "aged", [timestamp |-> got.timestamp, confidence |-> 1000])
      \/ Gets(r, "aged", [timestamp |-> got.timestamp,
                          confidence |-> Discount((got.diff * 100) \div average, 1, 5, 10)])
  BY <1>1 DEF Rate, PriceDeviation, DeviationPercent
<1>4. CASE Gets(r, "deviate", got)
  <2>1. ReaderGood([at |-> "deviate", result |-> got], total, average)
    BY <1>2 DEF ReaderGood, Walking
  <2> QED BY <1>2, <1>4, <2>1, ReaderStays
<1>5. CASE \E d : Gets(r, "percent", [timestamp |-> got.timestamp, diff |-> d])
  <2>1. PICK d, v : v = [timestamp |-> got.timestamp, diff |-> d] /\ Gets(r, "percent", v)
    BY <1>5
  <2>2. AcceptedGood(v)
    BY <1>2, <2>1 DEF AcceptedGood
  <2>3. ReaderGood([at |-> "percent", result |-> v], total, average)
    BY <1>2, <2>2 DEF ReaderGood, Walking
  <2> QED BY <1>2, <2>1, <2>3, ReaderStays
<1>6. ASSUME NEW f \in Nat, f >= 432,
             Gets(r, "aged", [timestamp |-> got.timestamp, confidence |-> f])
      PROVE  IInv'
  <2>1. PICK v : v = [timestamp |-> got.timestamp, confidence |-> f]
    OBVIOUS
  <2>2. AcceptedGood(v) /\ v.confidence \in Nat /\ v.confidence >= 432
    BY <1>2, <1>6, <2>1 DEF AcceptedGood
  <2>3. ReaderGood([at |-> "aged", result |-> v], total, average)
    BY <1>2, <2>2 DEF ReaderGood, Walking
  <2> QED BY <1>2, <1>6, <2>1, <2>3, ReaderStays
<1>7. PICK f : f = Discount((got.diff * 100) \div average, 1, 5, 10) /\ f \in Nat /\ f >= 432
  BY DiscountLemma
<1>8. Gets(r, "aged", [timestamp |-> got.timestamp, confidence |-> 1000]) => IInv'
  <2>1. 1000 \in Nat /\ 1000 >= 432
    OBVIOUS
  <2> QED BY <1>6, <2>1
<1>9. Gets(r, "aged", [timestamp |-> got.timestamp, confidence |-> f]) => IInv'
  BY <1>6, <1>7
<1> QED BY <1>3, <1>4, <1>5, <1>7, <1>8, <1>9

\* The part of the age.
LEMMA RateAgeStep ==
    ASSUME IInv, NEW r \in Readers, NEW later \in {Now, Now + 1}, RateAge(r, later)
    PROVE  IInv'
<1>1. PICK got : got = reader[r].result /\ reader[r].at = "aged"
  BY DEF RateAge
<1>2. /\ total \in Nat /\ Exists /\ AcceptedGood(got)
      /\ got.confidence \in Nat /\ got.confidence >= 432
  BY <1>1, ReaderKnows DEF ReaderGood
<1>3. PICK t \in Nat : t = got.timestamp
  BY <1>2 DEF AcceptedGood
<1>4. PICK g : g = AgeDiscount(Age(t, later)) /\ g \in Nat
  BY DiscountLemma DEF AgeDiscount
<1>5. PICK k : k = AgeDiscount(Criteria.maxTimeGap + 1) /\ k \in Nat
  BY DiscountLemma DEF AgeDiscount
<1>6. ASSUME t <= Now PROVE got.confidence * g >= 432 * k
  <2>1. k <= g
    BY <1>2, <1>3, <1>4, <1>5, <1>6, AgeRateLemma DEF AcceptedGood
  <2>2. PICK f \in Nat : f = got.confidence /\ f >= 432
    BY <1>2
  <2>3. f * g >= 432 * g
    BY <1>4, <2>2
  <2>4. 432 * g >= 432 * k
    BY <1>4, <1>5, <2>1
  <2>5. f * g \in Nat
    BY <1>4, <2>2
  <2> QED BY <1>4, <1>5, <2>2, <2>3, <2>4, <2>5
<1>7. PICK v : v = [timestamp |-> t, confidence |-> got.confidence * g]
  OBVIOUS
<1>8. RatedGood(v)
  BY <1>2, <1>3, <1>5, <1>6, <1>7 DEF AcceptedGood, RatedGood
<1>9. Gets(r, "rated", v)
  BY <1>1, <1>3, <1>4, <1>7 DEF RateAge
<1>10. ReaderGood([at |-> "rated", result |-> v], total, average)
  BY <1>2, <1>8 DEF ReaderGood, Walking
<1> QED BY <1>2, <1>9, <1>10, ReaderStays

\* The steps whose result no property is about.
LEMMA PlainReaderStep ==
    ASSUME IInv, NEW r \in Readers, ReadLocked(r) \/ GetPointer(r) \/ Leave(r)
    PROVE  IInv'
<1>1. total \in Nat /\ Exists
  BY TotalKnown DEF ReadLocked, GetPointer, Leave
<1>2. CASE ReadLocked(r)
  <2>1. ReaderGood([at |-> "locked", result |-> <<total, average>>], total, average)
    BY <1>1 DEF ReaderGood, Walking
  <2> QED BY <1>1, <1>2, <2>1, ReaderStays DEF ReadLocked
<1>3. CASE GetPointer(r)
  <2>1. ReaderGood([at |-> "pointer", result |-> Nil], total, average)
    BY <1>1 DEF ReaderGood, Walking
  <2> QED BY <1>1, <1>3, <2>1, ReaderStays DEF GetPointer
<1>4. CASE Leave(r)
  <2>1. ReaderGood([at |-> "out", result |-> Nil], total, average)
    BY DEF ReaderGood, Walking
  <2> QED BY <1>1, <1>4, <2>1, ReaderStays DEF Leave
<1> QED BY <1>2, <1>3, <1>4

\* Every step of an updater or a reader keeps the invariant.
LEMMA Inductive == IInv /\ [Next]_vars => IInv'
<1> SUFFICES ASSUME IInv, [Next]_vars PROVE IInv'
  OBVIOUS
<1>1. ASSUME NEW u \in Updaters, Update(u) PROVE IInv'
  BY <1>1, StoreStep, WriteTotalStep, FailStep, WriteAverageStep, WriteScoreStep, WriteBlockStep
     DEF Update
<1>2. ASSUME NEW r \in Readers, ReadLocked(r) \/ GetPointer(r) \/ Leave(r) PROVE IInv'
  BY <1>2, PlainReaderStep
<1>3. ASSUME NEW r \in Readers, NEW c \in Chains, Visit(r, c) PROVE IInv'
  BY <1>3, VisitStep
<1>4. ASSUME NEW r \in Readers, Prediction(r) PROVE IInv'
  BY <1>4, TrendStep, TrendDirectionStep, TrendConfidenceStep, PredictPriceStep,
     CurrentLiquidityStep, PredictLiquidityStep, ConfidenceStep DEF Prediction
<1>5. ASSUME NEW r \in Readers, Need(r) PROVE IInv'
  BY <1>5, ImbalanceStep, ImbalanceTotalStep, ExpectedPerChainStep, TotalDeviationStep,
     JudgeImbalanceStep, RebalancingAmountStep DEF Need
<1>6. ASSUME NEW r \in Readers, Validation(r) PROVE IInv'
  BY <1>6, ValidateStep, CheckStep, RateStep, RateAgeStep DEF Validation
<1>9. CASE UNCHANGED vars
  <2> USE <1>9 DEF vars
  <2>1. StoreTyped' /\ LockHeld'
    BY DEF IInv, StoreTyped, LockHeld
  <2>2. /\ Exists' = Exists /\ LockFree' = LockFree /\ TotalCurrent' = TotalCurrent
        /\ AverageCurrent' = AverageCurrent /\ ScoreCurrent' = ScoreCurrent
    BY DEF Exists, LockFree, TotalCurrent, AverageCurrent, ScoreCurrent
  <2>3. FieldsFollow'
    BY <2>2 DEF IInv, FieldsFollow
  <2>4. ReadersKept'
    BY <2>2 DEF IInv, ReadersKept
  <2> QED BY <2>1, <2>3, <2>4 DEF IInv
<1> QED BY <1>1, <1>2, <1>3, <1>4, <1>5, <1>6, <1>9, Zenon DEF Next

-----------------------------------------------------------------------------
(* The store: the theorems *)

\* The invariant holds in every reachable state of UpdatePoolState and its
\* readers, whatever the interleaving.
THEOREM Invariance == Spec => []IInv
<1>1. Init => IInv
  BY InitLemma
<1>2. IInv /\ [Next]_vars => IInv'
  BY Inductive
<1> QED BY <1>1, <1>2, PTL DEF Spec

\* After a successful UpdatePoolState all the fields belong to the chain states:
\* the weighted average lies between two prices and the score is the integer
\* root of the price variance.
THEOREM FieldsTheorem == Spec => []FieldsAgree
<1>1. IInv => FieldsAgree
  <2> SUFFICES ASSUME IInv, LockFree, Exists, ~failed
               PROVE  LET v == PriceVariance(chainStates, average) IN
                      /\ total = TotalLiquidity(chainStates) /\ total > 0
                      /\ \E c, d \in DOMAIN chainStates :
                            chainStates[c].price <= average /\ average <= chainStates[d].price
                      /\ Cardinality(DOMAIN chainStates) > 1 =>
                            score * score <= v /\ v < (score + 1) * (score + 1)
                      /\ \A c \in DOMAIN chainStates : latest >= chainStates[c].block
                      /\ \E c \in DOMAIN chainStates : latest = chainStates[c].block
    BY DEF FieldsAgree
  <2>1. IsStates(chainStates) /\ DOMAIN chainStates # {}
    BY DEF IInv, StoreTyped, Exists
  <2>2. TotalCurrent /\ AverageCurrent /\ ScoreCurrent /\ latest = LatestBlock(chainStates)
    BY DEF IInv, FieldsFollow
  <2>3. total = TotalLiquidity(chainStates) /\ total > 0
    BY <2>2 DEF TotalCurrent, AverageCurrent
  <2>4. /\ average \in Nat
        /\ \E c, d \in DOMAIN chainStates :
              chainStates[c].price <= average /\ average <= chainStates[d].price
    BY <2>1, <2>2, AverageLemma DEF AverageCurrent
  <2>5. ASSUME Cardinality(DOMAIN chainStates) > 1
        PROVE  /\ score * score <= PriceVariance(chainStates, average)
               /\ PriceVariance(chainStates, average) < (score + 1) * (score + 1)
    <3>1. PICK mean \in Int : mean = average
      BY <2>4
    <3>2. IsRoot(ImbalanceScore(chainStates, mean), PriceVariance(chainStates, mean))
      BY <2>1, <2>5, ScoreLemma
    <3> QED BY <2>2, <3>1, <3>2 DEF IsRoot, ScoreCurrent
  <2>6. /\ \A c \in DOMAIN chainStates : latest >= chainStates[c].block
        /\ \E c \in DOMAIN chainStates : latest = chainStates[c].block
    BY <2>1, <2>2, BlockLemma
  <2> QED BY <2>3, <2>4, <2>5, <2>6
<1> QED BY <1>1, Invariance, PTL

\* UpdatePoolState fails only for a pool without liquidity, and only after such a
\* failure can CalculateAggregatedMetrics, the predictor or the validator panic.
THEOREM FailureTheorem == Spec => []FailureIsEmptyPool
<1>1. IInv => FailureIsEmptyPool
  <2> SUFFICES ASSUME IInv, LockFree, Exists
               PROVE  /\ failed <=> \A c \in DOMAIN chainStates : chainStates[c].liquidity = 0
                      /\ failed => total = 0
                      /\ MetricsPanic \/ AnalysisPanic => failed
    BY DEF FailureIsEmptyPool
  <2>1. IsStates(chainStates)
    BY DEF IInv, StoreTyped
  <2>2. /\ TotalLiquidity(chainStates) \in Nat
        /\ TotalLiquidity(chainStates) = 0 <=>
              \A c \in DOMAIN chainStates : chainStates[c].liquidity = 0
    BY <2>1, TotalLemma
  <2>3. total = TotalLiquidity(chainStates)
    BY DEF IInv, FieldsFollow, TotalCurrent
  <2>4. CASE failed
    <3>1. TotalLiquidity(chainStates) = 0
      BY <2>4 DEF IInv, FieldsFollow
    <3> QED BY <2>2, <2>3, <2>4, <3>1
  <2>5. CASE ~failed
    <3>1. AverageCurrent
      BY <2>5 DEF IInv, FieldsFollow
    <3>2. TotalLiquidity(chainStates) # 0
      BY <2>2, <3>1 DEF AverageCurrent
    <3>3. average \in Nat
      BY <2>1, <3>1, AverageLemma DEF AverageCurrent
    <3>4. ~MetricsPanic /\ ~AnalysisPanic
      BY <2>3, <3>2, <3>3, StoreAssumption DEF MetricsPanic, AnalysisPanic
    <3> QED BY <2>2, <2>5, <3>2, <3>4
  <2> QED BY <2>4, <2>5
<1> QED BY <1>1, Invariance, PTL

\* PredictPoolState keeps its bounds even though it reads the record field by
\* field, and the average twice, without the lock.
THEOREM PredictionTheorem == Spec => []PredictionBounded
<1>1. IInv => PredictionBounded
  BY DEF IInv, ReadersKept, ReaderGood, PredictionGood, PredictionBounded
<1> QED BY <1>1, Invariance, PTL

\* PredictRebalancingNeed, whatever updates come between its three readings of
\* the total, asks for no more than a tenth of the last of them, and only if the
\* one it judged by was not zero.
THEOREM RebalancingTheorem == Spec => []RebalancingBounded
<1>1. IInv => RebalancingBounded
  BY DEF IInv, ReadersKept, ReaderGood, NeedGood, RebalancingBounded
<1> QED BY <1>1, Invariance, PTL

\* ValidatePoolState accepts no report that is too old, and none from the future
\* unless the caller's gap is longer than the clock has run; a clock that moves
\* on before the confidence is worked out costs what a second beyond the gap
\* costs at most.  This holds for every gap.
THEOREM RecentTheorem == Spec => []AcceptedIsRecent
<1>1. IInv => AcceptedIsRecent
  BY DEF IInv, ReadersKept, ReaderGood, RatedGood, AcceptedIsRecent
<1> QED BY <1>1, Invariance, PTL

-----------------------------------------------------------------------------
(* The aggregator process *)

ProcessTask == [status : {0, 1, Completed, Failed}, deadline : Nat, quorum : Nat,
                consensus : BOOLEAN, valid : SUBSET Operators, invalid : SUBSET Operators]

StateMaps == UNION {[S -> ChainStates] : S \in SUBSET Chains}

Pool == [chainStates : StateMaps, total : Nat, average : Nat, score : Nat, latest : Nat,
         lastUpdated : Nat, reportedAt : Nat]

ProcessTyped ==
    /\ now \in 0 .. MaxTime /\ due \subseteq Loops /\ alive \subseteq Loops
    /\ running \in BOOLEAN
    /\ tasks \in [Tasks -> ProcessTask]
    /\ poolStates \in [Pools -> Pool]
    /\ tasksCompleted \in Nat /\ tasksFailed \in Nat
    /\ stateUpdates \in Nat /\ rebalancingOps \in Nat

\* The maps of the process hold finitely many entries.
MapsFinite ==
    /\ IsFiniteSet(KnownTasks) /\ IsFiniteSet(KnownPools)
    /\ \A t \in Tasks : IsFiniteSet(tasks[t].valid)
    /\ \A p \in Pools : IsFiniteSet(DOMAIN poolStates[p].chainStates)

Agreed == {t \in KnownTasks : tasks[t].consensus}

\* A task has no consensus before it is known.
ConsensusSupported ==
    \A t \in Tasks : tasks[t].consensus => /\ tasks[t].status # 0
                                           /\ Cardinality(tasks[t].valid) >= tasks[t].quorum

CompletedCounted == tasksCompleted = Cardinality(Agreed)

ProcessInv ==
    /\ ProcessTyped /\ MapsFinite /\ ConsensusSupported /\ CompletedCounted

\* What the tasks part of the invariant depends on.
TaskPart == /\ tasks \in [Tasks -> ProcessTask] /\ tasksCompleted \in Nat
            /\ IsFiniteSet(KnownTasks)
            /\ \A t \in Tasks : IsFiniteSet(tasks[t].valid)
            /\ ConsensusSupported /\ CompletedCounted

\* What the pools part depends on.
PoolPart == /\ poolStates \in [Pools -> Pool]
            /\ IsFiniteSet(KnownPools)
            /\ \A p \in Pools : IsFiniteSet(DOMAIN poolStates[p].chainStates)

LEMMA TaskPartSame ==
    ASSUME TaskPart, tasks' = tasks, tasksCompleted' = tasksCompleted
    PROVE  TaskPart'
BY DEF TaskPart, ConsensusSupported, CompletedCounted, Agreed, KnownTasks

LEMMA PoolPartSame ==
    ASSUME PoolPart, poolStates' = poolStates
    PROVE  PoolPart'
BY DEF PoolPart, KnownPools

\* One round of processTasks for one task.
LEMMA ProcessedLemma ==
    ASSUME NEW task \in ProcessTask
    PROVE  LET new == Processed(task) IN
           /\ new \in ProcessTask
           /\ new.valid = task.valid /\ new.quorum = task.quorum
           /\ task.status # 0 => new.status # 0
           /\ task.consensus => new.consensus
           /\ new.consensus => task.consensus \/ Cardinality(task.valid) >= task.quorum
<1>0. PICK new : new = Processed(task)
  OBVIOUS
<1>1. CASE now > task.deadline
  <2>1. new = [task EXCEPT !.status = Failed]
    BY <1>0, <1>1, Zenon DEF Processed
  <2>2. /\ new \in ProcessTask /\ new.status # 0
        /\ new.valid = task.valid /\ new.quorum = task.quorum /\ new.consensus = task.consensus
    BY <2>1 DEF ProcessTask, Failed
  <2> QED BY <1>0, <2>2, Zenon
<1>2. CASE /\ ~(now > task.deadline) /\ ~task.consensus
           /\ Cardinality(task.valid) + Cardinality(task.invalid) >= task.quorum
           /\ Cardinality(task.valid) >= task.quorum
  <2>1. PICK z : z = [task EXCEPT !.consensus = TRUE]
    OBVIOUS
  <2>2. z \in ProcessTask /\ z.valid = task.valid /\ z.quorum = task.quorum /\ z.consensus = TRUE
    BY <2>1 DEF ProcessTask
  <2>3. new = [task EXCEPT !.consensus = TRUE, !.status = Completed]
    BY <1>0, <1>2, Zenon DEF Processed, processConsensus
  <2>4. new = [z EXCEPT !.status = Completed]
    BY <2>1, <2>3
  <2>5. /\ new \in ProcessTask /\ new.status # 0
        /\ new.valid = task.valid /\ new.quorum = task.quorum /\ new.consensus = TRUE
    BY <2>2, <2>4 DEF ProcessTask, Completed
  <2>6. Cardinality(task.valid) >= task.quorum
    BY <1>2
  <2> QED BY <1>0, <2>5, <2>6, Zenon
<1>3. CASE ~(now > task.deadline) /\ ~(/\ ~task.consensus
           /\ Cardinality(task.valid) + Cardinality(task.invalid) >= task.quorum
           /\ Cardinality(task.valid) >= task.quorum)
  <2>1. new = task
    BY <1>0, <1>3, Zenon DEF Processed, processConsensus
  <2> QED BY <1>0, <2>1, Zenon
<1> QED BY <1>1, <1>2, <1>3, Zenon

\* The tasks that a round completes are new among those with consensus.
LEMMA ProcessTasksStep ==
    ASSUME TaskPart, tasksFailed \in Nat, processTasks
    PROVE  TaskPart' /\ tasksFailed' \in Nat
<1> DEFINE K == KnownTasks
           N == {t \in Tasks : tasks'[t].consensus /\ ~tasks[t].consensus}
<1>1. /\ tasks' = [t \in Tasks |-> IF t \in K THEN Processed(tasks[t]) ELSE tasks[t]]
      /\ tasksFailed' = tasksFailed + Cardinality({t \in K : now > tasks[t].deadline})
      /\ tasksCompleted' = tasksCompleted + Cardinality(NewlyCompleted(tasks, tasks'))
  BY DEF processTasks
<1>2. /\ tasks \in [Tasks -> ProcessTask] /\ tasksCompleted \in Nat /\ IsFiniteSet(K)
      /\ \A t \in Tasks : IsFiniteSet(tasks[t].valid)
      /\ \A t \in Tasks : tasks[t].consensus => /\ tasks[t].status # 0
                                                /\ Cardinality(tasks[t].valid) >= tasks[t].quorum
      /\ tasksCompleted = Cardinality(Agreed)
  BY DEF TaskPart, ConsensusSupported, CompletedCounted
<1>3. \A t \in Tasks : t \in K <=> tasks[t].status # 0
  BY DEF KnownTasks
<1>4. ASSUME NEW t \in Tasks
      PROVE  /\ tasks'[t] \in ProcessTask
             /\ tasks'[t].valid = tasks[t].valid /\ tasks'[t].quorum = tasks[t].quorum
             /\ tasks[t].status # 0 <=> tasks'[t].status # 0
             /\ tasks[t].consensus => tasks'[t].consensus
             /\ tasks'[t].consensus =>
                   tasks[t].consensus \/ (t \in K /\ Cardinality(tasks[t].valid) >= tasks[t].quorum)
  <2>1. tasks[t] \in ProcessTask
    BY <1>2
  <2>2. CASE t \in K
    <3>1. tasks'[t] = Processed(tasks[t])
      BY <1>1, <2>2
    <3>2. tasks[t].status # 0
      BY <1>3, <2>2
    <3> QED BY <2>1, <2>2, <3>1, <3>2, ProcessedLemma
  <2>3. CASE t \notin K
    <3>1. tasks'[t] = tasks[t]
      BY <1>1, <2>3
    <3> QED BY <2>1, <3>1
  <2> QED BY <2>2, <2>3
<1>5. tasks' \in [Tasks -> ProcessTask]
  <2>1. tasks' = [t \in Tasks |-> tasks'[t]]
    BY <1>1
  <2> QED BY <1>4, <2>1
<1>6. KnownTasks' = K
  BY <1>4 DEF KnownTasks
<1>7. N \in SUBSET K /\ IsFiniteSet(N) /\ Cardinality(N) \in Nat
  <2>1. N \in SUBSET K
    BY <1>4
  <2> HIDE DEF N, K
  <2> QED BY <1>2, <2>1, FS_Subset, FS_CardinalityType
<1>8. IsFiniteSet(Agreed) /\ Agreed \in SUBSET K /\ Cardinality(Agreed) \in Nat
  <2>1. Agreed \in SUBSET K
    BY DEF Agreed
  <2> HIDE DEF K
  <2> QED BY <1>2, <2>1, FS_Subset, FS_CardinalityType
<1>9. Agreed' = Agreed \cup N /\ Agreed \cap N = {}
  <2>1. Agreed' = {t \in K : tasks'[t].consensus}
    BY <1>6 DEF Agreed
  <2>2. Agreed = {t \in K : tasks[t].consensus} /\ K \in SUBSET Tasks
    BY DEF Agreed, KnownTasks
  <2> HIDE DEF K
  <2> QED BY <1>4, <1>7, <2>1, <2>2, Zenon
<1>10. tasksCompleted' = tasksCompleted + Cardinality(N)
  <2>1. NewlyCompleted(tasks, tasks') = N
    BY <1>1 DEF NewlyCompleted
  <2> HIDE DEF N
  <2> QED BY <1>1, <2>1
<1>11. Cardinality(Agreed \cup N) = Cardinality(Agreed) + Cardinality(N)
  <2>1. PICK A : A = Agreed
    OBVIOUS
  <2> HIDE DEF N
  <2>2. IsFiniteSet(A) /\ IsFiniteSet(N) /\ A \cap N = {}
    BY <1>7, <1>8, <1>9, <2>1
  <2>3. Cardinality(A \cup N) = Cardinality(A) + Cardinality(N)
    <3>1. Cardinality(A \cup N) = Cardinality(A) + Cardinality(N) - Cardinality(A \cap N)
      BY <2>2, FS_Union
    <3>2. Cardinality(A) \in Nat /\ Cardinality(N) \in Nat /\ Cardinality(A \cap N) = 0
      BY <2>2, FS_CardinalityType, FS_EmptySet
    <3> QED BY <3>1, <3>2
  <2> QED BY <2>1, <2>3
<1>12. CompletedCounted' /\ tasksCompleted' \in Nat
  <2>1. PICK a \in Nat, n \in Nat : a = Cardinality(Agreed) /\ n = Cardinality(N)
    BY <1>7, <1>8
  <2>2. Cardinality(Agreed') = a + n
    BY <1>9, <1>11, <2>1
  <2>3. tasksCompleted' = a + n
    BY <1>2, <1>10, <2>1
  <2> QED BY <2>1, <2>2, <2>3 DEF CompletedCounted
<1>13. ConsensusSupported'
  <2>1. ASSUME NEW t \in Tasks, tasks'[t].consensus
        PROVE  tasks'[t].status # 0 /\ Cardinality(tasks'[t].valid) >= tasks'[t].quorum
    BY <1>2, <1>3, <1>4, <2>1
  <2> QED BY <2>1 DEF ConsensusSupported
<1>14. \A t \in Tasks : IsFiniteSet(tasks'[t].valid)
  BY <1>2, <1>4
<1>15. tasksFailed' \in Nat
  <2>1. PICK S : S = {t \in K : now > tasks[t].deadline} /\ S \in SUBSET K
    OBVIOUS
  <2> HIDE DEF K
  <2>2. Cardinality(S) \in Nat
    BY <1>2, <2>1, FS_Subset, FS_CardinalityType
  <2> QED BY <1>1, <2>1, <2>2
<1>16. IsFiniteSet(KnownTasks')
  BY <1>2, <1>6
<1> QED BY <1>5, <1>12, <1>13, <1>14, <1>15, <1>16 DEF TaskPart

\* Changing the status of one task, or adding a response to it.
LEMMA OneTaskStep ==
    ASSUME TaskPart, NEW t \in Tasks, NEW new \in ProcessTask, tasks' = [tasks EXCEPT ![t] = new],
           tasksCompleted' = tasksCompleted,
           new.status # 0, new.consensus = tasks[t].consensus, IsFiniteSet(new.valid),
           new.consensus => Cardinality(new.valid) >= new.quorum
    PROVE  TaskPart'
<1>1. /\ tasks \in [Tasks -> ProcessTask]
      /\ \A u \in Tasks : tasks[u].consensus => tasks[u].status # 0
  BY DEF TaskPart, ConsensusSupported
<1>2. tasks' \in [Tasks -> ProcessTask] /\ tasks'[t] = new /\ \A u \in Tasks : u # t => tasks'[u] = tasks[u]
  BY <1>1
<1>3. KnownTasks' = KnownTasks \cup {t}
  BY <1>2 DEF KnownTasks
<1>4. IsFiniteSet(KnownTasks')
  BY <1>3, FS_AddElement DEF TaskPart
<1>5. Agreed' = Agreed
  <2>1. \A u \in Tasks : u \in Agreed' <=> u \in Agreed
    BY <1>1, <1>2, <1>3 DEF Agreed, KnownTasks
  <2>2. Agreed \in SUBSET Tasks /\ Agreed' \in SUBSET Tasks
    BY DEF Agreed, KnownTasks
  <2> QED BY <2>1, <2>2
<1>6. ConsensusSupported'
  BY <1>2 DEF TaskPart, ConsensusSupported
<1>7. CompletedCounted'
  BY <1>5 DEF TaskPart, CompletedCounted
<1>8. \A u \in Tasks : IsFiniteSet(tasks'[u].valid)
  BY <1>2 DEF TaskPart
<1>9. tasksCompleted' \in Nat
  BY DEF TaskPart
<1> QED BY <1>2, <1>4, <1>6, <1>7, <1>8, <1>9 DEF TaskPart

LEMMA AddTaskStep ==
    ASSUME TaskPart, NEW t \in Tasks,
           NEW d \in 0 .. MaxTime - 1, NEW q \in Quorums, AddTask(t, d, q)
    PROVE  TaskPart'
<1>1. tasks' = [tasks EXCEPT ![t].status = 1, ![t].deadline = d, ![t].quorum = q]
      /\ tasks[t].status = 0 /\ tasksCompleted' = tasksCompleted
  BY DEF AddTask
<1>2. tasks \in [Tasks -> ProcessTask] /\ IsFiniteSet(tasks[t].valid) /\ ~tasks[t].consensus
  BY <1>1 DEF TaskPart, ConsensusSupported
<1>3. d \in Nat /\ q \in Nat
  BY AggregatorAssumption
<1>4. PICK task \in ProcessTask : task = tasks[t]
  BY <1>2
<1>5. PICK a : a = [task EXCEPT !.status = 1]
  OBVIOUS
<1>6. PICK b : b = [a EXCEPT !.deadline = d]
  OBVIOUS
<1>7. PICK new : new = [b EXCEPT !.quorum = q]
  OBVIOUS
<1>8. a \in ProcessTask /\ a.status = 1 /\ a.consensus = task.consensus /\ a.valid = task.valid
  BY <1>5 DEF ProcessTask
<1>9. b \in ProcessTask /\ b.status = 1 /\ b.consensus = task.consensus /\ b.valid = task.valid
  BY <1>3, <1>6, <1>8 DEF ProcessTask
<1>10. new \in ProcessTask /\ new.status = 1 /\ new.consensus = task.consensus /\ new.valid = task.valid
  BY <1>3, <1>7, <1>9 DEF ProcessTask
<1>11. tasks' = [tasks EXCEPT ![t] = new]
  <2>1. [tasks EXCEPT ![t].status = 1] = [tasks EXCEPT ![t] = a]
    BY <1>2, <1>4, <1>5
  <2>2. [[tasks EXCEPT ![t] = a] EXCEPT ![t].deadline = d] = [tasks EXCEPT ![t] = b]
    BY <1>2, <1>6
  <2>3. [[tasks EXCEPT ![t] = b] EXCEPT ![t].quorum = q] = [tasks EXCEPT ![t] = new]
    BY <1>2, <1>7
  <2> QED BY <1>1, <2>1, <2>2, <2>3
<1>12. new.status # 0 /\ new.consensus = tasks[t].consensus /\ IsFiniteSet(new.valid)
  BY <1>2, <1>4, <1>8, <1>9, <1>10
<1>13. new.consensus => Cardinality(new.valid) >= new.quorum
  BY <1>2, <1>12
<1> QED BY <1>1, <1>10, <1>11, <1>12, <1>13, OneTaskStep

LEMMA AddResponseStep ==
    ASSUME TaskPart, NEW t \in Tasks, NEW o \in Operators, NEW b \in BOOLEAN,
           AddResponse(t, o, b)
    PROVE  TaskPart'
<1>1. /\ tasks' = IF b THEN [tasks EXCEPT ![t].valid = @ \cup {o}]
                  ELSE [tasks EXCEPT ![t].invalid = @ \cup {o}]
      /\ tasks[t].status # 0 /\ tasksCompleted' = tasksCompleted
      /\ o \notin tasks[t].valid
  BY DEF AddResponse, KnownTasks
<1>2. PICK task \in ProcessTask : task = tasks[t] /\ tasks \in [Tasks -> ProcessTask]
  BY DEF TaskPart
<1>3. IsFiniteSet(task.valid) /\ (task.consensus => Cardinality(task.valid) >= task.quorum)
  BY <1>2 DEF TaskPart, ConsensusSupported
<1>4. CASE b
  <2>1. PICK V : V = task.valid \cup {o}
    OBVIOUS
  <2>2. PICK new : new = [task EXCEPT !.valid = V]
    OBVIOUS
  <2>3. /\ new \in ProcessTask /\ new.valid = V /\ new.consensus = task.consensus
        /\ new.quorum = task.quorum /\ new.status = task.status
    BY <2>1, <2>2 DEF ProcessTask
  <2>4. IsFiniteSet(V) /\ Cardinality(V) = Cardinality(task.valid) + 1 /\ Cardinality(task.valid) \in Nat
    BY <1>1, <1>2, <1>3, <2>1, FS_AddElement, FS_CardinalityType
  <2>5. task.quorum \in Nat
    BY DEF ProcessTask
  <2>6. new.consensus => Cardinality(new.valid) >= new.quorum
    BY <1>3, <2>3, <2>4, <2>5
  <2>7. tasks' = [tasks EXCEPT ![t] = new]
    BY <1>1, <1>2, <1>4, <2>1, <2>2
  <2> QED BY <1>1, <1>2, <2>3, <2>4, <2>6, <2>7, OneTaskStep
<1>5. CASE ~b
  <2>1. PICK V : V = task.invalid \cup {o}
    OBVIOUS
  <2>2. PICK new : new = [task EXCEPT !.invalid = V]
    OBVIOUS
  <2>3. /\ new \in ProcessTask /\ new.valid = task.valid /\ new.consensus = task.consensus
        /\ new.quorum = task.quorum /\ new.status = task.status
    BY <2>1, <2>2 DEF ProcessTask
  <2>4. tasks' = [tasks EXCEPT ![t] = new]
    BY <1>1, <1>2, <1>5, <2>1, <2>2
  <2> QED BY <1>1, <1>2, <1>3, <2>3, <2>4, OneTaskStep
<1> QED BY <1>4, <1>5

\* A stored pool has a map of proper reports.
LEMMA PoolStates ==
    ASSUME NEW pool \in Pool, IsFiniteSet(DOMAIN pool.chainStates)
    PROVE  IsStates(pool.chainStates)
<1>1. PICK S \in SUBSET Chains : pool.chainStates \in [S -> ChainStates]
  BY DEF Pool, StateMaps
<1>2. ChainStates \subseteq [liquidity : Nat, price : Nat, block : Nat]
  BY ReportAssumption
<1>3. ASSUME NEW c \in DOMAIN pool.chainStates
      PROVE  /\ pool.chainStates[c].liquidity \in Nat /\ pool.chainStates[c].price \in Nat
             /\ pool.chainStates[c].block \in Nat
  <2>1. pool.chainStates[c] \in [liquidity : Nat, price : Nat, block : Nat]
    BY <1>1, <1>2
  <2> QED BY <2>1
<1> QED BY <1>3 DEF IsStates

\* What aggregateChainStates makes of one pool.
LEMMA AggregateLemma ==
    ASSUME now \in Nat,
           NEW pool \in Pool, IsFiniteSet(DOMAIN pool.chainStates)
    PROVE  LET new == aggregateChainStates(pool) IN
           /\ new \in Pool /\ new.chainStates = pool.chainStates
           /\ Aggregates(pool) =>
                 /\ new.lastUpdated = now
                 /\ TotalLiquidity(pool.chainStates) > 0
                 /\ new.average = WeightedAveragePrice(pool.chainStates)
                 /\ new.score = ImbalanceScore(pool.chainStates, new.average)
<1>0. PICK new : new = aggregateChainStates(pool)
  OBVIOUS
<1>1. PICK cs : cs = pool.chainStates
  OBVIOUS
<1>2. IsStates(cs) /\ IsFiniteSet(DOMAIN cs) /\ cs \in StateMaps
  BY <1>1, PoolStates DEF Pool
<1>3. PICK sum \in Nat : sum = TotalLiquidity(cs)
  BY <1>2, TotalLemma
<1>4. PICK z1 : z1 = [pool EXCEPT !.total = sum]
  OBVIOUS
<1>5. z1 \in Pool /\ z1.chainStates = cs /\ z1.total = sum
  BY <1>1, <1>4 DEF Pool
<1>6. CASE sum = 0
  <2>1. ~Aggregates(pool)
    BY <1>1, <1>3, <1>6 DEF Aggregates
  <2>2. new = z1
    BY <1>0, <1>1, <1>3, <1>4, <2>1 DEF aggregateChainStates
  <2> QED BY <1>0, <1>1, <1>5, <2>1, <2>2, Zenon
<1>7. CASE sum # 0
  <2>1. Aggregates(pool) /\ sum > 0
    BY <1>1, <1>3, <1>7 DEF Aggregates
  <2>2. PICK mean \in Nat : mean = WeightedAveragePrice(cs)
    BY <1>2, <1>3, <2>1, AverageLemma
  <2>3. PICK root \in Nat : root = ImbalanceScore(cs, mean)
    <3>1. CASE Cardinality(DOMAIN cs) > 1
      BY <1>2, <3>1, ScoreLemma DEF IsRoot
    <3>2. CASE ~(Cardinality(DOMAIN cs) > 1)
      <4>1. PICK n \in Nat : n = Cardinality(DOMAIN cs)
        BY <1>2, FS_CardinalityType
      <4>2. Cardinality(DOMAIN cs) < 2
        BY <3>2, <4>1
      <4>3. ImbalanceScore(cs, mean) = 0
        BY <4>2 DEF ImbalanceScore
      <4> QED BY <4>3
    <3> QED BY <3>1, <3>2
  <2>4. PICK block \in Nat : block = LatestBlock(cs)
    BY <1>2, BlockLemma
  <2>5. new = [z1 EXCEPT !.average = mean, !.score = root, !.latest = block, !.lastUpdated = now]
    BY <1>0, <1>1, <1>3, <1>4, <1>5, <1>7, <2>1, <2>2, <2>3, <2>4 DEF aggregateChainStates
  <2>6. PICK z2 : z2 = [z1 EXCEPT !.average = mean]
    OBVIOUS
  <2>7. z2 \in Pool /\ z2.chainStates = cs /\ z2.average = mean
    BY <1>5, <2>6 DEF Pool
  <2>8. PICK z3 : z3 = [z2 EXCEPT !.score = root]
    OBVIOUS
  <2>9. z3 \in Pool /\ z3.chainStates = cs /\ z3.average = mean /\ z3.score = root
    BY <2>7, <2>8 DEF Pool
  <2>10. PICK z4 : z4 = [z3 EXCEPT !.latest = block]
    OBVIOUS
  <2>11. z4 \in Pool /\ z4.chainStates = cs /\ z4.average = mean /\ z4.score = root
    BY <2>9, <2>10 DEF Pool
  <2>12. new = [z4 EXCEPT !.lastUpdated = now]
    BY <2>5, <2>6, <2>8, <2>10
  <2>13. /\ new \in Pool /\ new.chainStates = cs /\ new.average = mean /\ new.score = root
         /\ new.lastUpdated = now
    BY <2>11, <2>12 DEF Pool
  <2> QED BY <1>0, <1>1, <1>3, <2>1, <2>2, <2>3, <2>13
<1> QED BY <1>6, <1>7

LEMMA EmptyPool == NoPool \in Pool /\ DOMAIN NoPool.chainStates = {}
<1>1. << >> \in [{} -> ChainStates] /\ DOMAIN << >> = {}
  OBVIOUS
<1>2. << >> \in StateMaps
  BY <1>1 DEF StateMaps
<1>3. PICK e : e = << >> /\ e \in StateMaps /\ DOMAIN e = {}
  BY <1>1, <1>2
<1>4. NoPool = [chainStates |-> e, total |-> 0, average |-> 0, score |-> 0,
                       latest |-> 0, lastUpdated |-> 0, reportedAt |-> 0]
  BY <1>3 DEF NoPool
<1> QED BY <1>3, <1>4 DEF Pool

\* aggregateStates drops pools, aggregates the others and counts those that
\* aggregateChainStates brought to its end.
LEMMA AggregateStatesStep ==
    ASSUME PoolPart, now \in Nat, stateUpdates \in Nat,
           aggregateStates
    PROVE  PoolPart' /\ stateUpdates' \in Nat
<1>1. PICK F : F = {p \in KnownPools : ~TooOld(poolStates[p])}
  OBVIOUS
<1>2. /\ poolStates' = [p \in Pools |-> IF p \in F THEN aggregateChainStates(poolStates[p])
                                        ELSE NoPool]
      /\ stateUpdates' = stateUpdates +
            Cardinality({p \in F : Aggregates(poolStates[p])})
  BY <1>1 DEF aggregateStates
<1>3. F \in SUBSET KnownPools /\ F \in SUBSET Pools
  BY <1>1 DEF KnownPools
<1>4. NoPool \in Pool /\ DOMAIN NoPool.chainStates = {}
  BY EmptyPool
<1>5. ASSUME NEW p \in Pools
      PROVE  /\ poolStates'[p] \in Pool
             /\ IsFiniteSet(DOMAIN poolStates'[p].chainStates)
             /\ p \notin F => poolStates'[p] = NoPool
  <2>1. CASE p \in F
    <3>1. poolStates'[p] = aggregateChainStates(poolStates[p])
      BY <1>2, <2>1
    <3>2. poolStates[p] \in Pool /\ IsFiniteSet(DOMAIN poolStates[p].chainStates)
      BY DEF PoolPart
    <3> QED BY <2>1, <3>1, <3>2, AggregateLemma
  <2>2. CASE p \notin F
    <3>1. poolStates'[p] = NoPool
      BY <1>2, <2>2
    <3> QED BY <1>4, <3>1, FS_EmptySet
  <2> QED BY <2>1, <2>2
<1>6. poolStates' \in [Pools -> Pool]
  <2>1. poolStates' = [p \in Pools |-> poolStates'[p]]
    BY <1>2
  <2> QED BY <1>5, <2>1
<1>7. IsFiniteSet(KnownPools')
  <2>1. KnownPools' \in SUBSET KnownPools
    BY <1>3, <1>5 DEF KnownPools
  <2> QED BY <2>1, FS_Subset DEF PoolPart
<1>8. stateUpdates' \in Nat
  <2>1. PICK U : U = {p \in F : Aggregates(poolStates[p])} /\ U \in SUBSET KnownPools
    BY <1>3
  <2>2. Cardinality(U) \in Nat
    BY <2>1, FS_Subset, FS_CardinalityType DEF PoolPart
  <2> QED BY <1>2, <2>1, <2>2
<1> QED BY <1>5, <1>6, <1>7, <1>8 DEF PoolPart

\* A report enters the map of its pool.
LEMMA ReportStep ==
    ASSUME PoolPart, now \in Nat, NEW p \in Pools, NEW c \in Chains, NEW s \in ChainStates,
           ReportState(p, c, s)
    PROVE  PoolPart'
<1>1. PICK pool \in Pool : pool = poolStates[p]
  BY DEF PoolPart
<1>2. PICK cs : cs = pool.chainStates
  OBVIOUS
<1>3. PICK more : more = [d \in DOMAIN cs \cup {c} |-> IF d = c THEN s ELSE cs[d]]
  OBVIOUS
<1>4. poolStates \in [Pools -> Pool] /\ IsFiniteSet(DOMAIN cs)
  BY <1>1, <1>2 DEF PoolPart
<1>5. more \in StateMaps /\ DOMAIN more = DOMAIN cs \cup {c}
  <2>1. PICK S \in SUBSET Chains : cs \in [S -> ChainStates]
    BY <1>2 DEF Pool, StateMaps
  <2>2. S \cup {c} \in SUBSET Chains /\ more \in [S \cup {c} -> ChainStates]
    BY <1>3, <2>1
  <2> QED BY <1>3, <2>2 DEF StateMaps
<1>6. IsFiniteSet(DOMAIN more)
  BY <1>4, <1>5, FS_AddElement
<1>7. PICK z1 : z1 = [pool EXCEPT !.chainStates = more]
  OBVIOUS
<1>8. z1 \in Pool /\ z1.chainStates = more
  BY <1>5, <1>7 DEF Pool
<1>9. PICK z2 : z2 = [z1 EXCEPT !.lastUpdated = now]
  OBVIOUS
<1>10. z2 \in Pool /\ z2.chainStates = more
  BY <1>8, <1>9 DEF Pool
<1>11. PICK z3 : z3 = [z2 EXCEPT !.reportedAt = now]
  OBVIOUS
<1>12. z3 \in Pool /\ z3.chainStates = more
  BY <1>10, <1>11 DEF Pool
<1>13. poolStates' = [poolStates EXCEPT ![p] = z3]
  <2>1. [poolStates EXCEPT ![p].chainStates =
             [d \in DOMAIN @ \cup {c} |-> IF d = c THEN s ELSE @[d]]] = [poolStates EXCEPT ![p] = z1]
    BY <1>1, <1>2, <1>3, <1>4, <1>7
  <2>2. [[poolStates EXCEPT ![p] = z1] EXCEPT ![p].lastUpdated = now] = [poolStates EXCEPT ![p] = z2]
    BY <1>4, <1>9
  <2>3. [[poolStates EXCEPT ![p] = z2] EXCEPT ![p].reportedAt = now] = [poolStates EXCEPT ![p] = z3]
    BY <1>4, <1>11
  <2>4. poolStates' = [poolStates EXCEPT
          ![p].chainStates = [d \in DOMAIN @ \cup {c} |-> IF d = c THEN s ELSE @[d]],
          ![p].lastUpdated = now, ![p].reportedAt = now]
    BY DEF ReportState
  <2> QED BY <2>1, <2>2, <2>3, <2>4
<1>14. /\ poolStates' \in [Pools -> Pool] /\ poolStates'[p] = z3
       /\ \A q \in Pools : q # p => poolStates'[q] = poolStates[q]
  BY <1>4, <1>12, <1>13
<1>15. \A q \in Pools : IsFiniteSet(DOMAIN poolStates'[q].chainStates)
  BY <1>6, <1>12, <1>14 DEF PoolPart
<1>16. IsFiniteSet(KnownPools')
  <2>1. KnownPools' \in SUBSET (KnownPools \cup {p})
    BY <1>14 DEF KnownPools
  <2>2. IsFiniteSet(KnownPools \cup {p})
    BY FS_AddElement DEF PoolPart
  <2> QED BY <2>1, <2>2, FS_Subset
<1> QED BY <1>14, <1>15, <1>16 DEF PoolPart

LEMMA ProcessStarts == ASSUME ProcessInit PROVE ProcessInv
<1>1. NoTask \in ProcessTask /\ NoTask.status = 0 /\ NoTask.valid = {}
      /\ NoTask.consensus = FALSE
  BY DEF NoTask, ProcessTask
<1>2. /\ now = 0 /\ due = {} /\ running = TRUE /\ alive = Loops
      /\ tasks = [t \in Tasks |-> NoTask] /\ poolStates = [p \in Pools |-> NoPool]
      /\ tasksCompleted = 0 /\ tasksFailed = 0 /\ stateUpdates = 0 /\ rebalancingOps = 0
  BY DEF ProcessInit
<1>3. MaxTime \in Nat
  BY AggregatorAssumption
<1>4. ProcessTyped
  BY <1>1, <1>2, <1>3, EmptyPool DEF ProcessTyped
<1>5. KnownTasks = {} /\ KnownPools = {} /\ Agreed = {}
  BY <1>1, <1>2 DEF KnownTasks, KnownPools, Agreed
<1>6. MapsFinite
  BY <1>1, <1>2, <1>5, EmptyPool, FS_EmptySet DEF MapsFinite
<1>7. ConsensusSupported
  BY <1>1, <1>2 DEF ConsensusSupported
<1>8. CompletedCounted
  BY <1>2, <1>5, FS_EmptySet DEF CompletedCounted
<1> QED BY <1>4, <1>6, <1>7, <1>8 DEF ProcessInv

LEMMA ProcessParts ==
    ProcessInv <=> /\ TaskPart /\ PoolPart
                   /\ now \in 0 .. MaxTime /\ due \subseteq Loops
                   /\ alive \subseteq Loops /\ running \in BOOLEAN
                   /\ tasksFailed \in Nat /\ stateUpdates \in Nat /\ rebalancingOps \in Nat
BY Zenon DEF ProcessInv, ProcessTyped, MapsFinite, TaskPart, PoolPart

LEMMA ProcessInductive ==
    ASSUME ProcessInv, [ProcessNext]_processVars
    PROVE  ProcessInv'
<1> USE DEF Loops
<1>1. /\ TaskPart /\ PoolPart
      /\ now \in 0 .. MaxTime /\ due \subseteq Loops
      /\ alive \subseteq Loops /\ running \in BOOLEAN
      /\ tasksFailed \in Nat /\ stateUpdates \in Nat /\ rebalancingOps \in Nat
  BY ProcessParts
<1>2. MaxTime \in Nat /\ now \in Nat
  BY <1>1, AggregatorAssumption
<1> DEFINE Rest == /\ now \in 0 .. MaxTime /\ due \subseteq Loops
                   /\ alive \subseteq Loops /\ running \in BOOLEAN
                   /\ tasksFailed \in Nat /\ stateUpdates \in Nat /\ rebalancingOps \in Nat
<1>3. SUFFICES TaskPart' /\ PoolPart' /\ Rest'
  <2>1. (ProcessInv)' <=> /\ TaskPart' /\ PoolPart' /\ Rest'
    BY Zenon DEF ProcessInv, ProcessTyped, MapsFinite, TaskPart, PoolPart
  <2> QED BY <2>1
<1>4. CASE processTasks
  <2>1. TaskPart' /\ tasksFailed' \in Nat
    BY <1>1, <1>4, ProcessTasksStep
  <2>2. PoolPart'
    BY <1>1, <1>4, PoolPartSame DEF processTasks
  <2> QED BY <1>1, <1>4, <2>1, <2>2 DEF processTasks
<1>5. CASE aggregateStates
  <2>1. PoolPart' /\ stateUpdates' \in Nat
    BY <1>1, <1>2, <1>5, AggregateStatesStep
  <2>2. TaskPart'
    BY <1>1, <1>5, TaskPartSame DEF aggregateStates
  <2> QED BY <1>1, <1>5, <2>1, <2>2 DEF aggregateStates
<1>6. CASE checkRebalancingNeeds
  <2>1. TaskPart' /\ PoolPart'
    BY <1>1, <1>6, TaskPartSame, PoolPartSame DEF checkRebalancingNeeds
  <2>2. rebalancingOps' \in Nat
    <3>1. PICK U : /\ U = {p \in KnownPools :
                             ImbalancePercent(poolStates[p]) > RebalancingThreshold}
                   /\ U \in SUBSET KnownPools
      OBVIOUS
    <3>2. Cardinality(U) \in Nat
      BY <1>1, <3>1, FS_Subset, FS_CardinalityType DEF PoolPart
    <3>3. rebalancingOps' = rebalancingOps + Cardinality(U)
      BY <1>6, <3>1 DEF checkRebalancingNeeds
    <3> QED BY <1>1, <3>2, <3>3
  <2> QED BY <1>1, <1>6, <2>1, <2>2 DEF checkRebalancingNeeds
<1>7. CASE Stop
  <2>1. TaskPart' /\ PoolPart'
    BY <1>1, <1>7, TaskPartSame, PoolPartSame DEF Stop
  <2> QED BY <1>1, <1>7, <2>1 DEF Stop
<1>8. CASE Tick
  <2>1. TaskPart' /\ PoolPart'
    BY <1>1, <1>8, TaskPartSame, PoolPartSame DEF Tick
  <2> QED BY <1>1, <1>2, <1>8, <2>1 DEF Tick
<1>9. ASSUME NEW loop \in Loops, Return(loop) PROVE TaskPart' /\ PoolPart' /\ Rest'
  <2>1. TaskPart' /\ PoolPart'
    BY <1>1, <1>9, TaskPartSame, PoolPartSame DEF Return
  <2> QED BY <1>1, <1>9, <2>1 DEF Return
<1>10. ASSUME NEW t \in Tasks, NEW d \in 0 .. MaxTime - 1, NEW q \in Quorums, AddTask(t, d, q)
       PROVE  TaskPart' /\ PoolPart' /\ Rest'
  <2>1. TaskPart'
    BY <1>1, <1>10, AddTaskStep
  <2>2. PoolPart'
    BY <1>1, <1>10, PoolPartSame DEF AddTask
  <2> QED BY <1>1, <1>10, <2>1, <2>2 DEF AddTask
<1>11. ASSUME NEW t \in Tasks, NEW o \in Operators, NEW b \in BOOLEAN, AddResponse(t, o, b)
       PROVE  TaskPart' /\ PoolPart' /\ Rest'
  <2>1. TaskPart'
    BY <1>1, <1>11, AddResponseStep
  <2>2. PoolPart'
    BY <1>1, <1>11, PoolPartSame DEF AddResponse
  <2> QED BY <1>1, <1>11, <2>1, <2>2 DEF AddResponse
<1>12. ASSUME NEW p \in Pools, NEW c \in Chains, NEW s \in ChainStates, ReportState(p, c, s)
       PROVE  TaskPart' /\ PoolPart' /\ Rest'
  <2>1. PoolPart'
    BY <1>1, <1>2, <1>12, ReportStep
  <2>2. TaskPart'
    BY <1>1, <1>12, TaskPartSame DEF ReportState
  <2> QED BY <1>1, <1>12, <2>1, <2>2 DEF ReportState
<1>13. CASE UNCHANGED processVars
  <2>1. TaskPart' /\ PoolPart'
    BY <1>1, <1>13, TaskPartSame, PoolPartSame DEF processVars
  <2> QED BY <1>1, <1>13, <2>1 DEF processVars
<1> HIDE DEF Rest
<1> QED BY <1>4, <1>5, <1>6, <1>7, <1>8, <1>9, <1>10, <1>11, <1>12, <1>13, Zenon DEF ProcessNext

\* The inductive invariant of the aggregator process: it has its type, its maps
\* are finite, consensus stays supported by valid responses, and the counter
\* of completed tasks is the number of tasks with consensus.
THEOREM ProcessInvariance ==
    ProcessSpec => []ProcessInv
<1>1. ProcessInit => ProcessInv
  BY ProcessStarts
<1>2. ProcessInv /\ [ProcessNext]_processVars => ProcessInv'
  BY ProcessInductive
<1> QED BY <1>1, <1>2, PTL DEF ProcessSpec

\* processTasks gives a task consensus only with as many valid responses as
\* its quorum asks for, and counts each consensus once, for any tasks,
\* operators, deadlines and rounds.
THEOREM ConsensusTheorem ==
    ProcessSpec => []ConsensusCountedOnce
<1>1. ProcessInv => ConsensusCountedOnce
  <2> SUFFICES ASSUME ProcessInv PROVE ConsensusCountedOnce
    OBVIOUS
  <2>1. ProcessTyped /\ ConsensusSupported /\ CompletedCounted
    BY DEF ProcessInv
  <2>2. \A t \in KnownTasks :
            tasks[t].consensus => Cardinality(tasks[t].valid) >= tasks[t].quorum
    BY <2>1 DEF ConsensusSupported, KnownTasks
  <2>3. tasksCompleted = Cardinality({t \in KnownTasks : tasks[t].consensus})
    BY <2>1 DEF CompletedCounted, Agreed
  <2>4. ASSUME NEW p \in Pools
        PROVE  /\ poolStates[p].chainStates \in UNION {[S -> ChainStates] : S \in SUBSET Chains}
               /\ {poolStates[p].total, poolStates[p].average, poolStates[p].score,
                   poolStates[p].latest, poolStates[p].lastUpdated} \subseteq Nat
    <3>1. poolStates[p] \in Pool
      BY <2>1 DEF ProcessTyped
    <3> QED BY <3>1 DEF Pool, StateMaps
  <2>5. TypeOK
    BY <2>1, <2>4 DEF TypeOK, ProcessTyped, ProcessTask
  <2> QED BY <2>2, <2>3, <2>5 DEF ConsensusCountedOnce
<1> QED BY <1>1, ProcessInvariance, PTL

\* Only aggregateStates counts updates; when it does, a pool has been
\* aggregated to the end.
LEMMA MetricsLemma ==
    ASSUME ProcessInv, [ProcessNext]_processVars
    PROVE  MetricsStep
<1> SUFFICES ASSUME stateUpdates' > stateUpdates PROVE MetricsStep
  BY DEF MetricsStep
<1>1. PoolPart /\ now \in Nat /\ stateUpdates \in Nat
  BY ProcessParts, AggregatorAssumption
<1>2. aggregateStates
  <2> SUFFICES ASSUME ~aggregateStates PROVE stateUpdates' = stateUpdates
    BY <1>1
  <2>1. CASE processTasks
    BY <2>1 DEF processTasks
  <2>2. CASE checkRebalancingNeeds
    BY <2>2 DEF checkRebalancingNeeds
  <2>3. CASE Stop
    BY <2>3 DEF Stop
  <2>4. CASE Tick
    BY <2>4 DEF Tick
  <2>5. ASSUME NEW loop, Return(loop) PROVE stateUpdates' = stateUpdates
    BY <2>5 DEF Return
  <2>6. ASSUME NEW t, NEW d, NEW q, AddTask(t, d, q) PROVE stateUpdates' = stateUpdates
    BY <2>6 DEF AddTask
  <2>7. ASSUME NEW t, NEW o, NEW b, AddResponse(t, o, b) PROVE stateUpdates' = stateUpdates
    BY <2>7 DEF AddResponse
  <2>8. ASSUME NEW p, NEW c, NEW s, ReportState(p, c, s) PROVE stateUpdates' = stateUpdates
    BY <2>8 DEF ReportState
  <2>9. CASE UNCHANGED processVars
    BY <2>9 DEF processVars
  <2> QED BY <2>1, <2>2, <2>3, <2>4, <2>5, <2>6, <2>7, <2>8, <2>9, Zenon DEF ProcessNext
<1>3. PICK F : F = {p \in KnownPools : ~TooOld(poolStates[p])}
  OBVIOUS
<1>4. /\ poolStates' = [p \in Pools |-> IF p \in F THEN aggregateChainStates(poolStates[p])
                                        ELSE NoPool]
      /\ stateUpdates' = stateUpdates +
            Cardinality({p \in F : Aggregates(poolStates[p])})
  BY <1>2, <1>3 DEF aggregateStates
<1>5. PICK p \in F : Aggregates(poolStates[p])
  <2> SUFFICES ASSUME {p \in F : Aggregates(poolStates[p])} = {} PROVE FALSE
    OBVIOUS
  <2>1. stateUpdates' = stateUpdates + 0
    BY <1>4, FS_EmptySet
  <2> QED BY <1>1, <2>1
<1>6. p \in Pools
  BY <1>3, <1>5 DEF KnownPools
<1>7. PICK old \in Pool : old = poolStates[p] /\ IsFiniteSet(DOMAIN old.chainStates)
  BY <1>1, <1>6 DEF PoolPart
<1>8. PICK pool : pool = poolStates'[p]
  OBVIOUS
<1>9. /\ pool.chainStates = old.chainStates /\ pool.lastUpdated = now
      /\ TotalLiquidity(old.chainStates) > 0
      /\ pool.average = WeightedAveragePrice(old.chainStates)
      /\ pool.score = ImbalanceScore(old.chainStates, pool.average)
  <2>1. pool = aggregateChainStates(old)
    BY <1>4, <1>5, <1>6, <1>7, <1>8
  <2> QED BY <1>1, <1>5, <1>7, <2>1, AggregateLemma
<1>10. PICK cs : cs = pool.chainStates /\ IsStates(cs) /\ IsFiniteSet(DOMAIN cs)
  BY <1>1, <1>7, <1>9, PoolStates
<1>11. /\ pool.average \in Nat
       /\ \E c, d \in DOMAIN cs : cs[c].price <= pool.average /\ pool.average <= cs[d].price
  BY <1>9, <1>10, AverageLemma
<1>12. ASSUME Cardinality(DOMAIN cs) > 1
       PROVE  LET v == PriceVariance(cs, pool.average) IN
              pool.score * pool.score <= v /\ v < (pool.score + 1) * (pool.score + 1)
  <2>1. Cardinality(DOMAIN cs) > 1
    BY <1>12
  <2>2. PICK mean \in Int : mean = pool.average
    BY <1>11
  <2>3. PICK v \in Nat : v = PriceVariance(cs, mean) /\ IsRoot(ImbalanceScore(cs, mean), v)
    BY <1>10, <2>1, ScoreLemma
  <2>4. IsRoot(pool.score, v)
    BY <1>9, <1>10, <2>2, <2>3
  <2> QED BY <2>2, <2>3, <2>4 DEF IsRoot
<1> QED BY <1>6, <1>8, <1>9, <1>10, <1>11, <1>12 DEF MetricsStep

\* When aggregateStates counts an update, some pool has metrics of this round:
\* an average between its prices and a score that is the integer root of their
\* variance, whatever the reports are.
THEOREM UpdateTheorem ==
    ProcessSpec => UpdatedMetricsAreSound
<1>1. ProcessInv /\ [ProcessNext]_processVars => [MetricsStep]_processVars
  BY MetricsLemma
<1> QED BY <1>1, ProcessInvariance, PTL DEF ProcessSpec, UpdatedMetricsAreSound

=============================================================================
