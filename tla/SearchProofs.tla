---------------------------- MODULE SearchProofs ----------------------------
(***************************************************************************)
(* The search for every request, any outcome of its runs and any set of    *)
(* transforms: every recorded sequence of transforms rebuilds its program, *)
(* and no candidate that may win is better than the winner.  The slicer    *)
(* for every verified program: a range of operation ids computes what it   *)
(* computes in the whole program.  And the rewrites for every verified     *)
(* program whose inputs are bound: what they make computes what it was     *)
(* made of, so that the program the search returns computes its base.      *)
(***************************************************************************)
EXTENDS Slice, FiniteSetTheorems, WellFoundedInduction, TLAPS

IsSeq(c) == Len(c) \in Nat /\ c = [i \in 1 .. Len(c) |-> c[i]]

-----------------------------------------------------------------------------
(* Numbers, maxima and sequences.                                          *)
LEMMA EveryNat ==
  ASSUME NEW T, 0 \in T, \A k \in Nat : k \in T => k + 1 \in T
  PROVE  \A k \in Nat : k \in T
<1> DEFINE W == Nat \ T
<1>1. SUFFICES ASSUME W # {} PROVE FALSE
  OBVIOUS
<1>2. PICK m \in W : \A k \in W : ~(<<k, m>> \in OpToRel(<, Nat))
  <2>1. W \subseteq Nat
    OBVIOUS
  <2> HIDE DEF W
  <2>2. QED
    BY <1>1, <2>1, WFMin, NatLessThanWellFounded
<1>3. m \in Nat /\ m # 0 /\ m \notin T /\ \A k \in W : ~(k < m)
  BY <1>2 DEF OpToRel
<1>4. m - 1 \in Nat /\ m - 1 < m /\ m = (m - 1) + 1
  BY <1>3
<1>5. m - 1 \in T
  BY <1>3, <1>4
<1>6. QED
  BY <1>3, <1>4, <1>5

LEMMA MaxIs ==
  ASSUME NEW S, S \subseteq Int, NEW m \in S, \A x \in S : x <= m
  PROVE  Max(S) = m
<1> DEFINE Top(x) == \A y \in S : x >= y
<1>1. m \in S /\ Top(m)
  OBVIOUS
<1>2. Max(S) = CHOOSE x \in S : Top(x)
  BY DEF Max
<1>3. Max(S) \in S /\ Top(Max(S))
  <2> HIDE DEF Top
  <2>1. QED
    BY <1>1, <1>2
<1>4. Max(S) >= m /\ m >= Max(S) /\ Max(S) \in Int /\ m \in Int
  BY <1>1, <1>3
<1>5. QED
  BY <1>4

LEMMA MaxExists ==
  ASSUME NEW n \in Nat, NEW S, S \subseteq 1 .. n, S # {}
  PROVE  Max(S) \in S /\ \A x \in S : x <= Max(S)
<1> DEFINE T == {k \in Nat : \A R \in SUBSET (1 .. k) :
                    R # {} => \E m \in R : \A x \in R : x <= m}
<1>1. 0 \in T
  <2>1. \A R \in SUBSET (1 .. 0) : R = {}
    OBVIOUS
  <2>2. QED
    BY <2>1
<1>2. ASSUME NEW k \in Nat, k \in T PROVE k + 1 \in T
  <2> SUFFICES ASSUME NEW R \in SUBSET (1 .. k + 1), R # {}
               PROVE  \E m \in R : \A x \in R : x <= m
    OBVIOUS
  <2>1. CASE k + 1 \in R
    <3>1. \A x \in R : x <= k + 1
      OBVIOUS
    <3>2. QED
      BY <2>1, <3>1
  <2>2. CASE k + 1 \notin R
    <3>1. R \in SUBSET (1 .. k)
      BY <2>2
    <3>2. QED
      BY <1>2, <3>1
  <2>3. QED
    BY <2>1, <2>2
<1>3. n \in T
  <2> HIDE DEF T
  <2>1. QED
    BY <1>1, <1>2, EveryNat
<1>4. PICK m \in S : \A x \in S : x <= m
  BY <1>3
<1>5. Max(S) = m
  <2>1. S \subseteq Int
    OBVIOUS
  <2>2. QED
    BY <1>4, <2>1, MaxIs
<1>6. QED
  BY <1>4, <1>5

LEMMA SeqIs == ASSUME NEW c, IsSeq(c) PROVE c \in Seq({c[i] : i \in 1 .. Len(c)}) /\ DOMAIN c = 1 .. Len(c)
  BY DEF IsSeq

LEMMA SeqBuilt ==
  ASSUME NEW n \in Nat, NEW f, f = [i \in 1 .. n |-> f[i]]
  PROVE  IsSeq(f) /\ Len(f) = n /\ DOMAIN f = 1 .. n
<1>1. f \in Seq({f[i] : i \in 1 .. n})
  OBVIOUS
<1>2. QED
  BY <1>1 DEF IsSeq

LEMMA Appended ==
  ASSUME NEW s, IsSeq(s), NEW e
  PROVE  /\ IsSeq(Append(s, e)) /\ Len(Append(s, e)) = Len(s) + 1
         /\ DOMAIN Append(s, e) = 1 .. Len(s) + 1
         /\ \A i \in 1 .. Len(s) : Append(s, e)[i] = s[i]
         /\ Append(s, e)[Len(s) + 1] = e
<1> DEFINE S == {s[i] : i \in 1 .. Len(s)} \cup {e}
           a == Append(s, e)
<1>1. s \in Seq(S) /\ e \in S
  BY SeqIs DEF IsSeq
<1> HIDE DEF S
<1>2. /\ a \in Seq(S) /\ Len(a) = Len(s) + 1 /\ a[Len(s) + 1] = e /\ Len(s) \in Nat
      /\ \A i \in 1 .. Len(s) : a[i] = s[i]
  BY <1>1
<1> HIDE DEF a
<1>3. Len(a) \in Nat /\ a = [i \in 1 .. Len(a) |-> a[i]] /\ DOMAIN a = 1 .. Len(s) + 1
  BY <1>2
<1>4. QED
  BY <1>2, <1>3 DEF IsSeq, a

-----------------------------------------------------------------------------
(* Folding a sequence from the left is defined through a function on the   *)
(* sets of its positions.  The function exists, and its value at the first *)
(* k positions is the fold of the first k elements.                        *)
Improve(n, least, w, i) ==
  IF i # 1 /\ Admissible(candidates[i], n) /\ Better(i, w, least) THEN i ELSE w

(* What a selection has come to with an operation.                         *)
Extended(kept, o, ids) == IF o.id \in ids THEN Append(kept, o) ELSE kept

(* The folds: the transforms of a sequence, applied to a context; the      *)
(* choice among the candidates; the operations of a program, executed on   *)
(* values; those selected by a range of ids; the places a transform goes   *)
(* to; and the parts of a sequence, joined.                                *)
Applied(b, s) == [of |-> "transforms", start |-> b, sequence |-> s]
Choice(n, least) == [of |-> "candidates", start |-> 1, noise |-> n, least |-> least]
Executed(c, b) == [of |-> "operations", start |-> b, context |-> c, sequence |-> c.ops]
Selecting(ops, ids) == [of |-> "selection", start |-> <<>>, sequence |-> ops, ids |-> ids]
Placing(tr, c, scope) == [of |-> "sites", start |-> c, transform |-> tr, sequence |-> scope]
Joining(parts) == [of |-> "parts", start |-> <<>>, sequence |-> parts]
Step(fold, k, v) ==
  IF fold.of = "transforms" THEN Apply(fold.sequence[k], v)
  ELSE IF fold.of = "candidates" THEN Improve(fold.noise, fold.least, v, k)
  ELSE IF fold.of = "operations" THEN Written(fold.context, fold.sequence[k], v)
  ELSE IF fold.of = "selection" THEN Extended(v, fold.sequence[k], fold.ids)
  ELSE IF fold.of = "sites" THEN AtSite(fold.transform, fold.start, v, fold.sequence[k])
  ELSE v \o fold.sequence[k]

Table(g, fold, n) ==
  g = [t \in SUBSET (1 .. n) |->
         IF t = {} THEN fold.start ELSE Step(fold, Max(t), g[t \ {Max(t)}])]
Steps(g, fold, n) ==
  \A k \in 0 .. n - 1 : g[1 .. k + 1] = Step(fold, k + 1, g[1 .. k])

LEMMA TableExists ==
  ASSUME NEW fold
  PROVE  \A n \in Nat : \E g : Table(g, fold, n)
<1> DEFINE T == {n \in Nat : \E g : Table(g, fold, n)}
<1>1. 0 \in T
  <2> DEFINE g == [t \in SUBSET (1 .. 0) |-> fold.start]
  <2>1. \A t \in SUBSET (1 .. 0) : t = {}
    OBVIOUS
  <2>2. Table(g, fold, 0)
    BY <2>1 DEF Table
  <2>3. QED
    BY <2>2
<1>2. ASSUME NEW n \in Nat, n \in T PROVE n + 1 \in T
  <2>1. PICK g : Table(g, fold, n)
    BY <1>2
  <2> DEFINE h == [t \in SUBSET (1 .. n + 1) |->
                     IF n + 1 \in t THEN Step(fold, n + 1, g[t \ {n + 1}]) ELSE g[t]]
  <2>2. ASSUME NEW t \in SUBSET (1 .. n + 1)
        PROVE  h[t] = IF t = {} THEN fold.start ELSE Step(fold, Max(t), h[t \ {Max(t)}])
    <3>1. CASE n + 1 \in t
      <4>1. Max(t) = n + 1
        <5>1. t \subseteq Int /\ \A x \in t : x <= n + 1
          OBVIOUS
        <5>2. QED
          BY <3>1, <5>1, MaxIs
      <4>2. t \ {n + 1} \in SUBSET (1 .. n) /\ n + 1 \notin t \ {n + 1}
        OBVIOUS
      <4>3. h[t \ {n + 1}] = g[t \ {n + 1}]
        BY <4>2
      <4>4. QED
        BY <3>1, <4>1, <4>3
    <3>2. CASE n + 1 \notin t
      <4>1. t \in SUBSET (1 .. n) /\ h[t] = g[t]
        BY <3>2
      <4>2. CASE t = {}
        BY <4>1, <4>2, <2>1 DEF Table
      <4>3. CASE t # {}
        <5>1. h[t \ {Max(t)}] = g[t \ {Max(t)}]
          BY <4>1
        <5>2. g[t] = Step(fold, Max(t), g[t \ {Max(t)}])
          BY <2>1, <4>1, <4>3 DEF Table
        <5>3. QED
          BY <4>1, <4>3, <5>1, <5>2
      <4>4. QED
        BY <4>2, <4>3
    <3>3. QED
      BY <3>1, <3>2
  <2>3. Table(h, fold, n + 1)
    <3>1. h = [t \in SUBSET (1 .. n + 1) |-> h[t]]
      OBVIOUS
    <3> HIDE DEF h
    <3>2. QED
      BY <2>2, <3>1 DEF Table
  <2>4. QED
    BY <2>3
<1>3. QED
  <2> HIDE DEF T
  <2>1. \A n \in Nat : n \in T
    BY <1>1, <1>2, EveryNat
  <2>2. QED
    BY <2>1 DEF T

LEMMA TableSteps ==
  ASSUME NEW fold, NEW n \in Nat, NEW g, Table(g, fold, n)
  PROVE  g[1 .. 0] = fold.start /\ Steps(g, fold, n)
<1>1. 1 .. 0 = {} /\ {} \in SUBSET (1 .. n)
  OBVIOUS
<1>2. g[1 .. 0] = fold.start
  BY <1>1 DEF Table
<1>3. ASSUME NEW k \in 0 .. n - 1 PROVE g[1 .. k + 1] = Step(fold, k + 1, g[1 .. k])
  <2>1. /\ 1 .. k + 1 \in SUBSET (1 .. n) /\ 1 .. k + 1 # {}
        /\ (1 .. k + 1) \ {k + 1} = 1 .. k
    OBVIOUS
  <2>2. Max(1 .. k + 1) = k + 1
    <3>1. /\ 1 .. k + 1 \subseteq Int /\ k + 1 \in 1 .. k + 1
          /\ \A x \in 1 .. k + 1 : x <= k + 1
      OBVIOUS
    <3>2. QED
      BY <3>1, MaxIs
  <2>3. QED
    BY <2>1, <2>2 DEF Table
<1>4. QED
  BY <1>2, <1>3 DEF Steps

(* Tables of one sequence and of a longer one agree on what they share.    *)
LEMMA TablesAgree ==
  ASSUME NEW b, NEW s, NEW u, NEW n \in Nat, NEW m \in Nat, n <= m,
         \A i \in 1 .. n : u[i] = s[i],
         NEW g, Table(g, Applied(b, s), n), NEW h, Table(h, Applied(b, u), m)
  PROVE  g[1 .. n] = h[1 .. n]
<1>g. Steps(g, Applied(b, s), n) /\ Steps(h, Applied(b, u), m)
  BY TableSteps
<1> DEFINE T == {k \in Nat : k <= n => g[1 .. k] = h[1 .. k]}
<1>1. 0 \in T
  BY TableSteps DEF Applied
<1>2. ASSUME NEW k \in Nat, k \in T, k + 1 <= n PROVE g[1 .. k + 1] = h[1 .. k + 1]
  <2>1. k \in 0 .. n - 1 /\ k \in 0 .. m - 1 /\ k + 1 \in 1 .. n
    BY <1>2
  <2>2. g[1 .. k + 1] = Step(Applied(b, s), k + 1, g[1 .. k])
    BY <2>1, <1>g DEF Steps
  <2>3. h[1 .. k + 1] = Step(Applied(b, u), k + 1, h[1 .. k])
    BY <2>1, <1>g DEF Steps
  <2>4. g[1 .. k] = h[1 .. k]
    BY <1>2
  <2>5. Step(Applied(b, s), k + 1, g[1 .. k]) = Step(Applied(b, u), k + 1, h[1 .. k])
    BY <2>1, <2>4 DEF Step, Applied
  <2>6. QED
    BY <2>2, <2>3, <2>5
<1>3. n \in T
  <2>1. \A k \in Nat : k \in T => k + 1 \in T
    BY <1>2
  <2> HIDE DEF T
  <2>2. QED
    BY <1>1, <2>1, EveryNat
<1>4. QED
  BY <1>3

LEMMA ReplayedIs ==
  ASSUME NEW b, NEW s, IsSeq(s)
  PROVE  \E g : Table(g, Applied(b, s), Len(s)) /\ Replayed(b, s) = g[1 .. Len(s)]
<1> DEFINE D == DOMAIN s
           g == CHOOSE f : f = [t \in SUBSET D |->
                  IF t = {} THEN b ELSE Apply(s[Max(t)], f[t \ {Max(t)}])]
<1>1. D = 1 .. Len(s) /\ Len(s) \in Nat
  BY SeqIs DEF IsSeq
<1>2. Replayed(b, s) = g[D]
  BY DEF Replayed, FoldLeft, MapThenFoldSet
<1>3. \A f : Table(f, Applied(b, s), Len(s)) <=>
             f = [t \in SUBSET D |-> IF t = {} THEN b ELSE Apply(s[Max(t)], f[t \ {Max(t)}])]
  BY <1>1 DEF Table, Applied, Step
<1>4. \E f : Table(f, Applied(b, s), Len(s))
  BY <1>1, TableExists
<1>5. g = [t \in SUBSET D |-> IF t = {} THEN b ELSE Apply(s[Max(t)], g[t \ {Max(t)}])]
  BY <1>3, <1>4
<1> HIDE DEF g
<1>6. QED
  BY <1>1, <1>2, <1>3, <1>5

LEMMA ReplayedNothing == ASSUME NEW b PROVE Replayed(b, <<>>) = b
<1>1. IsSeq(<<>>) /\ Len(<<>>) = 0
  BY DEF IsSeq
<1>2. PICK g : Table(g, Applied(b, <<>>), 0) /\ Replayed(b, <<>>) = g[1 .. 0]
  BY <1>1, ReplayedIs
<1>3. QED
  BY <1>2, TableSteps DEF Applied

LEMMA ReplayedAppend ==
  ASSUME NEW b, NEW s, IsSeq(s), NEW tr
  PROVE  Replayed(b, Append(s, tr)) = Apply(tr, Replayed(b, s))
<1> DEFINE u == Append(s, tr)
           n == Len(s)
<1>1. IsSeq(u) /\ Len(u) = n + 1 /\ n \in Nat /\ u[n + 1] = tr /\ \A i \in 1 .. n : u[i] = s[i]
  BY Appended DEF IsSeq
<1>2. PICK g : Table(g, Applied(b, s), n) /\ Replayed(b, s) = g[1 .. n]
  BY ReplayedIs
<1> HIDE DEF u, n
<1>3. PICK h : Table(h, Applied(b, u), n + 1) /\ Replayed(b, u) = h[1 .. n + 1]
  BY <1>1, ReplayedIs
<1>4. g[1 .. n] = h[1 .. n]
  <2>1. n <= n + 1 /\ n + 1 \in Nat /\ Table(g, Applied(b, s), n)
    BY <1>1, <1>2 DEF n
  <2>2. QED
    BY <1>1, <1>3, <2>1, TablesAgree
<1>5. h[1 .. n + 1] = Step(Applied(b, u), n + 1, h[1 .. n])
  <2>1. n \in 0 .. (n + 1) - 1 /\ n + 1 \in Nat
    BY <1>1
  <2>2. Steps(h, Applied(b, u), n + 1)
    BY <1>3, <2>1, TableSteps
  <2>3. QED
    BY <2>1, <2>2 DEF Steps
<1>6. h[1 .. n + 1] = Apply(tr, h[1 .. n])
  BY <1>1, <1>5 DEF Step, Applied
<1>7. QED
  BY <1>2, <1>3, <1>4, <1>6 DEF u

-----------------------------------------------------------------------------
(* The choice of the winner.                                               *)
LEMMA WinnerIs ==
  ASSUME NEW n, NEW least, IsSeq(candidates)
  PROVE  \E g : /\ Table(g, Choice(n, least), Len(candidates))
                /\ Winner(n, least) = g[1 .. Len(candidates)]
<1> DEFINE D == DOMAIN candidates
           E == DOMAIN [i \in D |-> i]
           Taken(f, t) ==
             IF [i \in D |-> i][Max(t)] # 1 /\ Admissible(candidates[[i \in D |-> i][Max(t)]], n)
                /\ Better([i \in D |-> i][Max(t)], f[t \ {Max(t)}], least)
             THEN [i \in D |-> i][Max(t)] ELSE f[t \ {Max(t)}]
           g == CHOOSE f : f = [t \in SUBSET E |-> IF t = {} THEN 1 ELSE Taken(f, t)]
<1>1. D = 1 .. Len(candidates) /\ Len(candidates) \in Nat /\ E = D
  BY SeqIs DEF IsSeq
<1>2. Winner(n, least) = g[E]
  BY DEF Winner, FoldLeft, MapThenFoldSet
<1>3. ASSUME NEW t \in SUBSET D, t # {}, NEW f
      PROVE  Taken(f, t) = Step(Choice(n, least), Max(t), f[t \ {Max(t)}])
  <2>1. Max(t) \in D
    BY <1>1, <1>3, MaxExists
  <2>2. [i \in D |-> i][Max(t)] = Max(t)
    BY <2>1
  <2>3. QED
    BY <2>2 DEF Step, Choice, Improve
<1>4. \A f : Table(f, Choice(n, least), Len(candidates)) <=>
             f = [t \in SUBSET E |-> IF t = {} THEN 1 ELSE Taken(f, t)]
  <2>1. Choice(n, least).start = 1
    BY DEF Choice
  <2> HIDE DEF Taken, E, D
  <2>2. QED
    BY <1>1, <1>3, <2>1 DEF Table
<1>5. \E f : Table(f, Choice(n, least), Len(candidates))
  BY <1>1, TableExists
<1>6. g = [t \in SUBSET E |-> IF t = {} THEN 1 ELSE Taken(g, t)]
  <2> HIDE DEF Taken, E
  <2>1. QED
    BY <1>4, <1>5
<1> HIDE DEF g, Taken, E
<1>7. QED
  BY <1>1, <1>2, <1>4, <1>6

Competes(i, n) == i = 1 \/ Admissible(candidates[i], n)
NoWorse(w, i) ==
  \/ Value(candidates[w]) < Value(candidates[i])
  \/ /\ Value(candidates[w]) = Value(candidates[i])
     /\ Len(candidates[w].transforms) <= Len(candidates[i].transforms)
Measured(i) ==
  Value(candidates[i]) \in Nat /\ Len(candidates[i].transforms) \in Nat

LEMMA NoWorseChain ==
  ASSUME NEW i, NEW j, NEW k, Measured(i), Measured(j), Measured(k), NoWorse(i, j), NoWorse(j, k)
  PROVE  NoWorse(i, k)
<1> DEFINE V(x) == Value(candidates[x])
           L(x) == Len(candidates[x].transforms)
<1>1. /\ V(i) \in Nat /\ V(j) \in Nat /\ V(k) \in Nat /\ L(i) \in Nat /\ L(j) \in Nat /\ L(k) \in Nat
      /\ V(i) < V(j) \/ (V(i) = V(j) /\ L(i) <= L(j))
      /\ V(j) < V(k) \/ (V(j) = V(k) /\ L(j) <= L(k))
  BY DEF Measured, NoWorse
<1> HIDE DEF V, L
<1>2. V(i) < V(k) \/ (V(i) = V(k) /\ L(i) <= L(k))
  BY <1>1
<1>3. QED
  BY <1>2 DEF V, L, NoWorse

(* Of two candidates the fold keeps one that is no worse than either.      *)
LEMMA ImproveKeeps ==
  ASSUME NEW n, NEW least, NEW w, NEW i, Measured(w), Competes(w, n), Competes(i, n) => Measured(i),
         i # 1
  PROVE  LET v == Improve(n, least, w, i)
         IN  /\ v \in {w, i} /\ Measured(v) /\ Competes(v, n) /\ NoWorse(v, w)
             /\ Competes(i, n) => NoWorse(v, i)
<1>1. NoWorse(w, w)
  BY DEF Measured, NoWorse
<1>2. CASE ~Admissible(candidates[i], n)
  <2>1. Improve(n, least, w, i) = w /\ ~Competes(i, n)
    BY <1>2 DEF Improve, Competes
  <2>2. QED
    BY <1>1, <2>1
<1>3. CASE Admissible(candidates[i], n) /\ Better(i, w, least)
  <2>1. Improve(n, least, w, i) = i /\ Competes(i, n)
    BY <1>3 DEF Improve, Competes
  <2>2. Measured(i)
    BY <2>1
  <2>3. NoWorse(i, w) /\ NoWorse(i, i)
    BY <1>3, <2>2 DEF Measured, NoWorse, Better
  <2>4. QED
    BY <2>1, <2>2, <2>3
<1>4. CASE Admissible(candidates[i], n) /\ ~Better(i, w, least)
  <2>1. Improve(n, least, w, i) = w /\ Competes(i, n)
    BY <1>4 DEF Improve, Competes
  <2>2. Measured(i)
    BY <2>1
  <2>3. NoWorse(w, i)
    BY <1>4, <2>2 DEF Measured, NoWorse, Better
  <2>4. QED
    BY <1>1, <2>1, <2>3
<1>5. QED
  BY <1>2, <1>3, <1>4

LEMMA WinnerIsNoWorse ==
  ASSUME IsSeq(candidates), Len(candidates) >= 1, NEW n, NEW least,
         \A i \in 1 .. Len(candidates) : Competes(i, n) => Measured(i)
  PROVE  /\ Winner(n, least) \in 1 .. Len(candidates)
         /\ Competes(Winner(n, least), n)
         /\ \A i \in 1 .. Len(candidates) : Competes(i, n) => NoWorse(Winner(n, least), i)
<1> DEFINE N == Len(candidates)
<1>1. N \in Nat /\ N >= 1
  BY DEF IsSeq
<1>2. PICK g : Table(g, Choice(n, least), N) /\ Winner(n, least) = g[1 .. N]
  BY WinnerIs
<1>3. g[1 .. 0] = 1 /\ Steps(g, Choice(n, least), N)
  BY <1>1, <1>2, TableSteps DEF Choice
<1> DEFINE Holds(k) ==
             /\ g[1 .. k] \in 1 .. N /\ Competes(g[1 .. k], n)
             /\ \A i \in 1 .. k : Competes(i, n) => NoWorse(g[1 .. k], i)
           T == {k \in Nat : 1 <= k /\ k <= N => Holds(k)}
<1>4. 0 \in T
  OBVIOUS
<1>5. Competes(1, n) /\ Measured(1)
  BY <1>1 DEF Competes
<1>6. ASSUME N >= 1 PROVE Holds(1)
  <2>1. g[1 .. 0 + 1] = Step(Choice(n, least), 0 + 1, g[1 .. 0])
    <3>1. 0 \in 0 .. N - 1
      BY <1>1
    <3>2. QED
      BY <1>3, <3>1 DEF Steps
  <2>2. g[1 .. 1] = 1
    BY <1>3, <2>1 DEF Step, Choice, Improve
  <2>3. NoWorse(1, 1)
    BY <1>5 DEF Measured, NoWorse
  <2>4. QED
    BY <1>1, <1>5, <2>2, <2>3
<1>7. ASSUME NEW k \in Nat, 1 <= k, k + 1 <= N, Holds(k) PROVE Holds(k + 1)
  <2> DEFINE w == g[1 .. k]
             v == g[1 .. k + 1]
  <2>1. v = Improve(n, least, w, k + 1)
    <3>1. k \in 0 .. N - 1
      BY <1>1, <1>7
    <3>2. v = Step(Choice(n, least), k + 1, w)
      BY <1>3, <3>1 DEF Steps
    <3>3. QED
      BY <3>2 DEF Step, Choice
  <2>2. /\ w \in 1 .. N /\ Competes(w, n)
        /\ \A i \in 1 .. k : Competes(i, n) => NoWorse(w, i)
    BY <1>7
  <2>3. Measured(w) /\ k + 1 # 1 /\ k + 1 \in 1 .. N
    BY <1>1, <1>7, <2>2
  <2> HIDE DEF w, v, N
  <2>4. /\ v \in {w, k + 1} /\ Measured(v) /\ Competes(v, n) /\ NoWorse(v, w)
        /\ Competes(k + 1, n) => NoWorse(v, k + 1)
    <3>1. Competes(k + 1, n) => Measured(k + 1)
      BY <2>3 DEF N
    <3>2. QED
      BY <2>1, <2>2, <2>3, <3>1, ImproveKeeps
  <2>5. ASSUME NEW i \in 1 .. k, Competes(i, n) PROVE NoWorse(v, i)
    <3>1. NoWorse(w, i) /\ i \in 1 .. N
      BY <1>1, <2>2, <2>3, <2>5
    <3>2. Measured(i)
      BY <2>5, <3>1 DEF N
    <3>3. QED
      BY <2>3, <2>4, <3>1, <3>2, NoWorseChain
  <2>6. \A i \in 1 .. k + 1 : i \in 1 .. k \/ i = k + 1
    OBVIOUS
  <2>7. QED
    BY <2>2, <2>3, <2>4, <2>5, <2>6 DEF v
<1>8. Holds(N)
  <2> HIDE DEF Holds
  <2>1. \A k \in Nat : k \in T => k + 1 \in T
    <3> SUFFICES ASSUME NEW k \in Nat, k \in T, k + 1 <= N PROVE Holds(k + 1)
      BY <1>1
    <3>1. CASE k = 0
      BY <1>1, <1>6, <3>1
    <3>2. CASE k # 0
      BY <1>1, <1>7, <3>2
    <3>3. QED
      BY <3>1, <3>2
  <2> HIDE DEF T
  <2>2. N \in T
    BY <1>1, <1>4, <2>1, EveryNat
  <2>3. QED
    BY <1>1, <2>2 DEF T
<1>9. QED
  BY <1>2, <1>8

-----------------------------------------------------------------------------
(* What the search knows of a candidate of the program b: its transforms   *)
(* rebuild it, and only a verified program within the budget is accepted.  *)
CandidateSound(b, r) ==
  /\ IsSeq(r.transforms)
  /\ r.context # Unknown => r.context.ok /\ Replayed(b, r.transforms) = r.context
  /\ Accepted(r) => /\ r.context # Unknown /\ VerifiedContext(r.context)
                    /\ r.latency \in Nat /\ r.bytes \in Nat /\ r.bytes <= MemoryBudget
Sound(b, s) == IsSeq(s) /\ \A i \in 1 .. Len(s) : CandidateSound(b, s[i])

(* The contexts that were retained are those of accepted candidates, and   *)
(* the search only works with candidates it retained the context of.       *)
Retained(s, held) ==
  \A i \in DOMAIN held : /\ i \in 1 .. Len(s) /\ s[i].context = held[i]
                         /\ s[i].context # Unknown
Among(s, held) == IsSeq(s) /\ \A j \in 1 .. Len(s) : s[j] \in DOMAIN held

BaselineSound ==
  /\ phase = "baseline" => produced = <<>>
  /\ phase \in {"depth", "select", "done"} =>
       /\ Len(candidates) >= 1 /\ Accepted(candidates[1])
       /\ candidates[1].transforms = <<>> /\ candidates[1].context = base
Chosen ==
  /\ phase = "done" => /\ noise \in Nat /\ winner \in 1 .. Len(candidates)
                       /\ plan = candidates[winner].transforms
  /\ phase # "done" => database = <<>>

SInv ==
  /\ request \in Requests
  /\ phase \in {"baseline", "depth", "select", "done", "failed"}
  /\ Sound(base, candidates)
  /\ Retained(candidates, contexts)
  /\ Among(beam, contexts) /\ Among(produced, contexts)
  /\ BaselineSound /\ Chosen

Inv == SInv /\ PlansRebuild /\ WinnerIsBest

-----------------------------------------------------------------------------
LEMMA UnknownIsNot == ~Unknown.ok
  BY DEF Unknown, Illegal

LEMMA NoElements ==
  ASSUME NEW s, s = <<>> PROVE IsSeq(s) /\ Len(s) = 0 /\ DOMAIN s = {} /\ 1 .. Len(s) = {}
<1>1. s \in Seq({}) /\ Len(s) = 0
  OBVIOUS
<1>2. Len(s) \in Nat /\ s = [i \in 1 .. Len(s) |-> s[i]]
  BY <1>1
<1>3. IsSeq(s)
  BY <1>2 DEF IsSeq
<1>4. 1 .. Len(s) = {}
  BY <1>1
<1>5. DOMAIN s = 1 .. Len(s)
  BY <1>3, SeqIs
<1>6. QED
  BY <1>1, <1>3, <1>4, <1>5

LEMMA SingleSeq ==
  ASSUME NEW e PROVE IsSeq(<<e>>) /\ Len(<<e>>) = 1 /\ <<e>>[1] = e
<1> DEFINE a == <<e>>
<1>1. a \in Seq({e}) /\ Len(a) = 1 /\ a[1] = e
  OBVIOUS
<1> HIDE DEF a
<1>2. Len(a) \in Nat /\ a = [i \in 1 .. Len(a) |-> a[i]]
  BY <1>1
<1>3. QED
  BY <1>1, <1>2 DEF IsSeq, a

LEMMA TailSeq ==
  ASSUME NEW s, IsSeq(s), s # <<>>
  PROVE  /\ IsSeq(Tail(s)) /\ Len(s) >= 1 /\ Len(Tail(s)) = Len(s) - 1
         /\ \A j \in 1 .. Len(s) - 1 : Tail(s)[j] = s[j + 1]
<1> DEFINE S == {s[i] : i \in 1 .. Len(s)}
           a == Tail(s)
<1>1. s \in Seq(S)
  BY SeqIs
<1> HIDE DEF S
<1>2. /\ a \in Seq(S) /\ Len(s) \in Nat /\ Len(s) >= 1 /\ Len(a) = Len(s) - 1
      /\ \A j \in 1 .. Len(s) - 1 : a[j] = s[j + 1]
  BY <1>1
<1> HIDE DEF a
<1>3. Len(a) \in Nat /\ a = [i \in 1 .. Len(a) |-> a[i]]
  BY <1>2
<1>4. QED
  BY <1>2, <1>3 DEF IsSeq, a

(* A verdict of acceptance says that the program verifies, that its memory *)
(* plan fits the word, and that it keeps the budget.                       *)
LEMMA AcceptedOutcome ==
  ASSUME NEW c, NEW o \in Outcomes(c)
  PROVE  o.verdict = "accepted" =>
           VerifiedContext(c) /\ o.latency \in Nat /\ o.bytes \in Nat /\ o.bytes <= MemoryBudget
<1> SUFFICES ASSUME o.verdict = "accepted"
             PROVE  /\ VerifiedContext(c) /\ o.latency \in Nat /\ o.bytes \in Nat
                    /\ o.bytes <= MemoryBudget
  OBVIOUS
<1> DEFINE bytes == PlannedBytes(c)
<1> HIDE DEF bytes
<1>1. VerifiedContext(c) /\ bytes \in 0 .. MaxU64
  <2>1. SUFFICES ASSUME ~VerifiedContext(c) \/ bytes \notin 0 .. MaxU64 PROVE FALSE
    OBVIOUS
  <2>2. o = Outcome("verify", 0, 0)
    BY <2>1 DEF Outcomes, bytes
  <2>3. QED
    BY <2>2 DEF Outcome
<1>2. o \in {Outcome("rejected", 0, bytes)} \cup
            {Outcome("accepted", l, bytes) : l \in {k \in Latencies : bytes <= MemoryBudget}}
  BY <1>1 DEF Outcomes, bytes
<1>3. o # Outcome("rejected", 0, bytes)
  BY DEF Outcome
<1>4. PICK l \in {k \in Latencies : bytes <= MemoryBudget} : o = Outcome("accepted", l, bytes)
  BY <1>2, <1>3
<1>5. o.latency = l /\ o.bytes = bytes /\ l \in Nat /\ bytes <= MemoryBudget
  BY <1>4, BoundsAssumption DEF Outcome
<1>6. bytes \in Nat
  BY <1>1, MaxU64Assumption
<1>7. QED
  BY <1>1, <1>5, <1>6

LEMMA RecordFields ==
  ASSUME NEW p, NEW s, NEW c, NEW o
  PROVE  LET r == Record(p, s, c, o)
         IN  /\ r.transforms = s /\ r.context = c /\ r.latency = o.latency /\ r.bytes = o.bytes
             /\ Accepted(r) <=> o.verdict = "accepted"
  BY DEF Record, Accepted

LEMMA SoundAppend ==
  ASSUME NEW b, NEW s, Sound(b, s), NEW r, CandidateSound(b, r)
  PROVE  Sound(b, Append(s, r))
<1>1. Len(s) \in Nat
  BY DEF Sound, IsSeq
<1>2. \A i \in 1 .. Len(s) + 1 : CandidateSound(b, Append(s, r)[i])
  <2>1. \A i \in 1 .. Len(s) + 1 : i \in 1 .. Len(s) \/ i = Len(s) + 1
    BY <1>1
  <2>2. QED
    BY <2>1, Appended DEF Sound
<1>3. QED
  BY <1>2, Appended DEF Sound

LEMMA RetainedAppend ==
  ASSUME NEW s, NEW held, IsSeq(s), Retained(s, held), NEW r
  PROVE  Retained(Append(s, r), held)
<1>1. Len(s) \in Nat
  BY DEF IsSeq
<1>2. ASSUME NEW i \in DOMAIN held
      PROVE  i \in 1 .. Len(s) + 1 /\ Append(s, r)[i] = s[i]
  <2>1. i \in 1 .. Len(s)
    BY DEF Retained
  <2>2. QED
    BY <1>1, <2>1, Appended
<1>3. QED
  BY <1>2, Appended DEF Retained

LEMMA AmongMore ==
  ASSUME NEW s, NEW held, Among(s, held), NEW more, DOMAIN held \subseteq DOMAIN more
  PROVE  Among(s, more)
  BY DEF Among

LEMMA AmongAppend ==
  ASSUME NEW s, NEW held, Among(s, held), NEW i \in DOMAIN held
  PROVE  Among(Append(s, i), held)
<1>1. Len(s) \in Nat
  BY DEF Among, IsSeq
<1>2. \A j \in 1 .. Len(s) + 1 : j \in 1 .. Len(s) \/ j = Len(s) + 1
  BY <1>1
<1>3. QED
  BY <1>2, Appended DEF Among

(* While nothing is selected the two properties are about nothing.         *)
LEMMA NothingChosen ==
  ASSUME phase # "done", database = <<>>
  PROVE  PlansRebuild /\ WinnerIsBest
<1>1. DOMAIN database = {}
  BY NoElements
<1>2. QED
  BY <1>1 DEF PlansRebuild, WinnerIsBest

LEMMA InitSound == Init => Inv
<1> SUFFICES ASSUME Init PROVE Inv
  OBVIOUS
<1>1. Sound(base, candidates) /\ Among(beam, contexts) /\ Among(produced, contexts)
  <2>1. ASSUME NEW s, s = <<>> PROVE IsSeq(s) /\ 1 .. Len(s) = {}
    BY <2>1, NoElements
  <2>2. QED
    BY <2>1 DEF Init, Sound, Among
<1>2. Retained(candidates, contexts)
  BY NoElements DEF Init, Retained
<1>3. SInv
  BY <1>1, <1>2 DEF Init, SInv, BaselineSound, Chosen
<1>4. QED
  BY <1>3, NothingChosen DEF Init, Inv

-----------------------------------------------------------------------------
(* Every action keeps the invariant.                                       *)
LEMMA BaseOk == ASSUME request \in Requests PROVE base.ok /\ base # Unknown
  BY RequestsAssumption, UnknownIsNot DEF base

LEMMA BaselineKeeps == ASSUME SInv, Baseline PROVE SInv' /\ phase' # "done" /\ database' = <<>>
<1>1. PICK o \in Outcomes(base) :
        /\ candidates' = <<Record(1, <<>>, base, o)>>
        /\ phase' = IF o.verdict = "accepted" THEN IF MaxDepth = 0 THEN "select" ELSE "depth"
                    ELSE "failed"
  BY DEF Baseline
<1> DEFINE r == Record(1, <<>>, base, o)
<1>2. /\ request' = request /\ base' = base /\ contexts' = <<base>> /\ beam' = <<1>>
      /\ produced' = produced /\ database' = database /\ phase = "baseline"
  BY DEF Baseline, base
<1>3. /\ r.transforms = <<>> /\ r.context = base /\ r.latency = o.latency /\ r.bytes = o.bytes
      /\ Accepted(r) <=> o.verdict = "accepted"
  BY RecordFields
<1>4. IsSeq(candidates') /\ Len(candidates') = 1 /\ candidates'[1] = r
  BY <1>1, SingleSeq
<1> HIDE DEF r
<1>5. base # Unknown /\ base.ok
  BY BaseOk DEF SInv
<1>6. CandidateSound(base, r)
  <2>1. IsSeq(r.transforms)
    BY <1>3, NoElements
  <2>2. Replayed(base, r.transforms) = r.context
    BY <1>3, ReplayedNothing
  <2>3. Accepted(r) => /\ VerifiedContext(r.context) /\ r.latency \in Nat /\ r.bytes \in Nat
                       /\ r.bytes <= MemoryBudget
    BY <1>3, AcceptedOutcome
  <2>4. QED
    BY <1>3, <1>5, <2>1, <2>2, <2>3 DEF CandidateSound
<1>7. Sound(base, candidates)'
  <2>1. \A i \in 1 .. 1 : i = 1
    OBVIOUS
  <2>2. QED
    BY <1>2, <1>4, <1>6, <2>1 DEF Sound
<1>8. DOMAIN contexts' = {1} /\ contexts'[1] = base
  BY <1>2
<1>9. Retained(candidates, contexts)'
  BY <1>3, <1>4, <1>5, <1>8 DEF Retained
<1>10. Among(beam, contexts)'
  <2>1. IsSeq(beam') /\ Len(beam') = 1 /\ beam'[1] = 1
    BY <1>2, SingleSeq
  <2>2. \A i \in 1 .. 1 : i = 1
    OBVIOUS
  <2>3. QED
    BY <1>8, <2>1, <2>2 DEF Among
<1>11. Among(produced, contexts)'
  <2>1. produced' = <<>>
    BY <1>2 DEF SInv, BaselineSound
  <2>2. QED
    BY <2>1, NoElements DEF Among
<1>12. BaselineSound'
  BY <1>1, <1>2, <1>3, <1>4 DEF BaselineSound, r
<1>13. phase' \in {"depth", "select", "failed"}
  BY <1>1
<1>14. Chosen' /\ database' = <<>>
  BY <1>2, <1>13 DEF SInv, Chosen
<1>15. QED
  BY <1>2, <1>7, <1>9, <1>10, <1>11, <1>12, <1>13, <1>14 DEF SInv

LEMMA ExpandKeeps == ASSUME SInv, Expand PROVE SInv' /\ phase' # "done" /\ database' = <<>>
<1>1. /\ request' = request /\ base' = base /\ phase' = phase /\ candidates' = candidates
      /\ contexts' = contexts /\ beam' = beam /\ produced' = produced /\ database' = database
      /\ phase = "depth"
  BY DEF Expand, Searching, base
<1>2. QED
  BY <1>1 DEF SInv, BaselineSound, Chosen, Accepted

LEMMA NextParentKeeps == ASSUME SInv, NextParent PROVE SInv' /\ phase' # "done" /\ database' = <<>>
<1>1. /\ request' = request /\ base' = base /\ phase' = phase /\ candidates' = candidates
      /\ contexts' = contexts /\ produced' = produced /\ database' = database
      /\ phase = "depth" /\ beam # <<>> /\ beam' = Tail(beam)
  BY DEF NextParent, Searching, base
<1>2. Among(beam, contexts)'
  <2>1. IsSeq(beam) /\ Len(beam) \in Nat /\ \A j \in 1 .. Len(beam) : beam[j] \in DOMAIN contexts
    BY DEF SInv, Among, IsSeq
  <2>2. /\ IsSeq(beam') /\ Len(beam') = Len(beam) - 1
        /\ \A j \in 1 .. Len(beam) - 1 : beam'[j] = beam[j + 1]
    BY <1>1, <2>1, TailSeq
  <2>3. \A j \in 1 .. Len(beam) - 1 : j + 1 \in 1 .. Len(beam)
    BY <2>1
  <2>4. QED
    BY <1>1, <2>1, <2>2, <2>3 DEF Among
<1>3. QED
  BY <1>1, <1>2 DEF SInv, BaselineSound, Chosen, Accepted

(* A transform that was tried leaves a record that rebuilds its program.   *)
LEMMA TriedSound ==
  ASSUME SInv, beam # <<>>, NEW tr, NEW verdict, NEW c, NEW d, NEW o,
         c = Apply(tr, contexts[beam[1]]), d = Unknown \/ (d = c /\ c.ok),
         verdict = o.verdict,
         verdict = "accepted" =>
           /\ d = c /\ c.ok /\ VerifiedContext(c) /\ o.latency \in Nat /\ o.bytes \in Nat
           /\ o.bytes <= MemoryBudget
  PROVE  LET r == Record(beam[1], Sequence(beam[1], tr), d, o)
         IN  CandidateSound(base, r) /\ r.context = d /\ (Accepted(r) <=> verdict = "accepted")
<1> DEFINE parent == beam[1]
           sequence == Sequence(parent, tr)
           r == Record(parent, sequence, d, o)
<1>1. parent \in DOMAIN contexts
  <2>1. IsSeq(beam) /\ \A j \in 1 .. Len(beam) : beam[j] \in DOMAIN contexts
    BY DEF SInv, Among
  <2>2. Len(beam) >= 1 /\ Len(beam) \in Nat
    BY <2>1, TailSeq DEF IsSeq
  <2>3. QED
    BY <2>1, <2>2
<1>2. /\ parent \in 1 .. Len(candidates) /\ candidates[parent].context = contexts[parent]
      /\ candidates[parent].context # Unknown
  BY <1>1 DEF SInv, Retained
<1>3. CandidateSound(base, candidates[parent])
  BY <1>2 DEF SInv, Sound
<1>4. /\ IsSeq(candidates[parent].transforms)
      /\ Replayed(base, candidates[parent].transforms) = contexts[parent]
  BY <1>2, <1>3 DEF CandidateSound
<1>5. IsSeq(sequence)
  BY <1>4, Appended DEF Sequence
<1>6. Replayed(base, sequence) = c
  BY <1>4, ReplayedAppend DEF Sequence
<1>7. /\ r.transforms = sequence /\ r.context = d /\ r.latency = o.latency /\ r.bytes = o.bytes
      /\ Accepted(r) <=> o.verdict = "accepted"
  BY RecordFields
<1> HIDE DEF r, sequence, parent
<1>8. d # Unknown => d.ok /\ Replayed(base, sequence) = d
  BY <1>6
<1>9. Accepted(r) => d # Unknown /\ VerifiedContext(d)
  BY <1>7, UnknownIsNot
<1>10. CandidateSound(base, r)
  BY <1>5, <1>7, <1>8, <1>9 DEF CandidateSound
<1>11. QED
  BY <1>7, <1>10 DEF r, sequence, parent

(* A record that is added, with or without its context.                    *)
LEMMA AddKeeps ==
  ASSUME SInv, phase = "depth", phase' = phase, request' = request, beam' = beam,
         database' = database, NEW r, Add(r), CandidateSound(base, r),
         \/ contexts' = contexts /\ produced' = produced
         \/ /\ contexts' = Retain(Len(candidates) + 1, r.context) /\ r.context # Unknown
            /\ produced' = Append(produced, Len(candidates) + 1)
  PROVE  SInv'
<1> DEFINE n == Len(candidates)
<1>1. IsSeq(candidates) /\ n \in Nat
  BY DEF SInv, Sound, IsSeq
<1>2. base' = base /\ candidates' = Append(candidates, r)
  BY DEF base, Add
<1>3. /\ Len(candidates') = n + 1 /\ candidates'[n + 1] = r
      /\ \A i \in 1 .. n : candidates'[i] = candidates[i]
  BY <1>1, <1>2, Appended
<1>4. Sound(base, candidates)'
  BY <1>2, SoundAppend DEF SInv
<1>5. Retained(candidates', contexts)
  BY <1>1, <1>2, RetainedAppend DEF SInv
<1>6. /\ Retained(candidates, contexts)' /\ Among(beam, contexts)'
      /\ Among(produced, contexts)'
  <2>1. CASE contexts' = contexts /\ produced' = produced
    BY <2>1, <1>5 DEF SInv
  <2>2. CASE /\ contexts' = Retain(n + 1, r.context) /\ r.context # Unknown
             /\ produced' = Append(produced, n + 1)
    <3>1. /\ DOMAIN contexts' = DOMAIN contexts \cup {n + 1} /\ contexts'[n + 1] = r.context
          /\ \A j \in DOMAIN contexts : j # n + 1 => contexts'[j] = contexts[j]
      BY <2>2 DEF Retain
    <3>2. n + 1 \in 1 .. Len(candidates') /\ n + 1 \notin 1 .. n
      BY <1>1, <1>3
    <3>3. \A j \in DOMAIN contexts : j \in 1 .. n
      BY DEF SInv, Retained
    <3>4. Retained(candidates, contexts)'
      <4>1. ASSUME NEW j \in DOMAIN contexts
            PROVE  /\ j \in 1 .. Len(candidates') /\ candidates'[j].context = contexts'[j]
                   /\ candidates'[j].context # Unknown
        <5>1. contexts'[j] = contexts[j]
          BY <3>1, <3>2, <3>3
        <5>2. QED
          BY <1>5, <5>1 DEF Retained
      <4>2. /\ n + 1 \in 1 .. Len(candidates') /\ candidates'[n + 1].context = contexts'[n + 1]
            /\ candidates'[n + 1].context # Unknown
        BY <1>3, <2>2, <3>1, <3>2
      <4>3. QED
        BY <3>1, <4>1, <4>2 DEF Retained
    <3>5. Among(beam, contexts')
      BY <3>1, AmongMore DEF SInv
    <3>6. Among(produced, contexts')
      BY <3>1, AmongMore DEF SInv
    <3>7. Among(Append(produced, n + 1), contexts')
      BY <3>1, <3>6, AmongAppend
    <3>8. QED
      BY <2>2, <3>4, <3>5, <3>7
  <2>3. QED
    BY <2>1, <2>2
<1>7. BaselineSound'
  <2>1. 1 \in 1 .. n
    BY <1>1 DEF SInv, BaselineSound
  <2>2. candidates'[1] = candidates[1] /\ Len(candidates') >= 1
    BY <1>1, <1>3, <2>1
  <2>3. QED
    BY <1>2, <2>2 DEF SInv, BaselineSound, Accepted
<1>8. QED
  BY <1>2, <1>4, <1>6, <1>7 DEF SInv, Chosen

LEMMA TryKeeps == ASSUME SInv, Try PROVE SInv' /\ phase' # "done" /\ database' = <<>>
<1> DEFINE parent == beam[1]
           tr == transforms[1]
           c == Apply(tr, contexts[parent])
           sequence == Sequence(parent, tr)
           index == Len(candidates) + 1
           d == IF VerifiedContext(c) THEN c ELSE Unknown
<1>1. /\ request' = request /\ base' = base /\ phase' = phase /\ beam' = beam
      /\ database' = database /\ phase = "depth" /\ beam # <<>>
  BY DEF Try, Searching, base
<1>2. database' = <<>>
  BY <1>1 DEF SInv, Chosen
<1>3. \/ /\ ~c.ok
         /\ Add(Record(parent, sequence, Unknown, Outcome("verify", 0, 0)))
         /\ contexts' = contexts /\ produced' = produced
      \/ candidates' = candidates /\ contexts' = contexts /\ produced' = produced
      \/ /\ c.ok
         /\ \E o \in Outcomes(c) :
              /\ Add(Record(parent, sequence, d, o))
              /\ IF o.verdict = "accepted"
                 THEN contexts' = Retain(index, c) /\ produced' = Append(produced, index)
                 ELSE contexts' = contexts /\ produced' = produced
  BY DEF Try
<1>4. CASE /\ ~c.ok
           /\ Add(Record(parent, sequence, Unknown, Outcome("verify", 0, 0)))
           /\ contexts' = contexts /\ produced' = produced
  <2> DEFINE o == Outcome("verify", 0, 0)
             r == Record(parent, sequence, Unknown, o)
  <2>1. o.verdict = "verify"
    BY DEF Outcome
  <2> HIDE DEF o
  <2>2. CandidateSound(base, r)
    BY <1>1, <2>1, TriedSound
  <2> HIDE DEF r
  <2>3. Add(r)
    BY <1>4 DEF r, o
  <2>4. QED
    BY <1>1, <1>2, <1>4, <2>2, <2>3, AddKeeps
<1>5. CASE candidates' = candidates /\ contexts' = contexts /\ produced' = produced
  BY <1>1, <1>2, <1>5 DEF SInv, BaselineSound, Chosen, Accepted
<1>6. CASE /\ c.ok
           /\ \E o \in Outcomes(c) :
                /\ Add(Record(parent, sequence, d, o))
                /\ IF o.verdict = "accepted"
                   THEN contexts' = Retain(index, c) /\ produced' = Append(produced, index)
                   ELSE contexts' = contexts /\ produced' = produced
  <2>1. PICK o \in Outcomes(c) :
          /\ Add(Record(parent, sequence, d, o))
          /\ IF o.verdict = "accepted"
             THEN contexts' = Retain(index, c) /\ produced' = Append(produced, index)
             ELSE contexts' = contexts /\ produced' = produced
    BY <1>6
  <2> DEFINE r == Record(parent, sequence, d, o)
  <2>2. o.verdict = "accepted" =>
          /\ d = c /\ c.ok /\ VerifiedContext(c) /\ o.latency \in Nat /\ o.bytes \in Nat
          /\ o.bytes <= MemoryBudget
    BY <1>6, AcceptedOutcome
  <2>3. d = Unknown \/ (d = c /\ c.ok)
    BY <1>6
  <2>4. CandidateSound(base, r) /\ r.context = d /\ (Accepted(r) <=> o.verdict = "accepted")
    <3> HIDE DEF d, r
    <3>1. CandidateSound(base, Record(beam[1], Sequence(beam[1], tr), d, o))
          /\ Record(beam[1], Sequence(beam[1], tr), d, o).context = d
          /\ (Accepted(Record(beam[1], Sequence(beam[1], tr), d, o)) <=> o.verdict = "accepted")
      BY <1>1, <2>2, <2>3, TriedSound
    <3>2. QED
      BY <3>1 DEF r
  <2>5. o.verdict = "accepted" => r.context = c /\ r.context # Unknown
    BY <2>2, <2>4, UnknownIsNot
  <2>6. Add(r)
    BY <2>1
  <2> HIDE DEF r, d
  <2>7. \/ contexts' = contexts /\ produced' = produced
        \/ /\ contexts' = Retain(Len(candidates) + 1, r.context) /\ r.context # Unknown
           /\ produced' = Append(produced, Len(candidates) + 1)
    BY <2>1, <2>5
  <2>8. QED
    BY <1>1, <1>2, <2>4, <2>6, <2>7, AddKeeps
<1>7. QED
  BY <1>3, <1>4, <1>5, <1>6

(* The next beam is made of candidates accepted at this depth.             *)
LEMMA BeamFromProduced ==
  ASSUME IsSeq(produced), produced # <<>>, NEW q \in BySortedValue(produced)
  PROVE  LET b == SubSeq(q, 1, Min({Len(q), BeamWidth}))
         IN  IsSeq(b) /\ \A j \in 1 .. Len(b) : b[j] \in ToSet(produced)
<1> DEFINE P == ToSet(produced)
           m == Min({Len(q), BeamWidth})
           b == SubSeq(q, 1, m)
<1>1. PICK S \in SUBSET P : q \in SetToSeqs(S)
  BY DEF BySortedValue, SetToAllKPermutations
<1>2. Len(q) = Len(produced) /\ Len(produced) \in Nat
  BY DEF BySortedValue, IsSeq
<1>3. IsFiniteSet(S)
  <2>1. IsFiniteSet(1 .. Len(produced))
    BY <1>2, FS_Interval
  <2>2. [i \in 1 .. Len(produced) |-> produced[i]] \in Surjection(1 .. Len(produced), P)
    BY SeqIs DEF Surjection, ToSet
  <2>3. IsFiniteSet(P)
    BY <2>1, <2>2, FS_Surjection
  <2>4. QED
    BY <1>1, <2>3, FS_Subset
<1>4. Cardinality(S) \in Nat /\ q \in [1 .. Cardinality(S) -> S]
  BY <1>1, <1>3, FS_CardinalityType DEF SetToSeqs
<1>5. q \in Seq(P)
  BY <1>1, <1>4
<1>6. m \in Nat /\ m <= Len(q)
  <2> DEFINE T == {Len(q), BeamWidth}
             Least(x) == \A y \in T : x =< y
  <2>1. Len(q) \in Nat /\ BeamWidth \in Nat
    BY <1>2, BoundsAssumption
  <2>2. \E x \in T : Least(x)
    BY <2>1
  <2>3. m = CHOOSE x \in T : Least(x)
    BY DEF Min
  <2>4. m \in T /\ Least(m)
    <3> HIDE DEF Least, T, m
    <3>1. QED
      BY <2>2, <2>3
  <2>5. QED
    BY <2>1, <2>4
<1> HIDE DEF m, P
<1>7. b \in Seq(P)
  BY <1>5, <1>6
<1> HIDE DEF b
<1>8. Len(b) \in Nat /\ b = [i \in 1 .. Len(b) |-> b[i]] /\ \A j \in 1 .. Len(b) : b[j] \in P
  BY <1>7
<1>9. IsSeq(b)
  BY <1>8 DEF IsSeq
<1>10. QED
  BY <1>8, <1>9 DEF b, m, P

LEMMA EndDepthKeeps == ASSUME SInv, EndDepth PROVE SInv' /\ phase' # "done" /\ database' = <<>>
<1>1. /\ request' = request /\ base' = base /\ candidates' = candidates
      /\ database' = database /\ phase = "depth" /\ produced' = <<>> /\ beam = <<>>
      /\ phase' \in {"select", "depth"}
  BY DEF EndDepth, base
<1>2. database' = <<>>
  BY <1>1 DEF SInv, Chosen
<1>3. Among(produced, contexts)'
  BY <1>1, NoElements DEF Among
<1>4. Retained(candidates, contexts)' /\ Among(beam, contexts)'
  <2>1. CASE produced = <<>>
    <3>1. contexts' = contexts /\ beam' = beam
      BY <2>1 DEF EndDepth
    <3>2. QED
      BY <1>1, <3>1 DEF SInv
  <2>2. CASE produced # <<>>
    <3>1. PICK q \in BySortedValue(produced) : beam' = SubSeq(q, 1, Min({Len(q), BeamWidth}))
      BY <2>2 DEF EndDepth
    <3>2. contexts' = [i \in ToSet(beam') |-> contexts[i]]
      BY <2>2 DEF EndDepth
    <3>3. IsSeq(produced) /\ \A j \in 1 .. Len(produced) : produced[j] \in DOMAIN contexts
      BY DEF SInv, Among
    <3>4. IsSeq(beam') /\ \A j \in 1 .. Len(beam') : beam'[j] \in ToSet(produced)
      BY <2>2, <3>1, <3>3, BeamFromProduced
    <3>5. ToSet(produced) \subseteq DOMAIN contexts
      BY <3>3, SeqIs DEF ToSet
    <3>6. ToSet(beam') = {beam'[j] : j \in 1 .. Len(beam')}
      BY <3>4, SeqIs DEF ToSet
    <3>7. Among(beam, contexts)'
      BY <3>2, <3>4, <3>6 DEF Among
    <3>8. \A i \in ToSet(beam') : i \in DOMAIN contexts /\ contexts'[i] = contexts[i]
      BY <3>2, <3>4, <3>5, <3>6
    <3>9. Retained(candidates, contexts)'
      BY <1>1, <3>2, <3>8 DEF SInv, Retained
    <3>10. QED
      BY <3>7, <3>9
  <2>3. QED
    BY <2>1, <2>2
<1>5. BaselineSound'
  BY <1>1 DEF SInv, BaselineSound, Accepted
<1>6. QED
  BY <1>1, <1>2, <1>3, <1>4, <1>5 DEF SInv, Chosen

-----------------------------------------------------------------------------
(* The selection.                                                          *)
LEMMA ValuesMeasured ==
  ASSUME SInv, phase \in {"depth", "select", "done"}, NEW n,
         NEW i \in 1 .. Len(candidates), Competes(i, n)
  PROVE  Measured(i) /\ Accepted(candidates[i])
<1>1. Accepted(candidates[i])
  <2>1. CASE i = 1
    BY <2>1 DEF SInv, BaselineSound
  <2>2. CASE i # 1
    BY <2>2 DEF Competes, Admissible
  <2>3. QED
    BY <2>1, <2>2
<1>2. CandidateSound(base, candidates[i])
  BY DEF SInv, Sound
<1>3. /\ candidates[i].latency \in Nat /\ candidates[i].bytes \in Nat
      /\ Len(candidates[i].transforms) \in Nat
  BY <1>1, <1>2 DEF CandidateSound, IsSeq
<1>4. QED
  BY <1>1, <1>3 DEF Measured, Value

LEMMA MaxOfTwo == ASSUME NEW a \in Nat, NEW b \in Nat PROVE Max({a, b}) \in Nat /\ a <= Max({a, b})
<1>1. CASE a <= b
  <2>1. {a, b} \subseteq Int /\ \A x \in {a, b} : x <= b
    BY <1>1
  <2>2. Max({a, b}) = b
    BY <2>1, MaxIs
  <2>3. QED
    BY <1>1, <2>2
<1>2. CASE b <= a
  <2>1. {a, b} \subseteq Int /\ \A x \in {a, b} : x <= a
    BY <1>2
  <2>2. Max({a, b}) = a
    BY <2>1, MaxIs
  <2>3. QED
    BY <1>2, <2>2
<1>3. QED
  BY <1>1, <1>2

LEMMA Scaled ==
  ASSUME NEW v \in Nat, NEW a \in Int, NEW b \in Int, a <= b PROVE v * a <= v * b
<1>1. v * (b - a) \in Nat
  OBVIOUS
<1>2. v * (b - a) = v * b - v * a
  OBVIOUS
<1>3. QED
  BY <1>1, <1>2

(* What beats the baseline beyond the noise beats it beyond the margin.    *)
LEMMA MarginKept ==
  ASSUME SInv, phase \in {"select", "done"}, NEW n \in Nat, NEW i \in 2 .. Len(candidates),
         Admissible(candidates[i], n)
  PROVE  Value(candidates[i]) * 100 <= Value(candidates[1]) * (100 - Margin)
<1>1. IsSeq(candidates) /\ Len(candidates) \in Nat
  BY DEF SInv, Sound, IsSeq
<1>2. 1 \in 1 .. Len(candidates) /\ i \in 1 .. Len(candidates)
  BY <1>1
<1>3. Measured(1) /\ Measured(i)
  BY <1>2, ValuesMeasured DEF Competes
<1>4. EffectiveMargin(n) \in Nat /\ Margin <= EffectiveMargin(n) /\ Margin \in Nat
  BY MaxOfTwo, BoundsAssumption DEF EffectiveMargin
<1>5. Value(candidates[i]) * 100 <= Value(candidates[1]) * (100 - EffectiveMargin(n))
  BY DEF Admissible
<1>6. Value(candidates[1]) * (100 - EffectiveMargin(n)) <= Value(candidates[1]) * (100 - Margin)
  <2>1. Value(candidates[1]) \in Nat
    BY <1>3 DEF Measured
  <2>2. 100 - EffectiveMargin(n) \in Int /\ 100 - Margin \in Int
        /\ 100 - EffectiveMargin(n) <= 100 - Margin
    BY <1>4
  <2>3. QED
    BY <2>1, <2>2, Scaled
<1> DEFINE x == Value(candidates[i])
           y == Value(candidates[1])
           e == EffectiveMargin(n)
<1>7. x \in Nat /\ y \in Nat /\ e \in Nat
  BY <1>3, <1>4 DEF Measured
<1>8. x * 100 \in Int /\ y * (100 - e) \in Int /\ y * (100 - Margin) \in Int
  <2> HIDE DEF x, y, e
  <2>1. QED
    BY <1>4, <1>7
<1>9. QED
  BY <1>5, <1>6, <1>8

(* WinnerIsBest of a winner w, when timings are off by at most n percent.  *)
Best(w, n) ==
  LET c == candidates[w]
      rivals == {i \in 2 .. Len(candidates) : Admissible(candidates[i], n)}
  IN  /\ Accepted(c) /\ c.bytes <= MemoryBudget
      /\ w \in rivals \cup {1}
      /\ w # 1 => Value(c) * 100 <= Value(candidates[1]) * (100 - Margin)
      /\ \A i \in rivals \cup {1} :
           \/ Value(c) < Value(candidates[i])
           \/ /\ Value(c) = Value(candidates[i])
              /\ Len(c.transforms) <= Len(candidates[i].transforms)

LEMMA BestIsBest ==
  ASSUME candidates' = candidates, request' = request,
         phase' = "done" => Best(winner', noise')
  PROVE  WinnerIsBest'
<1> SUFFICES ASSUME phase' = "done" PROVE WinnerIsBest'
  BY DEF WinnerIsBest
<1> DEFINE rivals == {i \in 2 .. Len(candidates) : Admissible(candidates[i], noise)}
           w == winner'
<1>1. rivals' = {i \in 2 .. Len(candidates) : Admissible(candidates[i], noise')}
  BY DEF Admissible, Accepted, Value, EffectiveMargin, EffectiveTolerance
<1>2. WinnerIsBest' <=>
        /\ Accepted(candidates[winner])' /\ candidates'[w].bytes <= MemoryBudget
        /\ w \in rivals' \cup {1}
        /\ w # 1 => Value(candidates[winner])' * 100 <= Value(candidates[1])' * (100 - Margin)
        /\ \A i \in rivals' \cup {1} :
             \/ Value(candidates[winner])' < Value(candidates[i])'
             \/ /\ Value(candidates[winner])' = Value(candidates[i])'
                /\ Len(candidates'[w].transforms) <= Len(candidates'[i].transforms)
  BY DEF WinnerIsBest
<1> HIDE DEF rivals
<1>3. Accepted(candidates[winner])' /\ candidates'[w].bytes <= MemoryBudget
  BY DEF Best, Accepted
<1>4. w \in rivals' \cup {1}
  BY <1>1 DEF Best
<1>5. w # 1 => Value(candidates[winner])' * 100 <= Value(candidates[1])' * (100 - Margin)
  BY DEF Best, Value
<1>6. ASSUME NEW i \in rivals' \cup {1}
      PROVE  \/ Value(candidates[winner])' < Value(candidates[i])'
             \/ /\ Value(candidates[winner])' = Value(candidates[i])'
                /\ Len(candidates'[w].transforms) <= Len(candidates'[i].transforms)
  BY <1>1 DEF Best, Value
<1>7. QED
  BY <1>2, <1>3, <1>4, <1>5, <1>6

LEMMA WinnerBest ==
  ASSUME SInv, phase = "select", NEW n \in Nat, NEW least
  PROVE  /\ Winner(n, least) \in 1 .. Len(candidates)
         /\ Best(Winner(n, least), n)
<1> DEFINE w == Winner(n, least)
           rivals == {i \in 2 .. Len(candidates) : Admissible(candidates[i], n)}
<1>1. IsSeq(candidates) /\ Len(candidates) \in Nat /\ Len(candidates) >= 1
  BY DEF SInv, Sound, BaselineSound, IsSeq
<1>2. \A i \in 1 .. Len(candidates) : Competes(i, n) => Measured(i)
  BY ValuesMeasured
<1>3. /\ w \in 1 .. Len(candidates) /\ Competes(w, n)
      /\ \A i \in 1 .. Len(candidates) : Competes(i, n) => NoWorse(w, i)
  BY <1>1, <1>2, WinnerIsNoWorse
<1> HIDE DEF w
<1>4. Accepted(candidates[w])
  BY <1>3, ValuesMeasured
<1>5. candidates[w].bytes <= MemoryBudget
  BY <1>3, <1>4 DEF SInv, Sound, CandidateSound
<1>6. w \in rivals \cup {1}
  BY <1>1, <1>3 DEF Competes
<1>7. w # 1 => Value(candidates[w]) * 100 <= Value(candidates[1]) * (100 - Margin)
  BY <1>6, MarginKept
<1>8. \A i \in rivals \cup {1} : i \in 1 .. Len(candidates) /\ Competes(i, n)
  BY <1>1 DEF Competes
<1>9. \A i \in rivals \cup {1} : NoWorse(w, i)
  BY <1>3, <1>8
<1>10. Best(w, n)
  BY <1>4, <1>5, <1>6, <1>7, <1>9 DEF Best, NoWorse
<1>11. QED
  BY <1>3, <1>10 DEF w

(* The last record of a context is one of that context.                    *)
LEMMA LastOfIs ==
  ASSUME SInv, NEW c \in {candidates[i].context : i \in Fingerprinted}
  PROVE  /\ LastOf(c) \in 1 .. Len(candidates) /\ candidates[LastOf(c)].context = c
         /\ c # Unknown
<1> DEFINE S == {i \in Fingerprinted : candidates[i].context = c}
<1>1. Len(candidates) \in Nat /\ DOMAIN candidates = 1 .. Len(candidates)
  BY SeqIs DEF SInv, Sound, IsSeq
<1>2. S # {} /\ S \subseteq 1 .. Len(candidates) /\ c # Unknown
  BY <1>1 DEF Fingerprinted
<1>3. Max(S) \in S
  <2> HIDE DEF S
  <2>1. QED
    BY <1>1, <1>2, MaxExists
<1>4. QED
  BY <1>2, <1>3 DEF LastOf

(* The replay that optimize ends with accepts whatever was selected.       *)
LEMMA WinnerReplays ==
  ASSUME SInv, NEW i \in 1 .. Len(candidates), Accepted(candidates[i])
  PROVE  Replays(candidates[i])
<1>1. CandidateSound(base, candidates[i])
  BY DEF SInv, Sound
<1>2. QED
  BY <1>1 DEF CandidateSound, Replays

LEMMA SelectKeeps == ASSUME SInv, Select PROVE Inv' /\ phase' = "done"
<1>1. /\ request' = request /\ base' = base /\ candidates' = candidates
      /\ contexts' = contexts /\ beam' = beam /\ produced' = produced /\ phase = "select"
  BY DEF Select, base
<1>2. PICK n \in Noises : noise' = n
  BY DEF Select
<1>3. PICK least : /\ winner' = Winner(n, least) /\ plan' = candidates[winner'].transforms
                   /\ IF Replays(candidates[winner'])
                      THEN /\ phase' = "done"
                           /\ database' = [c \in {candidates[i].context : i \in Fingerprinted} |->
                                             candidates[LastOf(c)].transforms]
                      ELSE phase' = "failed" /\ UNCHANGED database
  BY <1>2 DEF Select
<1>4. n \in Nat
  BY <1>2, BoundsAssumption
<1>5. winner' \in 1 .. Len(candidates) /\ Best(winner', n)
  BY <1>1, <1>3, <1>4, WinnerBest
<1>6. Accepted(candidates[winner']) /\ Replays(candidates[winner'])
  <2>1. Accepted(candidates[winner'])
    BY <1>5 DEF Best
  <2>2. QED
    BY <1>5, <2>1, WinnerReplays
<1>7. phase' = "done"
  BY <1>3, <1>6
<1>8. /\ database' = [c \in {candidates[i].context : i \in Fingerprinted} |->
                        candidates[LastOf(c)].transforms]
  BY <1>3, <1>6
<1>9. SInv'
  <2>1. BaselineSound'
    BY <1>1, <1>7 DEF SInv, BaselineSound, Accepted
  <2>2. Chosen'
    BY <1>1, <1>2, <1>3, <1>4, <1>5, <1>7 DEF Chosen
  <2>3. Sound(base, candidates)' /\ Retained(candidates, contexts)'
    BY <1>1 DEF SInv
  <2>4. Among(beam, contexts)' /\ Among(produced, contexts)'
    BY <1>1 DEF SInv
  <2>5. QED
    BY <1>1, <1>7, <2>1, <2>2, <2>3, <2>4 DEF SInv
<1>10. PlansRebuild'
  <2>1. ASSUME NEW c \in DOMAIN database'
        PROVE  Replayed(base, database'[c]) = c /\ c.ok
    <3>1. c \in {candidates[i].context : i \in Fingerprinted}
          /\ database'[c] = candidates[LastOf(c)].transforms
      BY <1>8
    <3>2. LastOf(c) \in 1 .. Len(candidates) /\ candidates[LastOf(c)].context = c /\ c # Unknown
      BY <3>1, LastOfIs
    <3>3. CandidateSound(base, candidates[LastOf(c)])
      BY <3>2 DEF SInv, Sound
    <3>4. QED
      BY <3>1, <3>2, <3>3 DEF CandidateSound
  <2>2. Replayed(base, plan') = candidates[winner'].context
    BY <1>3, <1>6 DEF Replays
  <2>3. QED
    BY <1>1, <2>1, <2>2 DEF PlansRebuild
<1>11. WinnerIsBest'
  BY <1>1, <1>2, <1>5, BestIsBest
<1>12. QED
  BY <1>7, <1>9, <1>10, <1>11 DEF Inv

LEMMA UnchangedKeeps == ASSUME Inv, UNCHANGED vars PROVE Inv'
<1>1. SInv'
  BY DEF vars, Inv, SInv, BaselineSound, Chosen, Accepted, base
<1>2. PlansRebuild'
  BY DEF vars, Inv, PlansRebuild, base
<1>3. WinnerIsBest'
  <2>1. phase = "done" => Best(winner, noise)
    BY DEF Inv, WinnerIsBest, Best
  <2>2. /\ candidates' = candidates /\ request' = request /\ phase' = phase
        /\ winner' = winner /\ noise' = noise
    BY DEF vars
  <2>3. QED
    BY <2>1, <2>2, BestIsBest
<1>4. QED
  BY <1>1, <1>2, <1>3 DEF Inv

(* Before the selection there is nothing to select from.                   *)
LEMMA EarlyKeeps == ASSUME SInv', phase' # "done", database' = <<>> PROVE Inv'
<1>1. DOMAIN database' = {}
  BY NoElements
<1>2. PlansRebuild' /\ WinnerIsBest'
  BY <1>1 DEF PlansRebuild, WinnerIsBest
<1>3. QED
  BY <1>2 DEF Inv

LEMMA StepKeeps == Inv /\ [Next]_vars => Inv'
<1> SUFFICES ASSUME Inv, [Next]_vars PROVE Inv'
  OBVIOUS
<1>1. SInv
  BY DEF Inv
<1>2. CASE Baseline
  BY <1>1, <1>2, BaselineKeeps, EarlyKeeps
<1>3. CASE Expand
  BY <1>1, <1>3, ExpandKeeps, EarlyKeeps
<1>4. CASE Try
  BY <1>1, <1>4, TryKeeps, EarlyKeeps
<1>5. CASE NextParent
  BY <1>1, <1>5, NextParentKeeps, EarlyKeeps
<1>6. CASE EndDepth
  BY <1>1, <1>6, EndDepthKeeps, EarlyKeeps
<1>7. CASE Select
  BY <1>1, <1>7, SelectKeeps
<1>8. CASE Finished \/ UNCHANGED vars
  BY <1>8, UnchangedKeeps DEF Finished
<1>9. QED
  BY <1>2, <1>3, <1>4, <1>5, <1>6, <1>7, <1>8 DEF Next

LEMMA InvHolds == Spec => []Inv
<1>1. Init => Inv
  BY InitSound
<1>2. Inv /\ [Next]_vars => Inv'
  BY StepKeeps
<1>3. QED
  BY <1>1, <1>2, PTL DEF Spec

(* Replaying a recorded sequence of transforms on the base program builds  *)
(* the candidate it is recorded for, for every measurement of the database *)
(* and for the returned plan, whatever the transforms do and whichever     *)
(* contexts the beam has dropped on the way.                               *)
THEOREM RecordedPlansRebuild == Spec => []PlansRebuild
<1>1. Inv => PlansRebuild
  BY DEF Inv
<1>2. QED
  BY <1>1, InvHolds, PTL

(* The winner was measured within the budget, beats the baseline beyond    *)
(* margin and noise unless it is the baseline, and of all candidates that  *)
(* may win none is better.                                                 *)
THEOREM SearchReturnsTheBest == Spec => []WinnerIsBest
<1>1. Inv => WinnerIsBest
  BY DEF Inv
<1>2. QED
  BY <1>1, InvHolds, PTL

(* The search only fails on its baseline: the replay of the winner's plan  *)
(* with which optimize ends never refuses it.                              *)
OnlyBaselineFails == phase = "failed" => Len(candidates) = 1 /\ ~Accepted(candidates[1])

THEOREM ReplayAcceptsTheWinner == Spec => []OnlyBaselineFails
<1>1. Init => OnlyBaselineFails
  BY DEF Init, OnlyBaselineFails
<1>2. Inv /\ OnlyBaselineFails /\ [Next]_vars => OnlyBaselineFails'
  <2> SUFFICES ASSUME SInv, OnlyBaselineFails, [Next]_vars PROVE OnlyBaselineFails'
    BY DEF Inv
  <2>1. CASE Baseline
    <3>1. PICK o \in Outcomes(base) :
            /\ candidates' = <<Record(1, <<>>, base, o)>>
            /\ phase' = IF o.verdict = "accepted" THEN IF MaxDepth = 0 THEN "select" ELSE "depth"
                        ELSE "failed"
      BY <2>1 DEF Baseline
    <3>2. Len(candidates') = 1 /\ candidates'[1].verdict = o.verdict
      BY <3>1 DEF Record
    <3>3. QED
      BY <3>1, <3>2 DEF OnlyBaselineFails, Accepted
  <2>2. CASE Expand \/ NextParent \/ Try
    <3>1. phase' = "depth"
      BY <2>2 DEF Expand, NextParent, Try, Searching
    <3>2. QED
      BY <3>1 DEF OnlyBaselineFails
  <2>3. CASE EndDepth
    <3>1. phase' # "failed"
      BY <2>3 DEF EndDepth
    <3>2. QED
      BY <3>1 DEF OnlyBaselineFails
  <2>4. CASE Select
    <3>1. phase' = "done"
      BY <2>4, SelectKeeps
    <3>2. QED
      BY <3>1 DEF OnlyBaselineFails
  <2>5. CASE Finished \/ UNCHANGED vars
    BY <2>5 DEF Finished, vars, OnlyBaselineFails, Accepted
  <2>6. QED
    BY <2>1, <2>2, <2>3, <2>4, <2>5 DEF Next
<1>3. QED
  BY <1>1, <1>2, InvHolds, PTL DEF Spec

-----------------------------------------------------------------------------
(* What a program computes, and which operations a slice keeps, as folds   *)
(* over its operations.                                                    *)
LEMMA ContextSeq ==
  ASSUME NEW c, IsContext(c)
  PROVE  /\ Len(c.ops) \in Nat /\ DOMAIN c.ops = 1 .. Len(c.ops)
         /\ Positions(c) = 1 .. Len(c.ops) /\ IsSeq(c.ops)
         /\ \A i \in Positions(c) :
              /\ c.ops[i] \in ToSet(c.ops) /\ c.ops[i].id \in Nat \ {0}
              /\ c.ops[i].in \in Seq(Tensors) /\ c.ops[i].out \in Seq(Tensors)
<1>1. c.ops \in Seq(ToSet(c.ops))
  BY DEF IsContext
<1>2. Len(c.ops) \in Nat /\ DOMAIN c.ops = 1 .. Len(c.ops) /\ c.ops = [i \in 1 .. Len(c.ops) |-> c.ops[i]]
  BY <1>1
<1>3. QED
  BY <1>2 DEF IsContext, Positions, IsSeq, ToSet

LEMMA ValuesIs ==
  ASSUME NEW c, IsContext(c), NEW b
  PROVE  \E g : Table(g, Executed(c, b), Len(c.ops)) /\ Values(c, b) = g[1 .. Len(c.ops)]
<1> DEFINE D == DOMAIN c.ops
           g == CHOOSE f : f = [t \in SUBSET D |->
                  IF t = {} THEN b ELSE Written(c, c.ops[Max(t)], f[t \ {Max(t)}])]
<1>1. D = 1 .. Len(c.ops) /\ Len(c.ops) \in Nat
  BY ContextSeq
<1>2. Values(c, b) = g[D]
  BY DEF Values, Written, FoldLeft, MapThenFoldSet
<1>3. \A f : Table(f, Executed(c, b), Len(c.ops)) <=>
             f = [t \in SUBSET D |->
                    IF t = {} THEN b ELSE Written(c, c.ops[Max(t)], f[t \ {Max(t)}])]
  BY <1>1 DEF Table, Executed, Step
<1>4. \E f : Table(f, Executed(c, b), Len(c.ops))
  BY <1>1, TableExists
<1>5. g = [t \in SUBSET D |-> IF t = {} THEN b ELSE Written(c, c.ops[Max(t)], g[t \ {Max(t)}])]
  BY <1>3, <1>4
<1> HIDE DEF g
<1>6. QED
  BY <1>1, <1>2, <1>3, <1>5

LEMMA OfIdsTable ==
  ASSUME NEW ops, IsSeq(ops), NEW ids
  PROVE  \E g : Table(g, Selecting(ops, ids), Len(ops)) /\ OfIds(ops, ids) = g[1 .. Len(ops)]
<1> DEFINE D == DOMAIN ops
           g == CHOOSE f : f = [t \in SUBSET D |->
                  IF t = {} THEN <<>> ELSE Extended(f[t \ {Max(t)}], ops[Max(t)], ids)]
<1>1. D = 1 .. Len(ops) /\ Len(ops) \in Nat
  BY SeqIs DEF IsSeq
<1>2. OfIds(ops, ids) = g[D]
  BY DEF OfIds, Extended, FoldLeft, MapThenFoldSet
<1>3. \A f : Table(f, Selecting(ops, ids), Len(ops)) <=>
             f = [t \in SUBSET D |->
                    IF t = {} THEN <<>> ELSE Extended(f[t \ {Max(t)}], ops[Max(t)], ids)]
  BY <1>1 DEF Table, Selecting, Step
<1>4. \E f : Table(f, Selecting(ops, ids), Len(ops))
  BY <1>1, TableExists
<1>5. g = [t \in SUBSET D |->
             IF t = {} THEN <<>> ELSE Extended(g[t \ {Max(t)}], ops[Max(t)], ids)]
  BY <1>3, <1>4
<1> HIDE DEF g
<1>6. QED
  BY <1>1, <1>2, <1>3, <1>5

(* The positions taken of the first k, in order.                           *)
Order(ops, at, kept, f) ==
  /\ kept \in Seq(ToSet(ops)) /\ f \in [1 .. Len(kept) -> at]
  /\ \A j \in 1 .. Len(kept) : kept[j] = ops[f[j]]
  /\ \A j, k \in 1 .. Len(kept) : j < k => f[j] < f[k]
  /\ \A i \in at : \E j \in 1 .. Len(kept) : f[j] = i

OfId(ops, ids) == {i \in 1 .. Len(ops) : ops[i].id \in ids}
Early(ops, ids, k) == {i \in OfId(ops, ids) : i <= k}
Picked(ops, ids, k, kept) == \E f : Order(ops, Early(ops, ids, k), kept, f)

LEMMA OfIdsAre ==
  ASSUME NEW ops, IsSeq(ops), NEW ids
  PROVE  \E f : Order(ops, OfId(ops, ids), OfIds(ops, ids), f)
<1> DEFINE n == Len(ops)
<1>1. PICK g : Table(g, Selecting(ops, ids), n) /\ OfIds(ops, ids) = g[1 .. n]
  BY OfIdsTable
<1>2. n \in Nat /\ DOMAIN ops = 1 .. n /\ OfId(ops, ids) \subseteq 1 .. n
  BY SeqIs DEF IsSeq, OfId
<1>3. g[1 .. 0] = <<>> /\ Steps(g, Selecting(ops, ids), n)
  BY <1>1, <1>2, TableSteps DEF Selecting
<1> DEFINE T == {k \in Nat : k <= n => Picked(ops, ids, k, g[1 .. k])}
<1>4. 0 \in T
  <2>1. Early(ops, ids, 0) = {}
    BY <1>2 DEF Early
  <2> DEFINE f == [j \in 1 .. 0 |-> 0]
  <2>2. f \in [1 .. 0 -> {}]
    OBVIOUS
  <2>3. <<>> \in Seq(ToSet(ops)) /\ Len(<<>>) = 0 /\ 1 .. 0 = {}
    OBVIOUS
  <2>4. Order(ops, {}, <<>>, f)
    BY <2>2, <2>3 DEF Order
  <2> HIDE DEF f
  <2>5. QED
    BY <1>3, <2>1, <2>4 DEF Picked
<1>5. ASSUME NEW k \in Nat, k \in T, k + 1 <= n PROVE Picked(ops, ids, k + 1, g[1 .. k + 1])
  <2> DEFINE kept == g[1 .. k]
             o == ops[k + 1]
  <2>1. PICK f : Order(ops, Early(ops, ids, k), kept, f)
    BY <1>2, <1>5 DEF Picked
  <2>2. g[1 .. k + 1] = Extended(kept, o, ids)
    <3>1. k \in 0 .. n - 1
      BY <1>2, <1>5
    <3>2. QED
      BY <1>3, <3>1 DEF Steps, Step, Selecting
  <2>3. k + 1 \in 1 .. n /\ o \in ToSet(ops)
    BY <1>2, <1>5 DEF ToSet
  <2>4. CASE o.id \in ids
    <3>1. g[1 .. k + 1] = Append(kept, o)
      BY <2>2, <2>4 DEF Extended
    <3>2. Early(ops, ids, k + 1) = Early(ops, ids, k) \cup {k + 1}
      BY <1>2, <2>3, <2>4 DEF OfId, Early
    <3> DEFINE m == Len(kept)
               h == [j \in 1 .. m + 1 |-> IF j <= m THEN f[j] ELSE k + 1]
               more == Append(kept, o)
    <3>3. kept \in Seq(ToSet(ops)) /\ m \in Nat
      BY <2>1 DEF Order
    <3>4. /\ more \in Seq(ToSet(ops)) /\ Len(more) = m + 1 /\ more[m + 1] = o
          /\ \A j \in 1 .. m : more[j] = kept[j]
      BY <2>3, <3>3
    <3>5. \A j \in 1 .. m : f[j] \in Early(ops, ids, k) /\ f[j] <= k /\ h[j] = f[j]
      BY <2>1, <3>3 DEF Order, Early
    <3>6. h[m + 1] = k + 1 /\ h \in [1 .. m + 1 -> Early(ops, ids, k + 1)]
      <4> DEFINE E == Early(ops, ids, k + 1)
      <4>1. k + 1 \in E /\ \A j \in 1 .. m : f[j] \in E
        BY <3>2, <3>5
      <4>2. m + 1 \in 1 .. m + 1 /\ ~(m + 1 <= m)
        BY <3>3
      <4>3. \A j \in 1 .. m + 1 : j \in 1 .. m \/ ~(j <= m)
        BY <3>3
      <4> HIDE DEF E, m
      <4>4. QED
        BY <4>1, <4>2, <4>3 DEF E
    <3>7. \A i \in Early(ops, ids, k) : \E j \in 1 .. m : f[j] = i
      BY <2>1 DEF Order
    <3>8. \A j, l \in 1 .. m : j < l => f[j] < f[l]
      BY <2>1 DEF Order
    <3>9. \A j \in 1 .. m : kept[j] = ops[f[j]]
      BY <2>1 DEF Order
    <3>a. \A j \in 1 .. m + 1 : j \in 1 .. m \/ j = m + 1
      BY <3>3
    <3>b. Early(ops, ids, k) \subseteq Int
      BY <1>2 DEF Early
    <3> HIDE DEF h, more, m, o
    <3>c. \A j, l \in 1 .. m + 1 : j < l => h[j] < h[l]
      <4> SUFFICES ASSUME NEW j \in 1 .. m + 1, NEW l \in 1 .. m + 1, j < l PROVE h[j] < h[l]
        OBVIOUS
      <4>1. j \in 1 .. m
        BY <3>3, <3>a DEF m
      <4>2. CASE l \in 1 .. m
        BY <4>1, <4>2, <3>5, <3>8
      <4>3. CASE l = m + 1
        BY <4>1, <4>3, <3>5, <3>6, <3>b
      <4>4. QED
        BY <4>2, <4>3, <3>a
    <3>d. \A j \in 1 .. m + 1 : more[j] = ops[h[j]]
      BY <3>4, <3>5, <3>6, <3>9, <3>a DEF o
    <3>e. \A i \in Early(ops, ids, k + 1) : \E j \in 1 .. m + 1 : h[j] = i
      <4>1. \A j \in 1 .. m : j \in 1 .. m + 1
        BY <3>3 DEF m
      <4>2. m + 1 \in 1 .. m + 1
        BY <3>3 DEF m
      <4>3. QED
        BY <3>2, <3>5, <3>6, <3>7, <4>1, <4>2
    <3>f. Order(ops, Early(ops, ids, k + 1), more, h)
      BY <3>4, <3>6, <3>c, <3>d, <3>e DEF Order
    <3>g. QED
      BY <3>1, <3>f DEF more, o, Picked
  <2>5. CASE o.id \notin ids
    <3>1. g[1 .. k + 1] = kept
      BY <2>2, <2>5 DEF Extended
    <3>2. Early(ops, ids, k + 1) = Early(ops, ids, k)
      BY <1>2, <2>3, <2>5 DEF OfId, Early
    <3>3. QED
      BY <2>1, <3>1, <3>2 DEF Picked
  <2>6. QED
    BY <2>4, <2>5
<1>6. n \in T
  <2>1. \A k \in Nat : k \in T => k + 1 \in T
    BY <1>5
  <2> HIDE DEF T
  <2>2. QED
    BY <1>2, <1>4, <2>1, EveryNat
<1>7. Early(ops, ids, n) = OfId(ops, ids)
  BY <1>2 DEF Early
<1>8. QED
  BY <1>1, <1>2, <1>6, <1>7 DEF Picked

LEMMA KeptIs ==
  ASSUME NEW c, IsContext(c), NEW first \in Nat, NEW last \in Nat
  PROVE  \E f : Order(c.ops, Selected(c, first, last), Kept(c, first, last), f)
<1>1. Positions(c) = 1 .. Len(c.ops) /\ IsSeq(c.ops) /\ \A i \in Positions(c) : c.ops[i].id \in Nat
  BY ContextSeq
<1>2. OfId(c.ops, first .. last) = Selected(c, first, last)
  BY <1>1 DEF OfId, Selected
<1>3. QED
  BY <1>1, <1>2, OfIdsAre DEF Kept

-----------------------------------------------------------------------------
(* The graph of a verified program, by positions.                          *)
GraphOK(c) ==
  /\ \A i \in Positions(c) : \A t \in ToSet(c.ops[i].in) :
       \/ Is(c, t, "Input") \/ Is(c, t, "Constant")
       \/ \E j \in Positions(c) : j < i /\ t \in ToSet(c.ops[j].out)
  /\ \A i, j \in Positions(c) : i # j => ToSet(c.ops[i].out) \cap ToSet(c.ops[j].out) = {}
  /\ \A i \in Positions(c) : \A t \in ToSet(c.ops[i].out) :
       ~Is(c, t, "Input") /\ ~Is(c, t, "Constant")
  /\ \A t \in Declared(c) :
       /\ Is(c, t, "Streamed") => Is(c, t, "Constant")
       /\ Is(c, t, "Output") => \/ Is(c, t, "Input") \/ Is(c, t, "Constant")
                                \/ \E j \in Positions(c) : t \in ToSet(c.ops[j].out)

OperandsDeclared(c) ==
  \A i \in Positions(c) : /\ ToSet(c.ops[i].in) \subseteq Declared(c)
                          /\ ToSet(c.ops[i].out) \subseteq Declared(c)

LEMMA Concatenated ==
  ASSUME NEW S, NEW s \in Seq(S), NEW u \in Seq(S)
  PROVE  ToSet(s \o u) = ToSet(s) \cup ToSet(u)
<1>1. /\ Len(s) \in Nat /\ Len(u) \in Nat /\ DOMAIN s = 1 .. Len(s) /\ DOMAIN u = 1 .. Len(u)
      /\ s \o u \in Seq(S) /\ Len(s \o u) = Len(s) + Len(u)
      /\ DOMAIN (s \o u) = 1 .. Len(s) + Len(u)
      /\ \A i \in 1 .. Len(s) : (s \o u)[i] = s[i]
      /\ \A i \in 1 .. Len(u) : (s \o u)[Len(s) + i] = u[i]
  OBVIOUS
<1> DEFINE w == s \o u
<1>2. ASSUME NEW i \in DOMAIN w PROVE w[i] \in ToSet(s) \cup ToSet(u)
  <2>1. CASE i \in 1 .. Len(s)
    BY <1>1, <2>1 DEF ToSet
  <2>2. CASE i \notin 1 .. Len(s)
    <3>1. i - Len(s) \in 1 .. Len(u) /\ i = Len(s) + (i - Len(s))
      BY <1>1, <2>2
    <3> HIDE DEF w
    <3>2. w[i] = u[i - Len(s)]
      BY <1>1, <3>1 DEF w
    <3>3. QED
      BY <1>1, <3>1, <3>2 DEF ToSet
  <2>3. QED
    BY <2>1, <2>2
<1>3. \A i \in 1 .. Len(s) : i \in DOMAIN w /\ w[i] = s[i]
  BY <1>1
<1>4. \A i \in 1 .. Len(u) : Len(s) + i \in DOMAIN w /\ w[Len(s) + i] = u[i]
  BY <1>1
<1> HIDE DEF w
<1>5. QED
  BY <1>1, <1>2, <1>3, <1>4 DEF ToSet, w

LEMMA DeclaredOperands ==
  ASSUME NEW c, IsContext(c)
  PROVE  OperandsDeclared(c) <=>
           \A i \in Positions(c) : ToSet(c.ops[i].in \o c.ops[i].out) \subseteq Declared(c)
<1>1. ASSUME NEW i \in Positions(c)
      PROVE  ToSet(c.ops[i].in \o c.ops[i].out) = ToSet(c.ops[i].in) \cup ToSet(c.ops[i].out)
  BY ContextSeq, Concatenated
<1>2. QED
  BY <1>1 DEF OperandsDeclared

LEMMA ProgramOf ==
  ASSUME NEW c, IsContext(c)
  PROVE  LET p == AsProgram(c)
             n == Len(c.ops)
         IN  /\ n \in Nat /\ p.count = n /\ Operations(p) = 0 .. n - 1
             /\ \A i \in 0 .. n - 1 : /\ i + 1 \in Positions(c)
                                      /\ p.inputs[i] = ToSet(c.ops[i + 1].in)
                                      /\ p.outputs[i] = ToSet(c.ops[i + 1].out)
             /\ \A i \in Positions(c) : i - 1 \in 0 .. n - 1 /\ (i - 1) + 1 = i
             /\ \A t \in Tensors : \A role : HasRole(p, t, role) <=> t \in Declared(c) /\ Is(c, t, role)
<1>1. Len(c.ops) \in Nat /\ Positions(c) = 1 .. Len(c.ops)
  BY ContextSeq
<1>2. /\ AsProgram(c).count = Len(c.ops)
      /\ AsProgram(c).inputs = [i \in 0 .. Len(c.ops) - 1 |-> ToSet(c.ops[i + 1].in)]
      /\ AsProgram(c).outputs = [i \in 0 .. Len(c.ops) - 1 |-> ToSet(c.ops[i + 1].out)]
      /\ AsProgram(c).roles = [t \in Tensors |-> IF t \in Declared(c) THEN c.tensors[t].roles ELSE {}]
  BY DEF AsProgram
<1>3. QED
  BY <1>1, <1>2 DEF Operations, HasRole, Is

LEMMA GraphVerified ==
  ASSUME NEW c, IsContext(c), OperandsDeclared(c)
  PROVE  Verified(AsProgram(c)) <=> GraphOK(c)
<1> DEFINE p == AsProgram(c)
           n == Len(c.ops)
<1>1. /\ n \in Nat /\ Operations(p) = 0 .. n - 1
      /\ \A i \in 0 .. n - 1 : /\ i + 1 \in Positions(c)
                               /\ p.inputs[i] = ToSet(c.ops[i + 1].in)
                               /\ p.outputs[i] = ToSet(c.ops[i + 1].out)
      /\ \A i \in Positions(c) : i - 1 \in 0 .. n - 1 /\ (i - 1) + 1 = i
      /\ \A t \in Tensors : \A role : HasRole(p, t, role) <=> t \in Declared(c) /\ Is(c, t, role)
  BY ProgramOf
<1>2. \A t \in Declared(c) : t \in Tensors
  BY DEF IsContext
<1>3. \A i \in Positions(c) : /\ \A t \in ToSet(c.ops[i].in) : t \in Declared(c)
                              /\ \A t \in ToSet(c.ops[i].out) : t \in Declared(c)
  BY DEF OperandsDeclared
<1>4. Positions(c) \subseteq Int
  BY ContextSeq
<1> DEFINE ins(i) == ToSet(c.ops[i].in)
           outs(i) == ToSet(c.ops[i].out)
<1> HIDE DEF p, n
<1>5. ASSUME Verified(p) PROVE GraphOK(c)
  <2>1. ASSUME NEW i \in Positions(c), NEW t \in ins(i)
        PROVE  \/ Is(c, t, "Input") \/ Is(c, t, "Constant")
               \/ \E j \in Positions(c) : j < i /\ t \in outs(j)
    <3>1. i - 1 \in Operations(p) /\ p.inputs[i - 1] = ins(i)
      BY <1>1
    <3>2. Bound(p, t) \/ \E j \in Operations(p) : j < i - 1 /\ t \in p.outputs[j]
      BY <1>5, <2>1, <3>1 DEF Verified
    <3>3. CASE Bound(p, t)
      BY <1>1, <1>2, <1>3, <2>1, <3>3 DEF Bound
    <3>4. ASSUME NEW j \in Operations(p), j < i - 1, t \in p.outputs[j]
          PROVE  \E k \in Positions(c) : k < i /\ t \in outs(k)
      <4>1. j + 1 \in Positions(c) /\ t \in outs(j + 1)
        BY <1>1, <3>4
      <4>2. j + 1 < i
        BY <1>1, <1>4, <3>4
      <4>3. QED
        BY <4>1, <4>2
    <3>5. QED
      BY <3>2, <3>3, <3>4
  <2>2. ASSUME NEW i \in Positions(c), NEW j \in Positions(c), i # j
        PROVE  outs(i) \cap outs(j) = {}
    <3>1. /\ i - 1 \in Operations(p) /\ p.outputs[i - 1] = outs(i)
          /\ j - 1 \in Operations(p) /\ p.outputs[j - 1] = outs(j)
      BY <1>1
    <3>2. i - 1 # j - 1
      BY <1>4, <2>2
    <3>3. QED
      BY <1>5, <3>1, <3>2 DEF Verified
  <2>3. ASSUME NEW i \in Positions(c), NEW t \in outs(i)
        PROVE  ~Is(c, t, "Input") /\ ~Is(c, t, "Constant")
    <3>1. i - 1 \in Operations(p) /\ p.outputs[i - 1] = outs(i)
      BY <1>1
    <3>2. ~Bound(p, t)
      BY <1>5, <2>3, <3>1 DEF Verified
    <3>3. QED
      BY <1>1, <1>2, <1>3, <2>3, <3>2 DEF Bound
  <2>4. ASSUME NEW t \in Declared(c)
        PROVE  /\ Is(c, t, "Streamed") => Is(c, t, "Constant")
               /\ Is(c, t, "Output") => \/ Is(c, t, "Input") \/ Is(c, t, "Constant")
                                        \/ \E j \in Positions(c) : t \in outs(j)
    <3>1. /\ HasRole(p, t, "Streamed") => HasRole(p, t, "Constant")
          /\ HasRole(p, t, "Output") => Bound(p, t) \/ Producers(p, t) # {}
      BY <1>2, <1>5, <2>4 DEF Verified
    <3>2. ASSUME Producers(p, t) # {} PROVE \E j \in Positions(c) : t \in outs(j)
      <4>1. PICK k \in Operations(p) : t \in p.outputs[k]
        BY <3>2 DEF Producers
      <4>2. k + 1 \in Positions(c) /\ t \in outs(k + 1)
        BY <1>1, <4>1
      <4>3. QED
        BY <4>2
    <3>3. QED
      BY <1>1, <1>2, <3>1, <3>2 DEF Bound
  <2>5. QED
    BY <2>1, <2>2, <2>3, <2>4 DEF GraphOK
<1>6. ASSUME GraphOK(c) PROVE Verified(p)
  <2>1. \A t \in Tensors : HasRole(p, t, "Streamed") => HasRole(p, t, "Constant")
    BY <1>1, <1>6 DEF GraphOK
  <2>2. ASSUME NEW i \in Operations(p), NEW t \in p.inputs[i]
        PROVE  Bound(p, t) \/ \E j \in Operations(p) : j < i /\ t \in p.outputs[j]
    <3>1. i + 1 \in Positions(c) /\ t \in ins(i + 1)
      BY <1>1, <2>2
    <3>2. \/ Is(c, t, "Input") \/ Is(c, t, "Constant")
          \/ \E j \in Positions(c) : j < i + 1 /\ t \in outs(j)
      BY <1>6, <3>1 DEF GraphOK
    <3>3. t \in Declared(c) /\ t \in Tensors
      BY <1>2, <1>3, <3>1
    <3>4. ASSUME NEW j \in Positions(c), j < i + 1, t \in outs(j)
          PROVE  \E k \in Operations(p) : k < i /\ t \in p.outputs[k]
      <4>1. j - 1 \in Operations(p) /\ t \in p.outputs[j - 1]
        BY <1>1, <3>4
      <4>2. j - 1 < i
        BY <1>1, <1>4, <3>4
      <4>3. QED
        BY <4>1, <4>2
    <3>5. QED
      BY <1>1, <3>2, <3>3, <3>4 DEF Bound
  <2>3. ASSUME NEW i \in Operations(p), NEW j \in Operations(p), i # j
        PROVE  p.outputs[i] \cap p.outputs[j] = {}
    <3>1. /\ i + 1 \in Positions(c) /\ p.outputs[i] = outs(i + 1)
          /\ j + 1 \in Positions(c) /\ p.outputs[j] = outs(j + 1)
      BY <1>1
    <3>2. i + 1 # j + 1
      BY <1>1, <2>3
    <3>3. QED
      BY <1>6, <3>1, <3>2 DEF GraphOK
  <2>4. ASSUME NEW i \in Operations(p), NEW t \in p.outputs[i] PROVE ~Bound(p, t)
    <3>1. i + 1 \in Positions(c) /\ t \in outs(i + 1)
      BY <1>1, <2>4
    <3>2. ~Is(c, t, "Input") /\ ~Is(c, t, "Constant") /\ t \in Tensors
      BY <1>2, <1>3, <1>6, <3>1 DEF GraphOK
    <3>3. QED
      BY <1>1, <3>2 DEF Bound
  <2>5. ASSUME NEW t \in Tensors, HasRole(p, t, "Output") PROVE Bound(p, t) \/ Producers(p, t) # {}
    <3>1. t \in Declared(c) /\ Is(c, t, "Output")
      BY <1>1, <2>5
    <3>2. \/ Is(c, t, "Input") \/ Is(c, t, "Constant")
          \/ \E j \in Positions(c) : t \in outs(j)
      BY <1>6, <3>1 DEF GraphOK
    <3>3. ASSUME NEW j \in Positions(c), t \in outs(j) PROVE Producers(p, t) # {}
      <4>1. j - 1 \in Operations(p) /\ t \in p.outputs[j - 1]
        BY <1>1, <3>3
      <4>2. QED
        BY <4>1 DEF Producers
    <3>4. QED
      BY <1>1, <3>1, <3>2, <3>3 DEF Bound
  <2>6. QED
    BY <2>1, <2>2, <2>3, <2>4, <2>5 DEF Verified
<1>7. QED
  BY <1>5, <1>6 DEF p

-----------------------------------------------------------------------------
(* A slice is a verified program.                                          *)
Referenced(c, at) == {t \in Declared(c) : (Reads(c, t) \cup Writes(c, t)) \cap at # {}}

LEMMA SliceIs ==
  ASSUME NEW c, IsContext(c), NEW first \in Nat \ {0}, NEW last \in Nat, first <= last,
         Selected(c, first, last) # {}
  PROVE  LET s == SliceOperations(c, first, last)
             at == Selected(c, first, last)
         IN  /\ {"ops", "tensors", "bindings", "distance", "ok"} \subseteq DOMAIN s
             /\ s.ops = Kept(c, first, last)
             /\ Declared(s) = Referenced(c, at)
             /\ \A t \in Declared(s) :
                  /\ t \in Declared(c) /\ DType(s, t) = DType(c, t) /\ Dims(s, t) = Dims(c, t)
                  /\ {"dtype", "roles", "dims"} \subseteq DOMAIN s.tensors[t]
                  /\ s.tensors[t].roles = SlicedRoles(c, at, t)
<1> DEFINE at == Selected(c, first, last)
           R == Referenced(c, at)
           T == [t \in R |-> [c.tensors[t] EXCEPT !.roles = SlicedRoles(c, at, t)]]
           s == [c EXCEPT !.ops = Kept(c, first, last), !.tensors = T,
                          !.bindings = [t \in R \cap DOMAIN c.bindings |-> c.bindings[t]]]
<1>1. SliceOperations(c, first, last) = s
  BY DEF SliceOperations, Referenced
<1>2. {"ops", "tensors", "bindings", "distance", "ok"} \subseteq DOMAIN c
  BY DEF IsContext
<1> HIDE DEF T, R
<1>3. DOMAIN s = DOMAIN c /\ s.ops = Kept(c, first, last) /\ s.tensors = T
  BY <1>2
<1>4. DOMAIN T = R
  BY DEF T
<1>5. ASSUME NEW t \in R
      PROVE  /\ t \in Declared(c) /\ T[t].dtype = c.tensors[t].dtype /\ T[t].dims = c.tensors[t].dims
             /\ {"dtype", "roles", "dims"} \subseteq DOMAIN T[t]
             /\ T[t].roles = SlicedRoles(c, at, t)
  <2>1. t \in Declared(c)
    BY <1>5 DEF R, Referenced
  <2>2. {"dtype", "roles", "dims"} \subseteq DOMAIN c.tensors[t]
    BY <2>1 DEF IsContext
  <2>3. T[t] = [c.tensors[t] EXCEPT !.roles = SlicedRoles(c, at, t)]
    BY <1>5 DEF T
  <2>4. QED
    BY <2>1, <2>2, <2>3
<1> HIDE DEF s
<1>6. QED
  BY <1>1, <1>2, <1>3, <1>4, <1>5 DEF Declared, DType, Dims, R

(* A slice by the positions of its operations in the program.              *)
SlicedAt(c, at, s, f) ==
  /\ Order(c.ops, at, s.ops, f) /\ at \subseteq Positions(c)
  /\ {"ops", "tensors", "bindings", "distance", "ok"} \subseteq DOMAIN s
  /\ Declared(s) = Referenced(c, at)
  /\ \A t \in Declared(s) :
       /\ t \in Declared(c) /\ DType(s, t) = DType(c, t) /\ Dims(s, t) = Dims(c, t)
       /\ {"dtype", "roles", "dims"} \subseteq DOMAIN s.tensors[t]
       /\ s.tensors[t].roles = SlicedRoles(c, at, t)

LEMMA SliceAt ==
  ASSUME NEW c, IsContext(c), NEW first \in Nat \ {0}, NEW last \in Nat, first <= last,
         Selected(c, first, last) # {}
  PROVE  \E f : SlicedAt(c, Selected(c, first, last), SliceOperations(c, first, last), f)
<1> DEFINE s == SliceOperations(c, first, last)
           at == Selected(c, first, last)
<1>1. PICK f : Order(c.ops, at, Kept(c, first, last), f)
  BY KeptIs
<1>2. at \subseteq Positions(c)
  BY DEF Selected
<1>3. SlicedAt(c, at, s, f)
  <2> HIDE DEF s
  <2>1. QED
    BY <1>1, <1>2, SliceIs DEF SlicedAt, s
<1>4. QED
  BY <1>3

LEMMA SlicedPositions ==
  ASSUME NEW c, IsContext(c), NEW at, NEW s, NEW f, SlicedAt(c, at, s, f)
  PROVE  /\ Len(s.ops) \in Nat /\ Positions(s) = 1 .. Len(s.ops) /\ s.ops \in Seq(ToSet(s.ops))
         /\ \A j \in Positions(s) : f[j] \in at /\ f[j] \in Positions(c) /\ s.ops[j] = c.ops[f[j]]
         /\ \A j, k \in Positions(s) : /\ j # k => f[j] # f[k]
                                       /\ f[j] < f[k] => j < k
         /\ \A i \in at : \E j \in Positions(s) : f[j] = i
<1>1. /\ s.ops \in Seq(ToSet(c.ops)) /\ f \in [1 .. Len(s.ops) -> at] /\ at \subseteq Positions(c)
      /\ \A j \in 1 .. Len(s.ops) : s.ops[j] = c.ops[f[j]]
      /\ \A j, k \in 1 .. Len(s.ops) : j < k => f[j] < f[k]
      /\ \A i \in at : \E j \in 1 .. Len(s.ops) : f[j] = i
  BY DEF SlicedAt, Order
<1>2. Len(s.ops) \in Nat /\ Positions(s) = 1 .. Len(s.ops)
      /\ s.ops = [j \in 1 .. Len(s.ops) |-> s.ops[j]]
  BY <1>1 DEF Positions
<1>3. s.ops \in Seq(ToSet(s.ops))
  BY <1>2 DEF ToSet
<1>4. \A j \in Positions(s) : f[j] \in at /\ f[j] \in Int
  BY <1>1, <1>2, ContextSeq
<1>5. ASSUME NEW j \in Positions(s), NEW k \in Positions(s)
      PROVE  (j # k => f[j] # f[k]) /\ (f[j] < f[k] => j < k)
  <2>1. j < k \/ j = k \/ k < j
    BY <1>2
  <2>2. QED
    BY <1>1, <1>2, <1>4, <2>1
<1>6. QED
  BY <1>1, <1>2, <1>3, <1>4, <1>5

LEMMA SlicedContext ==
  ASSUME NEW c, IsContext(c), OperandsDeclared(c), NEW at, NEW s, NEW f, SlicedAt(c, at, s, f)
  PROVE  IsContext(s) /\ OperandsDeclared(s)
<1>1. /\ s.ops \in Seq(ToSet(s.ops))
      /\ \A j \in Positions(s) : f[j] \in at /\ f[j] \in Positions(c) /\ s.ops[j] = c.ops[f[j]]
  BY SlicedPositions
<1>2. \A j \in Positions(s) : /\ s.ops[j].id \in Nat \ {0} /\ s.ops[j].in \in Seq(Tensors)
                              /\ s.ops[j].out \in Seq(Tensors)
  BY <1>1, ContextSeq
<1>3. Declared(s) \subseteq Tensors \ {0}
  BY DEF SlicedAt, IsContext
<1>4. ASSUME NEW t \in Declared(s) PROVE s.tensors[t].roles \subseteq Roles
  <2>1. t \in Declared(c) /\ s.tensors[t].roles = SlicedRoles(c, at, t)
    BY <1>4 DEF SlicedAt
  <2>2. c.tensors[t].roles \subseteq Roles
    BY <2>1 DEF IsContext
  <2>3. QED
    BY <2>1, <2>2 DEF SlicedRoles, Roles
<1>5. IsContext(s)
  BY <1>1, <1>2, <1>3, <1>4 DEF SlicedAt, IsContext
<1>6. ASSUME NEW j \in Positions(s), NEW t \in ToSet(s.ops[j].in) \cup ToSet(s.ops[j].out)
      PROVE  t \in Declared(s)
  <2>1. f[j] \in Positions(c) /\ f[j] \in at /\ s.ops[j] = c.ops[f[j]]
    BY <1>1
  <2>2. t \in Declared(c) /\ f[j] \in Reads(c, t) \cup Writes(c, t)
    BY <1>6, <2>1 DEF OperandsDeclared, Reads, Writes
  <2>3. QED
    BY <2>1, <2>2 DEF SlicedAt, Referenced
<1>7. OperandsDeclared(s)
  BY <1>6 DEF OperandsDeclared
<1>8. QED
  BY <1>5, <1>7

LEMMA SlicedGraph ==
  ASSUME NEW c, IsContext(c), OperandsDeclared(c), GraphOK(c),
         NEW at, NEW s, NEW f, SlicedAt(c, at, s, f)
  PROVE  GraphOK(s)
<1>1. /\ \A j \in Positions(s) : f[j] \in at /\ f[j] \in Positions(c) /\ s.ops[j] = c.ops[f[j]]
      /\ \A j, k \in Positions(s) : (j # k => f[j] # f[k]) /\ (f[j] < f[k] => j < k)
      /\ \A i \in at : \E j \in Positions(s) : f[j] = i
  BY SlicedPositions
<1>2. at \subseteq Positions(c)
      /\ \A t \in Declared(s) : t \in Declared(c) /\ s.tensors[t].roles = SlicedRoles(c, at, t)
  BY DEF SlicedAt
<1>3. \A j \in Positions(s) : /\ \A t \in ToSet(s.ops[j].in) : t \in Declared(s)
                              /\ \A t \in ToSet(s.ops[j].out) : t \in Declared(s)
  BY SlicedContext DEF OperandsDeclared
<1>4. ASSUME NEW j \in Positions(s), NEW t \in ToSet(s.ops[j].out)
      PROVE  f[j] \in Writes(c, t) \cap at /\ ~Is(c, t, "Input") /\ ~Is(c, t, "Constant")
  BY <1>1, <1>4 DEF Writes, GraphOK
<1>5. ASSUME NEW t, Writes(c, t) \cap at # {}
      PROVE  \E j \in Positions(s) : t \in ToSet(s.ops[j].out)
  <2>1. PICK i \in at : t \in ToSet(c.ops[i].out)
    BY <1>5 DEF Writes
  <2>2. PICK j \in Positions(s) : f[j] = i
    BY <1>1
  <2>3. QED
    BY <1>1, <2>1, <2>2
<1>6. ASSUME NEW j \in Positions(s), NEW t \in ToSet(s.ops[j].in)
      PROVE  \/ Is(s, t, "Input") \/ Is(s, t, "Constant")
             \/ \E k \in Positions(s) : k < j /\ t \in ToSet(s.ops[k].out)
  <2>1. t \in Declared(c) /\ s.tensors[t].roles = SlicedRoles(c, at, t)
    BY <1>2, <1>3, <1>6
  <2>2. CASE Is(c, t, "Constant")
    BY <2>1, <2>2 DEF SlicedRoles, Is
  <2>3. CASE ~Is(c, t, "Constant") /\ Writes(c, t) \cap at = {}
    BY <2>1, <2>3 DEF SlicedRoles, Is
  <2>4. CASE Writes(c, t) \cap at # {}
    <3>1. PICK k \in Positions(s) : t \in ToSet(s.ops[k].out)
      BY <1>5, <2>4
    <3>2. ~Is(c, t, "Input") /\ ~Is(c, t, "Constant") /\ t \in ToSet(c.ops[f[k]].out)
      BY <1>1, <1>4, <3>1
    <3>3. f[j] \in Positions(c) /\ t \in ToSet(c.ops[f[j]].in)
      BY <1>1, <1>6
    <3>4. PICK i \in Positions(c) : i < f[j] /\ t \in ToSet(c.ops[i].out)
      BY <3>2, <3>3 DEF GraphOK
    <3>5. i = f[k]
      BY <1>1, <3>2, <3>4 DEF GraphOK
    <3>6. QED
      BY <1>1, <3>1, <3>4, <3>5
  <2>5. QED
    BY <2>2, <2>3, <2>4
<1>7. ASSUME NEW j \in Positions(s), NEW k \in Positions(s), j # k
      PROVE  ToSet(s.ops[j].out) \cap ToSet(s.ops[k].out) = {}
  <2>1. f[j] # f[k] /\ f[j] \in Positions(c) /\ f[k] \in Positions(c)
    BY <1>1, <1>7
  <2>2. ToSet(c.ops[f[j]].out) \cap ToSet(c.ops[f[k]].out) = {}
    BY <2>1 DEF GraphOK
  <2>3. QED
    BY <1>1, <2>2
<1>8. ASSUME NEW j \in Positions(s), NEW t \in ToSet(s.ops[j].out)
      PROVE  ~Is(s, t, "Input") /\ ~Is(s, t, "Constant")
  <2>1. s.tensors[t].roles = SlicedRoles(c, at, t)
    BY <1>2, <1>3
  <2>2. SlicedRoles(c, at, t) \subseteq {"Output"}
    BY <1>4 DEF SlicedRoles
  <2>3. QED
    BY <2>1, <2>2 DEF Is
<1>9. ASSUME NEW t \in Declared(s)
      PROVE  /\ Is(s, t, "Streamed") => Is(s, t, "Constant")
             /\ Is(s, t, "Output") => \/ Is(s, t, "Input") \/ Is(s, t, "Constant")
                                      \/ \E j \in Positions(s) : t \in ToSet(s.ops[j].out)
  <2>1. t \in Declared(c) /\ s.tensors[t].roles = SlicedRoles(c, at, t)
    BY <1>2
  <2>2. Is(c, t, "Streamed") => Is(c, t, "Constant")
    BY <2>1 DEF GraphOK
  <2>3. Is(s, t, "Streamed") => Is(s, t, "Constant")
    BY <2>1, <2>2 DEF SlicedRoles, Is
  <2>4. Is(s, t, "Output") => Writes(c, t) \cap at # {}
    BY <2>1 DEF SlicedRoles, Is
  <2>5. QED
    BY <1>5, <2>3, <2>4
<1>10. QED
  BY <1>6, <1>7, <1>8, <1>9 DEF GraphOK

(* The rules of an operation only look at the declarations of its operands. *)
LEMMA SlicedRules ==
  ASSUME NEW c, NEW s, NEW o, o.in \in Seq(Tensors), o.out \in Seq(Tensors), WellFormed(c, o),
         \A t \in ToSet(o.in) \cup ToSet(o.out) : DType(s, t) = DType(c, t) /\ Dims(s, t) = Dims(c, t)
  PROVE  WellFormed(s, o)
<1>1. ToSet(Operands(o)) = ToSet(o.in) \cup ToSet(o.out)
  BY Concatenated DEF Operands
<1>2. OneType(c, o) <=> OneType(s, o)
  BY <1>1 DEF OneType
<1>3. ASSUME NEW inputs, NEW n \in {1, 3}, inputs \subseteq {1, 2, 3}, Takes(o, inputs, n)
      PROVE  /\ \A j \in 1 .. 3 : j <= Len(o.in) => o.in[j] \in ToSet(o.in)
             /\ \A j \in 1 .. 3 : j <= n => o.out[j] \in ToSet(o.out)
             /\ o.in[1] \in ToSet(o.in) /\ o.out[1] \in ToSet(o.out)
             /\ InDims(s, o) = InDims(c, o) /\ OutDims(s, o) = OutDims(c, o)
  <2>1. Len(o.in) \in {1, 2, 3} /\ Len(o.out) = n
    BY <1>3 DEF Takes
  <2>2. DOMAIN o.in = 1 .. Len(o.in) /\ DOMAIN o.out = 1 .. n
    BY <2>1
  <2>3. \A j \in 1 .. 3 : (j <= Len(o.in) => j \in DOMAIN o.in) /\ (j <= n => j \in DOMAIN o.out)
    BY <2>1, <2>2
  <2>4. \A j \in 1 .. 3 : /\ j <= Len(o.in) => o.in[j] \in ToSet(o.in)
                          /\ j <= n => o.out[j] \in ToSet(o.out)
    BY <2>3 DEF ToSet
  <2>5. o.in[1] \in ToSet(o.in) /\ o.out[1] \in ToSet(o.out)
    BY <2>1, <2>4
  <2>6. QED
    BY <2>4, <2>5 DEF InDims, OutDims
<1>4. AddRule(c, o) => AddRule(s, o)
  <2> SUFFICES ASSUME AddRule(c, o) PROVE AddRule(s, o)
    OBVIOUS
  <2>1. Takes(o, {2}, 1)
    BY DEF AddRule
  <2>2. InDims(s, o) = InDims(c, o)
    BY <1>3, <2>1
  <2>3. QED
    BY <1>1, <1>2, <2>2 DEF AddRule
<1>5. CastRule(c, o) => CastRule(s, o)
  <2> SUFFICES ASSUME CastRule(c, o) PROVE CastRule(s, o)
    OBVIOUS
  <2>1. Takes(o, {1}, 1)
    BY DEF CastRule
  <2>2. InDims(s, o) = InDims(c, o) /\ OutDims(s, o) = OutDims(c, o)
    BY <1>3, <2>1
  <2>3. QED
    BY <1>2, <2>2 DEF CastRule
<1>6. PermuteRule(c, o) => PermuteRule(s, o)
  <2> SUFFICES ASSUME PermuteRule(c, o) PROVE PermuteRule(s, o)
    OBVIOUS
  <2>1. Takes(o, {1}, 1)
    BY DEF PermuteRule
  <2>2. InDims(s, o) = InDims(c, o) /\ OutDims(s, o) = OutDims(c, o)
    BY <1>3, <2>1
  <2>3. QED
    BY <1>2, <2>2 DEF PermuteRule
<1>7. BiasRule(c, o) => BiasRule(s, o)
  <2> SUFFICES ASSUME BiasRule(c, o) PROVE BiasRule(s, o)
    OBVIOUS
  <2>1. Takes(o, {2}, 1) /\ Len(o.in) = 2
    BY DEF BiasRule, Takes
  <2>2. InDims(s, o) = InDims(c, o) /\ OutDims(s, o) = OutDims(c, o) /\ o.in[2] \in ToSet(o.in)
    BY <1>3, <2>1
  <2>3. QED
    BY <1>2, <2>2 DEF BiasRule
<1>8. LinearRule(c, o) => LinearRule(s, o)
  <2> SUFFICES ASSUME LinearRule(c, o) PROVE LinearRule(s, o)
    OBVIOUS
  <2>1. Takes(o, {2, 3}, 1) /\ Len(o.in) \in {2, 3}
    BY DEF LinearRule, Takes
  <2>2. /\ InDims(s, o) = InDims(c, o) /\ OutDims(s, o) = OutDims(c, o)
        /\ o.in[1] \in ToSet(o.in) /\ o.in[2] \in ToSet(o.in)
        /\ Len(o.in) = 3 => o.in[3] \in ToSet(o.in)
    BY <1>3, <2>1
  <2>3. /\ DType(s, o.in[1]) = DType(c, o.in[1]) /\ Dims(s, o.in[2]) = Dims(c, o.in[2])
        /\ Len(o.in) = 3 => Dims(s, o.in[3]) = Dims(c, o.in[3])
    BY <2>2
  <2>4. QED
    BY <1>2, <2>2, <2>3 DEF LinearRule
<1>9. ASSUME Takes(o, {1}, 3)
      PROVE  /\ InDims(s, o) = InDims(c, o) /\ OutDims(s, o) = OutDims(c, o)
             /\ Thirds(c, o) => Thirds(s, o)
  <2>1. /\ InDims(s, o) = InDims(c, o) /\ OutDims(s, o) = OutDims(c, o)
        /\ \A j \in 1 .. 3 : o.out[j] \in ToSet(o.out)
    BY <1>3, <1>9
  <2>2. QED
    BY <2>1 DEF Thirds
<1>10. DeinterleaveRule(c, o) => DeinterleaveRule(s, o)
  BY <1>2, <1>9 DEF DeinterleaveRule
<1>11. DeinterleaveWeightRule(c, o) => DeinterleaveWeightRule(s, o)
  BY <1>2, <1>9 DEF DeinterleaveWeightRule
<1>12. QED
  BY <1>4, <1>5, <1>6, <1>7, <1>8, <1>10, <1>11 DEF WellFormed

LEMMA VerifiedIs ==
  ASSUME NEW c
  PROVE  VerifiedContext(c) <=>
           /\ IsContext(c) /\ OperandsDeclared(c) /\ GraphOK(c)
           /\ \A i, j \in Positions(c) : i # j => c.ops[i].id # c.ops[j].id
           /\ \A i \in Positions(c) : IsInjective(c.ops[i].out) /\ WellFormed(c, c.ops[i])
<1>1. ASSUME IsContext(c)
      PROVE  OperandsDeclared(c) <=>
               \A i \in Positions(c) : ToSet(c.ops[i].in \o c.ops[i].out) \subseteq Declared(c)
  BY <1>1, DeclaredOperands
<1>2. ASSUME IsContext(c), OperandsDeclared(c) PROVE Verified(AsProgram(c)) <=> GraphOK(c)
  BY <1>2, GraphVerified
<1>3. QED
  BY <1>1, <1>2 DEF VerifiedContext

LEMMA SliceVerified ==
  ASSUME NEW c, VerifiedContext(c), NEW at, NEW s, NEW f, SlicedAt(c, at, s, f)
  PROVE  VerifiedContext(s)
<1>1. /\ IsContext(c) /\ OperandsDeclared(c) /\ GraphOK(c)
      /\ \A i, j \in Positions(c) : i # j => c.ops[i].id # c.ops[j].id
      /\ \A i \in Positions(c) : IsInjective(c.ops[i].out) /\ WellFormed(c, c.ops[i])
  BY VerifiedIs
<1>2. IsContext(s) /\ OperandsDeclared(s) /\ GraphOK(s)
  BY <1>1, SlicedContext, SlicedGraph
<1>3. /\ \A j \in Positions(s) : f[j] \in Positions(c) /\ s.ops[j] = c.ops[f[j]]
      /\ \A j, k \in Positions(s) : j # k => f[j] # f[k]
  BY <1>1, SlicedPositions
<1>4. \A j, k \in Positions(s) : j # k => s.ops[j].id # s.ops[k].id
  BY <1>1, <1>3
<1>5. ASSUME NEW j \in Positions(s) PROVE IsInjective(s.ops[j].out) /\ WellFormed(s, s.ops[j])
  <2>1. IsInjective(s.ops[j].out) /\ WellFormed(c, s.ops[j]) /\ s.ops[j].in \in Seq(Tensors) /\ s.ops[j].out \in Seq(Tensors)
    BY <1>1, <1>2, <1>3, ContextSeq
  <2>2. \A t \in ToSet(s.ops[j].in) \cup ToSet(s.ops[j].out) :
          DType(s, t) = DType(c, t) /\ Dims(s, t) = Dims(c, t)
    BY <1>2 DEF OperandsDeclared, SlicedAt
  <2>3. QED
    BY <2>1, <2>2, SlicedRules
<1>6. QED
  BY <1>2, <1>4, <1>5, VerifiedIs

-----------------------------------------------------------------------------
(* What the whole program computes, operation by operation.                *)
(* What an operation computes depends on the values of its inputs and the  *)
(* types of its operands.                                                  *)
LEMMA ComputedLocal ==
  ASSUME NEW c, NEW s, NEW o, o.in \in Seq(Tensors), o.out \in Seq(Tensors),
         \A t \in ToSet(o.in) \cup ToSet(o.out) : DType(s, t) = DType(c, t),
         NEW k \in DOMAIN o.out, NEW v, NEW w, \A t \in ToSet(o.in) : v[t] = w[t]
  PROVE  Computed(s, o, k, v) = Computed(c, o, k, w)
<1>1. \A j \in DOMAIN o.in : o.in[j] \in ToSet(o.in)
  BY DEF ToSet
<1>2. o.in # <<>> => 1 \in DOMAIN o.in
  OBVIOUS
<1>3. (IF o.in = <<>> THEN 0 ELSE DType(s, o.in[1])) = (IF o.in = <<>> THEN 0 ELSE DType(c, o.in[1]))
  BY <1>1, <1>2
<1>4. DType(s, o.out[k]) = DType(c, o.out[k])
  BY DEF ToSet
<1>5. [j \in DOMAIN o.in |-> v[o.in[j]]["exact"]] = [j \in DOMAIN o.in |-> w[o.in[j]]["exact"]]
  BY <1>1
<1>6. [j \in DOMAIN o.in |-> v[o.in[j]]["real"]] = [j \in DOMAIN o.in |-> w[o.in[j]]["real"]]
  BY <1>1
<1>7. QED
  BY <1>3, <1>4, <1>5, <1>6 DEF Computed

LEMMA OutputIndexIs ==
  ASSUME NEW o, NEW t \in ToSet(o.out)
  PROVE  OutputIndex(o, t) \in DOMAIN o.out /\ o.out[OutputIndex(o, t)] = t
  BY DEF ToSet, OutputIndex

(* The values after the first k operations.                                *)
Runs(c, b, g) ==
  /\ g[1 .. 0] = b
  /\ \A k \in 0 .. Len(c.ops) - 1 : g[1 .. k + 1] = Written(c, c.ops[k + 1], g[1 .. k])
  /\ Values(c, b) = g[1 .. Len(c.ops)]

LEMMA ValuesRun ==
  ASSUME NEW c, IsContext(c), NEW b PROVE \E g : Runs(c, b, g)
<1>1. PICK g : Table(g, Executed(c, b), Len(c.ops)) /\ Values(c, b) = g[1 .. Len(c.ops)]
  BY ValuesIs
<1>2. Len(c.ops) \in Nat
  BY ContextSeq
<1>3. g[1 .. 0] = b /\ Steps(g, Executed(c, b), Len(c.ops))
  BY <1>1, <1>2, TableSteps DEF Executed
<1>4. ASSUME NEW k \in 0 .. Len(c.ops) - 1
      PROVE  g[1 .. k + 1] = Written(c, c.ops[k + 1], g[1 .. k])
  BY <1>3 DEF Steps, Step, Executed
<1>5. QED
  BY <1>1, <1>3, <1>4 DEF Runs

LEMMA RunStep ==
  ASSUME NEW c, IsContext(c), NEW b, NEW g, Runs(c, b, g), NEW i \in Positions(c)
  PROVE  LET o == c.ops[i]
             v == g[1 .. i - 1]
             w == g[1 .. i]
         IN  /\ DOMAIN w = ToSet(o.out) \cup DOMAIN v
             /\ \A t \in ToSet(o.out) : w[t] = Computed(c, o, OutputIndex(o, t), v)
             /\ \A t \in DOMAIN v : t \notin ToSet(o.out) => w[t] = v[t]
<1> DEFINE o == c.ops[i]
           v == g[1 .. i - 1]
           w == g[1 .. i]
<1>1. i - 1 \in 0 .. Len(c.ops) - 1 /\ (i - 1) + 1 = i
  BY ContextSeq
<1>2. w = Written(c, o, v)
  BY <1>1 DEF Runs
<1> HIDE DEF o, v, w
<1>3. /\ DOMAIN w = ToSet(o.out) \cup DOMAIN v
      /\ \A t \in ToSet(o.out) : w[t] = Computed(c, o, OutputIndex(o, t), v)
      /\ \A t \in DOMAIN v : t \notin ToSet(o.out) => w[t] = v[t]
  BY <1>2 DEF Written
<1>4. QED
  BY <1>3 DEF o, v, w

(* A value nobody writes any more stays.                                   *)
Settled(c, l, t) == \A i \in Positions(c) : i > l => t \notin ToSet(c.ops[i].out)

LEMMA ValueStays ==
  ASSUME NEW c, IsContext(c), NEW b, NEW g, Runs(c, b, g),
         NEW l \in 0 .. Len(c.ops), NEW t \in DOMAIN g[1 .. l],
         Settled(c, l, t), NEW m \in l .. Len(c.ops)
  PROVE  t \in DOMAIN g[1 .. m] /\ g[1 .. m][t] = g[1 .. l][t]
<1> DEFINE Same(k) == t \in DOMAIN g[1 .. k] /\ g[1 .. k][t] = g[1 .. l][t]
           T == {k \in Nat : k >= l /\ k <= Len(c.ops) => Same(k)}
<1>1. Len(c.ops) \in Nat /\ Positions(c) = 1 .. Len(c.ops)
  BY ContextSeq
<1>2. 0 \in T
  <2>1. 0 >= l => l = 0
    BY <1>1
  <2>2. QED
    BY <2>1
<1>3. ASSUME NEW k \in Nat, k \in T PROVE k + 1 \in T
  <2> SUFFICES ASSUME k + 1 >= l, k + 1 <= Len(c.ops) PROVE Same(k + 1)
    OBVIOUS
  <2>1. CASE k + 1 = l
    BY <2>1
  <2>2. CASE k + 1 > l
    <3>1. Same(k) /\ k \in 0 .. Len(c.ops) - 1 /\ k + 1 \in Positions(c)
      BY <1>1, <1>3, <2>2
    <3>2. t \notin ToSet(c.ops[k + 1].out)
      BY <2>2, <3>1 DEF Settled
    <3>3. (k + 1) - 1 = k
      OBVIOUS
    <3>4. /\ DOMAIN g[1 .. k + 1] = ToSet(c.ops[k + 1].out) \cup DOMAIN g[1 .. k]
          /\ t \in DOMAIN g[1 .. k] => g[1 .. k + 1][t] = g[1 .. k][t]
      BY <3>1, <3>2, <3>3, RunStep
    <3>5. QED
      BY <3>1, <3>4
  <2>3. QED
    BY <1>1, <2>1, <2>2
<1>4. m \in T
  <2>1. m \in Nat
    BY <1>1
  <2> HIDE DEF T
  <2>2. QED
    BY <1>2, <1>3, <2>1, EveryNat
<1>5. QED
  BY <1>1, <1>4

LEMMA ValuesOf ==
  ASSUME NEW c, IsContext(c), OperandsDeclared(c), GraphOK(c), NEW b, DOMAIN b = Bindable(c)
  PROVE  LET W == Values(c, b)
         IN  /\ \A t \in Bindable(c) : W[t] = b[t]
             /\ \A i \in Positions(c) : \A t \in ToSet(c.ops[i].out) :
                  W[t] = Computed(c, c.ops[i], OutputIndex(c.ops[i], t), W)
<1> DEFINE W == Values(c, b)
           n == Len(c.ops)
<1>1. PICK g : Runs(c, b, g)
  BY ValuesRun
<1>2. n \in Nat /\ Positions(c) = 1 .. n /\ n \in 0 .. n
  BY ContextSeq
<1>3. W = g[1 .. n] /\ g[1 .. 0] = b
  BY <1>1 DEF Runs
<1> HIDE DEF W
<1>4. ASSUME NEW t \in Bindable(c), NEW m \in 0 .. n PROVE g[1 .. m][t] = b[t]
  <2>1. Settled(c, 0, t)
    BY DEF GraphOK, Bindable, Settled
  <2>2. t \in DOMAIN g[1 .. 0] /\ 0 \in 0 .. n
    BY <1>2, <1>3
  <2>3. QED
    BY <1>1, <1>3, <2>1, <2>2, ValueStays
<1>5. ASSUME NEW i \in Positions(c), NEW t \in ToSet(c.ops[i].out), NEW m \in i .. n
      PROVE  g[1 .. m][t] = g[1 .. i][t]
  <2>1. Settled(c, i, t)
    <3> SUFFICES ASSUME NEW j \in Positions(c), j > i PROVE t \notin ToSet(c.ops[j].out)
      BY DEF Settled
    <3>1. j # i
      BY <1>2
    <3>2. QED
      BY <3>1, <1>5 DEF GraphOK
  <2>2. i - 1 \in 0 .. n - 1 /\ (i - 1) + 1 = i /\ i \in 0 .. n
    BY <1>2
  <2>3. t \in DOMAIN g[1 .. i]
    BY <1>1, <1>5, RunStep
  <2>4. m \in i .. Len(c.ops) /\ i \in 0 .. Len(c.ops)
    BY <1>5, <2>2
  <2> HIDE DEF n
  <2>5. QED
    BY <1>1, <2>1, <2>3, <2>4, ValueStays
<1>6. ASSUME NEW i \in Positions(c), NEW t \in ToSet(c.ops[i].out)
      PROVE  W[t] = Computed(c, c.ops[i], OutputIndex(c.ops[i], t), W)
  <2> DEFINE o == c.ops[i]
             v == g[1 .. i - 1]
  <2>1. i - 1 \in 0 .. n - 1 /\ (i - 1) + 1 = i /\ n \in i .. n /\ i - 1 \in 0 .. n
    BY <1>2
  <2>2. g[1 .. i][t] = Computed(c, o, OutputIndex(o, t), v)
    BY <1>1, <1>6, RunStep
  <2>3. W[t] = g[1 .. i][t]
    BY <1>3, <1>5, <1>6, <2>1
  <2>4. W[t] = Computed(c, o, OutputIndex(o, t), v)
    BY <2>2, <2>3
  <2>5. ASSUME NEW u \in ToSet(o.in) PROVE v[u] = W[u]
    <3>1. CASE Is(c, u, "Input") \/ Is(c, u, "Constant")
      <4>1. u \in Bindable(c)
        BY <2>5, <3>1 DEF OperandsDeclared, Bindable
      <4>2. QED
        BY <1>2, <1>3, <1>4, <2>1, <4>1
    <3>2. ASSUME NEW j \in Positions(c), j < i, u \in ToSet(c.ops[j].out) PROVE v[u] = W[u]
      <4>1. i - 1 \in j .. n /\ n \in j .. n
        BY <1>2, <3>2
      <4>2. QED
        BY <1>3, <1>5, <3>2, <4>1
    <3>3. QED
      BY <2>5, <3>1, <3>2 DEF GraphOK
  <2>6. o.in \in Seq(Tensors) /\ o.out \in Seq(Tensors) /\ OutputIndex(o, t) \in DOMAIN o.out
    BY <1>6, ContextSeq, OutputIndexIs
  <2>7. \A x \in ToSet(o.in) \cup ToSet(o.out) : DType(c, x) = DType(c, x)
    OBVIOUS
  <2> HIDE DEF o, v
  <2>8. Computed(c, o, OutputIndex(o, t), v) = Computed(c, o, OutputIndex(o, t), W)
    BY <2>5, <2>6, <2>7, ComputedLocal
  <2>9. QED
    BY <2>4, <2>8 DEF o
<1>7. \A t \in Bindable(c) : W[t] = b[t]
  BY <1>2, <1>3, <1>4
<1>8. QED
  BY <1>6, <1>7 DEF W

-----------------------------------------------------------------------------
(* What a slice computes on the values the whole program has at its        *)
(* borders.                                                                *)
LEMMA SliceValues ==
  ASSUME NEW c, VerifiedContext(c), NEW at, NEW s, NEW f, SlicedAt(c, at, s, f)
  PROVE  LET whole == Values(c, Given(c))
             alone == Values(s, [t \in Bindable(s) |-> whole[t]])
         IN  \A t \in Declared(s) :
               t \in Bindable(s) \/ (\E j \in Positions(s) : t \in ToSet(s.ops[j].out))
               => alone[t] = whole[t]
<1> DEFINE whole == Values(c, Given(c))
           b == [t \in Bindable(s) |-> whole[t]]
           alone == Values(s, b)
<1>1. IsContext(c) /\ OperandsDeclared(c) /\ GraphOK(c)
  BY VerifiedIs
<1>2. IsContext(s) /\ OperandsDeclared(s) /\ GraphOK(s)
  BY <1>1, SlicedContext, SlicedGraph
<1>3. /\ Positions(s) = 1 .. Len(s.ops) /\ Len(s.ops) \in Nat
      /\ \A j \in Positions(s) : f[j] \in Positions(c) /\ s.ops[j] = c.ops[f[j]]
  BY <1>1, SlicedPositions
<1>4. DOMAIN Given(c) = Bindable(c) /\ DOMAIN b = Bindable(s)
  BY DEF Given, Bindable
<1>5. \A i \in Positions(c) : \A t \in ToSet(c.ops[i].out) :
        whole[t] = Computed(c, c.ops[i], OutputIndex(c.ops[i], t), whole)
  BY <1>1, <1>4, ValuesOf
<1> HIDE DEF whole
<1>6. /\ \A t \in Bindable(s) : alone[t] = b[t]
      /\ \A j \in Positions(s) : \A t \in ToSet(s.ops[j].out) :
           alone[t] = Computed(s, s.ops[j], OutputIndex(s.ops[j], t), alone)
  <2> HIDE DEF b
  <2>1. QED
    BY <1>2, <1>4, ValuesOf
<1>7. \A t \in Bindable(s) : alone[t] = whole[t]
  BY <1>6
<1> HIDE DEF alone, b
<1> DEFINE Agree(j) == \A t \in ToSet(s.ops[j].out) : alone[t] = whole[t]
           T == {k \in Nat : \A j \in Positions(s) : j <= k => Agree(j)}
<1>8. 0 \in T
  BY <1>3
<1>9. ASSUME NEW k \in Nat, k \in T PROVE k + 1 \in T
  <2> SUFFICES ASSUME NEW j \in Positions(s), j = k + 1, NEW t \in ToSet(s.ops[j].out)
               PROVE  alone[t] = whole[t]
    <3>1. \A j \in Positions(s) : j <= k + 1 => j <= k \/ j = k + 1
      BY <1>3
    <3>2. QED
      BY <1>9, <3>1
  <2> DEFINE o == s.ops[j]
  <2>1. ASSUME NEW u \in ToSet(o.in) PROVE alone[u] = whole[u]
    <3>1. CASE Is(s, u, "Input") \/ Is(s, u, "Constant")
      BY <1>2, <1>7, <2>1, <3>1 DEF OperandsDeclared, Bindable
    <3>2. ASSUME NEW i \in Positions(s), i < j, u \in ToSet(s.ops[i].out)
          PROVE  alone[u] = whole[u]
      <4>1. i <= k
        BY <1>3, <3>2
      <4>2. QED
        BY <1>9, <3>2, <4>1
    <3>3. QED
      BY <1>2, <2>1, <3>1, <3>2 DEF GraphOK
  <2>2. /\ o.in \in Seq(Tensors) /\ o.out \in Seq(Tensors) /\ OutputIndex(o, t) \in DOMAIN o.out
        /\ \A u \in ToSet(o.in) \cup ToSet(o.out) : DType(s, u) = DType(c, u)
    BY <1>2, ContextSeq, OutputIndexIs DEF OperandsDeclared, SlicedAt
  <2>3. alone[t] = Computed(s, o, OutputIndex(o, t), alone)
    BY <1>6
  <2>4. whole[t] = Computed(c, o, OutputIndex(o, t), whole)
    <3>1. f[j] \in Positions(c) /\ o = c.ops[f[j]]
      BY <1>3
    <3> HIDE DEF o
    <3>2. t \in ToSet(o.out)
      BY DEF o
    <3>3. QED
      BY <1>5, <3>1, <3>2
  <2> HIDE DEF o
  <2>5. Computed(s, o, OutputIndex(o, t), alone) = Computed(c, o, OutputIndex(o, t), whole)
    BY <2>1, <2>2, ComputedLocal
  <2>6. QED
    BY <2>3, <2>4, <2>5
<1>10. ASSUME NEW j \in Positions(s) PROVE Agree(j)
  <2>1. j \in T
    <3>1. j \in Nat
      BY <1>3
    <3> HIDE DEF T
    <3>2. QED
      BY <1>8, <1>9, <3>1, EveryNat
  <2>2. j <= j
    BY <1>3
  <2>3. QED
    BY <2>1, <2>2
<1>11. QED
  BY <1>7, <1>10 DEF whole, alone, b

(* Every range of operation ids of every verified program can be sliced    *)
(* out of it: the slice is a verified program, it computes what the whole  *)
(* program computes, and what the rest of the program needs of it is an    *)
(* output (compiler::slice_operations).                                    *)
THEOREM SlicesOfVerifiedPrograms ==
  ASSUME NEW c, VerifiedContext(c), NEW first \in Nat \ {0}, NEW last \in Nat, first <= last,
         Selected(c, first, last) # {}
  PROVE  Faithful(c, first, last)
<1> DEFINE s == SliceOperations(c, first, last)
           at == Selected(c, first, last)
           whole == Values(c, Given(c))
           alone == Values(s, [t \in Bindable(s) |-> whole[t]])
<1>1. IsContext(c) /\ OperandsDeclared(c) /\ GraphOK(c)
  BY VerifiedIs
<1>2. PICK f : SlicedAt(c, at, s, f)
  BY <1>1, SliceAt
<1> HIDE DEF s
<1>3. VerifiedContext(s) /\ GraphOK(s)
  BY <1>1, <1>2, SliceVerified, VerifiedIs
<1>4. ASSUME NEW t \in Declared(s), Is(s, t, "Output") PROVE alone[t] = whole[t]
  <2>1. t \in Bindable(s) \/ \E j \in Positions(s) : t \in ToSet(s.ops[j].out)
    BY <1>3, <1>4 DEF GraphOK, Bindable
  <2> HIDE DEF at
  <2>2. QED
    BY <1>2, <1>4, <2>1, SliceValues
<1>5. ASSUME NEW t \in Declared(s), Writes(c, t) \cap at # {},
             Reads(c, t) \ at # {} \/ Is(c, t, "Output")
      PROVE  Is(s, t, "Output")
  <2>1. PICK i \in Positions(c) : t \in ToSet(c.ops[i].out)
    BY <1>5 DEF Writes
  <2>2. ~Is(c, t, "Constant")
    BY <1>1, <2>1 DEF GraphOK
  <2>3. s.tensors[t].roles = SlicedRoles(c, at, t)
    BY <1>2, <1>5 DEF SlicedAt
  <2>4. QED
    BY <1>5, <2>2, <2>3 DEF SlicedRoles, Is
<1>6. QED
  BY <1>3, <1>4, <1>5 DEF Faithful, Bindable, s

(* Whatever the search is asked for, however its runs end and however deep *)
(* it goes: every range of ids of the program handed in, and of the        *)
(* program the search ends with, can be sliced out of it                   *)
(* (compiler::slice_operations on what opt::optimize returns).             *)
THEOREM SlicesKeepTheirValues == Spec => []SlicesAreFaithful
<1>1. ASSUME Inv PROVE SlicesAreFaithful
  <2> DEFINE w == IF phase = "done" THEN winner ELSE 1
             c == candidates[w].context
  <2> SUFFICES ASSUME HandedIn \/ (phase = "done" /\ winner # 1),
                      NEW i \in Positions(c), NEW j \in Positions(c), c.ops[i].id <= c.ops[j].id
               PROVE  Faithful(c, c.ops[i].id, c.ops[j].id)
    BY DEF SlicesAreFaithful
  <2>1. w \in 1 .. Len(candidates) /\ Accepted(candidates[w])
    <3>1. CASE phase = "done"
      BY <1>1, <3>1 DEF Inv, SInv, Chosen, WinnerIsBest
    <3>2. CASE phase # "done"
      <4>1. phase = "depth" /\ Len(candidates) \in Nat
        BY <1>1, <3>2 DEF HandedIn, Inv, SInv, Sound, IsSeq
      <4>2. QED
        BY <1>1, <3>2, <4>1 DEF Inv, SInv, BaselineSound
    <3>3. QED
      BY <3>1, <3>2
  <2>2. VerifiedContext(c)
    BY <1>1, <2>1 DEF Inv, SInv, Sound, CandidateSound
  <2> HIDE DEF c
  <2>3. IsContext(c)
    BY <2>2 DEF VerifiedContext
  <2>4. c.ops[i].id \in Nat \ {0} /\ c.ops[j].id \in Nat
    BY <2>3, ContextSeq
  <2>5. i \in Selected(c, c.ops[i].id, c.ops[j].id)
    BY <2>4 DEF Selected
  <2>6. QED
    BY <2>2, <2>4, <2>5, SlicesOfVerifiedPrograms
<1>2. Inv => SlicesAreFaithful
  BY <1>1
<1>3. QED
  BY <1>2, InvHolds, PTL

-----------------------------------------------------------------------------
(* The meaning of a program without its order.  In a field of the values,  *)
(* the exact or the real one, every operation is an equation between the   *)
(* tensors it reads and writes; V solves a program when it satisfies those *)
(* and has the given values where they are given.                          *)
Fields == {"exact", "real"}

Result(field, c, o, k, args) ==
  IF field = "exact"
  THEN ExactTerm(o.op, o.attr.implementation, k,
                 IF o.in = <<>> THEN 0 ELSE DType(c, o.in[1]), DType(c, o.out[k]), args)
  ELSE RealTerm(o.op, k, args)
Args(o, V) == [j \in DOMAIN o.in |-> V[o.in[j]]]
Law(field, c, o, V) == \A k \in DOMAIN o.out : V[o.out[k]] = Result(field, c, o, k, Args(o, V))
Solves(field, c, V) ==
  /\ \A t \in Bindable(c) : V[t] = Given(c)[t][field]
  /\ \A o \in ToSet(c.ops) : Law(field, c, o, V)

Results(c) == {t \in Declared(c) : Is(c, t, "Output")}

(* What solves c solves d; or does so with other values for tensors that   *)
(* are no outputs.                                                         *)
Carries(field, c, d) ==
  Results(d) = Results(c) /\ \A V : Solves(field, c, V) => Solves(field, d, V)
Follows(field, c, d) ==
  /\ Results(d) = Results(c)
  /\ \A V : Solves(field, c, V) =>
       \E W : Solves(field, d, W) /\ \A t \in Results(c) : W[t] = V[t]

LEMMA CarriesFollows ==
  ASSUME NEW field, NEW c, NEW d, Carries(field, c, d) PROVE Follows(field, c, d)
  BY DEF Carries, Follows

LEMMA CarriesOn ==
  ASSUME NEW field, NEW c, NEW d, NEW e, Carries(field, c, d), Carries(field, d, e)
  PROVE  Carries(field, c, e)
  BY DEF Carries

LEMMA FollowsOn ==
  ASSUME NEW field, NEW c, NEW d, NEW e, Follows(field, c, d), Follows(field, d, e)
  PROVE  Follows(field, c, e)
<1> SUFFICES ASSUME NEW V, Solves(field, c, V)
             PROVE  \E W : Solves(field, e, W) /\ \A t \in Results(c) : W[t] = V[t]
  BY DEF Follows
<1>1. PICK U : Solves(field, d, U) /\ \A t \in Results(c) : U[t] = V[t]
  BY DEF Follows
<1>2. PICK W : Solves(field, e, W) /\ \A t \in Results(d) : W[t] = U[t]
  BY <1>1 DEF Follows
<1>3. QED
  BY <1>1, <1>2 DEF Follows

LEMMA ResultOf ==
  ASSUME NEW field \in Fields, NEW c, NEW o, NEW k, NEW values
  PROVE  Computed(c, o, k, values)[field]
           = Result(field, c, o, k, [j \in DOMAIN o.in |-> values[o.in[j]][field]])
<1>1. CASE field = "exact"
  BY <1>1 DEF Computed, Result
<1>2. CASE field = "real"
  BY <1>2 DEF Computed, Result
<1>3. QED
  BY <1>1, <1>2 DEF Fields

(* An equation looks at the types and the values of its operands.          *)
LEMMA LawLocal ==
  ASSUME NEW field, NEW c, NEW d, NEW o, IsSeq(o.in), IsSeq(o.out), NEW V, NEW W,
         \A j \in DOMAIN o.in : DType(d, o.in[j]) = DType(c, o.in[j]) /\ W[o.in[j]] = V[o.in[j]],
         \A k \in DOMAIN o.out : DType(d, o.out[k]) = DType(c, o.out[k]) /\ W[o.out[k]] = V[o.out[k]],
         Law(field, c, o, V)
  PROVE  Law(field, d, o, W)
<1>1. Args(o, W) = Args(o, V)
  BY DEF Args
<1>2. o.in # <<>> => 1 \in DOMAIN o.in
  BY SeqIs DEF IsSeq
<1>3. (IF o.in = <<>> THEN 0 ELSE DType(d, o.in[1])) = (IF o.in = <<>> THEN 0 ELSE DType(c, o.in[1]))
  BY <1>2
<1>4. ASSUME NEW k \in DOMAIN o.out PROVE Result(field, d, o, k, Args(o, W)) = Result(field, c, o, k, Args(o, V))
  BY <1>1, <1>3 DEF Result
<1>5. QED
  BY <1>4 DEF Law

(* A verified program is solved by the values it computes, and by no       *)
(* others.                                                                 *)
LEMMA ValuesSolve ==
  ASSUME NEW field \in Fields, NEW c, VerifiedContext(c)
  PROVE  Solves(field, c, [t \in Declared(c) |-> Values(c, Given(c))[t][field]])
<1> DEFINE values == Values(c, Given(c))
           V == [t \in Declared(c) |-> values[t][field]]
<1>1. /\ IsContext(c) /\ OperandsDeclared(c) /\ GraphOK(c)
      /\ \A i \in Positions(c) : IsInjective(c.ops[i].out)
  BY VerifiedIs
<1>2. DOMAIN Given(c) = Bindable(c)
  BY DEF Given
<1>3. /\ \A t \in Bindable(c) : values[t] = Given(c)[t]
      /\ \A i \in Positions(c) : \A t \in ToSet(c.ops[i].out) :
           values[t] = Computed(c, c.ops[i], OutputIndex(c.ops[i], t), values)
  BY <1>1, <1>2, ValuesOf
<1> HIDE DEF values
<1>4. \A t \in Bindable(c) : V[t] = Given(c)[t][field]
  BY <1>3 DEF Bindable
<1>5. ASSUME NEW o \in ToSet(c.ops), NEW k \in DOMAIN o.out
      PROVE  V[o.out[k]] = Result(field, c, o, k, Args(o, V))
  <2>1. PICK i \in Positions(c) : o = c.ops[i]
    BY DEF ToSet, Positions
  <2>2. /\ IsInjective(o.out) /\ o.out[k] \in ToSet(o.out)
        /\ ToSet(o.in) \subseteq Declared(c) /\ ToSet(o.out) \subseteq Declared(c)
    BY <1>1, <1>5, <2>1 DEF OperandsDeclared, ToSet
  <2>3. OutputIndex(o, o.out[k]) = k
    BY <1>5, <2>2, OutputIndexIs DEF IsInjective
  <2>4. values[o.out[k]] = Computed(c, o, k, values)
    BY <1>3, <2>1, <2>2, <2>3
  <2>5. [j \in DOMAIN o.in |-> values[o.in[j]][field]] = Args(o, V)
    <3>1. \A j \in DOMAIN o.in : o.in[j] \in Declared(c)
      BY <2>2 DEF ToSet
    <3>2. QED
      BY <3>1 DEF Args
  <2>6. V[o.out[k]] = values[o.out[k]][field]
    BY <2>2
  <2> HIDE DEF V
  <2>7. QED
    BY <2>4, <2>5, <2>6, ResultOf
<1>6. QED
  BY <1>4, <1>5 DEF Solves, Law, values

LEMMA OnlySolution ==
  ASSUME NEW field \in Fields, NEW c, VerifiedContext(c), NEW V, Solves(field, c, V)
  PROVE  \A t \in Results(c) : Values(c, Given(c))[t][field] = V[t]
<1> DEFINE values == Values(c, Given(c))
<1>1. IsContext(c) /\ OperandsDeclared(c) /\ GraphOK(c)
  BY VerifiedIs
<1>2. DOMAIN Given(c) = Bindable(c)
  BY DEF Given
<1>3. /\ \A t \in Bindable(c) : values[t] = Given(c)[t]
      /\ \A i \in Positions(c) : \A t \in ToSet(c.ops[i].out) :
           values[t] = Computed(c, c.ops[i], OutputIndex(c.ops[i], t), values)
  BY <1>1, <1>2, ValuesOf
<1> HIDE DEF values
<1>4. \A t \in Bindable(c) : values[t][field] = V[t]
  BY <1>3 DEF Solves
<1>5. Positions(c) = 1 .. Len(c.ops) /\ Len(c.ops) \in Nat
  BY <1>1, ContextSeq
<1> DEFINE Agree(i) == \A t \in ToSet(c.ops[i].out) : values[t][field] = V[t]
           T == {k \in Nat : \A i \in Positions(c) : i <= k => Agree(i)}
<1>6. 0 \in T
  BY <1>5
<1>7. ASSUME NEW k \in Nat, k \in T PROVE k + 1 \in T
  <2> SUFFICES ASSUME NEW i \in Positions(c), i = k + 1, NEW t \in ToSet(c.ops[i].out)
               PROVE  values[t][field] = V[t]
    <3>1. \A i \in Positions(c) : i <= k + 1 => i <= k \/ i = k + 1
      BY <1>5
    <3>2. QED
      BY <1>7, <3>1
  <2> DEFINE o == c.ops[i]
             l == OutputIndex(o, t)
  <2>1. ASSUME NEW u \in ToSet(o.in) PROVE values[u][field] = V[u]
    <3>1. CASE Is(c, u, "Input") \/ Is(c, u, "Constant")
      BY <1>1, <1>4, <2>1, <3>1 DEF OperandsDeclared, Bindable
    <3>2. ASSUME NEW j \in Positions(c), j < i, u \in ToSet(c.ops[j].out)
          PROVE  values[u][field] = V[u]
      <4>1. j <= k
        BY <1>5, <3>2
      <4>2. QED
        BY <1>7, <3>2, <4>1
    <3>3. QED
      BY <1>1, <2>1, <3>1, <3>2 DEF GraphOK
  <2>2. values[t] = Computed(c, o, l, values)
    BY <1>3
  <2>3. l \in DOMAIN o.out /\ o.out[l] = t /\ o \in ToSet(c.ops)
    BY OutputIndexIs DEF ToSet, Positions
  <2> HIDE DEF l, o
  <2>4. V[t] = Result(field, c, o, l, Args(o, V))
    BY <2>3 DEF Solves, Law
  <2>5. [j \in DOMAIN o.in |-> values[o.in[j]][field]] = Args(o, V)
    <3>1. \A j \in DOMAIN o.in : o.in[j] \in ToSet(o.in)
      BY DEF ToSet
    <3>2. QED
      BY <2>1, <3>1 DEF Args
  <2>6. QED
    BY <2>2, <2>4, <2>5, ResultOf
<1>8. ASSUME NEW i \in Positions(c) PROVE Agree(i)
  <2>1. i \in T
    <3>1. i \in Nat
      BY <1>5
    <3> HIDE DEF T
    <3>2. QED
      BY <1>6, <1>7, <3>1, EveryNat
  <2>2. i <= i
    BY <1>5
  <2>3. QED
    BY <2>1, <2>2
<1>9. ASSUME NEW t \in Results(c)
      PROVE  t \in Bindable(c) \/ \E i \in Positions(c) : t \in ToSet(c.ops[i].out)
  BY <1>1 DEF Results, GraphOK, Bindable
<1>10. QED
  BY <1>4, <1>8, <1>9 DEF values

LEMMA FollowedMeaning ==
  ASSUME NEW field \in Fields, NEW c, VerifiedContext(c), NEW d, VerifiedContext(d),
         Follows(field, c, d)
  PROVE  /\ DOMAIN Meaning(d) = DOMAIN Meaning(c)
         /\ \A t \in DOMAIN Meaning(c) : Meaning(d)[t][field] = Meaning(c)[t][field]
<1> DEFINE V == [t \in Declared(c) |-> Values(c, Given(c))[t][field]]
<1>1. Solves(field, c, V)
  BY ValuesSolve
<1>2. \A t \in Results(c) : V[t] = Values(c, Given(c))[t][field]
  BY DEF Results
<1> HIDE DEF V
<1>3. PICK W : Solves(field, d, W) /\ \A t \in Results(c) : W[t] = V[t]
  BY <1>1 DEF Follows
<1>4. \A t \in Results(d) : Values(d, Given(d))[t][field] = W[t]
  BY <1>3, OnlySolution
<1>5. Results(d) = Results(c)
  BY DEF Follows
<1>6. /\ DOMAIN Meaning(c) = Results(c) /\ DOMAIN Meaning(d) = Results(d)
      /\ \A t \in Results(c) : Meaning(c)[t] = Values(c, Given(c))[t]
      /\ \A t \in Results(d) : Meaning(d)[t] = Values(d, Given(d))[t]
  BY DEF Meaning, Results
<1>7. QED
  BY <1>2, <1>3, <1>4, <1>5, <1>6

-----------------------------------------------------------------------------
(* What rewrites rely on, of a program that is not verified in the middle  *)
(* of a transform.  Inputs and constants are bound and different tensors.  *)
WellBound(c) == \A t \in Declared(c) : /\ ~(Is(c, t, "Input") /\ Is(c, t, "Constant"))
                                       /\ t \in Bindable(c) => t \in DOMAIN c.bindings

Shaped(o) ==
  /\ {"id", "op", "in", "out", "attr"} \subseteq DOMAIN o
  /\ {"implementation", "accumulator"} \subseteq DOMAIN o.attr
  /\ IsSeq(o.in) /\ IsSeq(o.out)
  /\ o.op = "Linear"  => Len(o.in) \in {2, 3} /\ Len(o.out) = 1
  /\ o.op \in {"Add", "BiasAdd"} => Len(o.in) = 2 /\ Len(o.out) = 1
  /\ o.op = "Cast"    => Len(o.in) = 1 /\ Len(o.out) = 1
  /\ o.op \in {"H3DeinterleaveQkv", "H3DeinterleaveQkvWeight"} => Len(o.in) = 1

SameType(c, o) == \E d : /\ \A j \in DOMAIN o.in : DType(c, o.in[j]) = d
                         /\ \A k \in DOMAIN o.out : DType(c, o.out[k]) = d
Uses(o, t) == (\E j \in DOMAIN o.in : o.in[j] = t) \/ (\E k \in DOMAIN o.out : o.out[k] = t)

Fits(c, o) ==
  /\ Shaped(o)
  /\ \A t : Uses(o, t) => t \in Declared(c)
  /\ o.op \in {"Linear", "BiasAdd", "H3DeinterleaveQkv"} => SameType(c, o)

ContextFields == {"ops", "tensors", "bindings", "distance", "ok"}
TensorFields  == {"dtype", "roles", "dims"}

Sane(c) ==
  /\ ContextFields \subseteq DOMAIN c
  /\ IsSeq(c.ops)
  /\ \E n \in Nat : Declared(c) \subseteq 1 .. n
  /\ \A t \in Declared(c) : TensorFields \subseteq DOMAIN c.tensors[t]
  /\ WellBound(c)
  /\ \A o \in ToSet(c.ops) : Fits(c, o)

(* d declares and binds like c; what it declares anew is a temporary.      *)
Extends(c, d) ==
  /\ ContextFields \subseteq DOMAIN d
  /\ \E n \in Nat : Declared(d) \subseteq 1 .. n
  /\ \A t \in Declared(d) : \/ t \in Declared(c) /\ d.tensors[t] = c.tensors[t]
                            \/ /\ t \notin Declared(c) /\ d.tensors[t].roles = {}
                               /\ TensorFields \subseteq DOMAIN d.tensors[t]
  /\ Results(c) \subseteq Declared(d)
  /\ \A t \in Declared(d) : t \in DOMAIN c.bindings =>
                               t \in DOMAIN d.bindings /\ d.bindings[t] = c.bindings[t]

LEMMA ExtendsAll ==
  ASSUME NEW c, Sane(c), NEW d, Extends(c, d)
  PROVE  /\ Results(d) = Results(c) /\ WellBound(d)
         /\ \A t \in Declared(d) : TensorFields \subseteq DOMAIN d.tensors[t]
         /\ \A t \in Bindable(d) : t \in Bindable(c) /\ Given(d)[t] = Given(c)[t]
<1>1. \A t \in Declared(d), role \in Roles : Is(d, t, role) => t \in Declared(c) /\ d.tensors[t] = c.tensors[t]
  BY DEF Extends, Is
<1>2. Results(d) = Results(c)
  BY <1>1 DEF Extends, Results, Is, Roles
<1>3. ASSUME NEW t \in Bindable(d)
      PROVE  /\ t \in Bindable(c) /\ t \in DOMAIN c.bindings /\ t \in DOMAIN d.bindings
             /\ d.bindings[t] = c.bindings[t]
             /\ Is(d, t, "Input") <=> Is(c, t, "Input")
  <2>1. t \in Declared(d) /\ t \in Declared(c) /\ d.tensors[t] = c.tensors[t]
    BY <1>1, <1>3 DEF Bindable, Roles
  <2>2. t \in Bindable(c)
    BY <1>3, <2>1 DEF Bindable, Is
  <2>3. QED
    BY <2>1, <2>2 DEF Extends, Sane, WellBound, Is
<1>4. \A t \in Bindable(d) : Given(d)[t] = Given(c)[t]
  BY <1>3 DEF Given
<1>5. WellBound(d)
  <2> SUFFICES ASSUME NEW t \in Declared(d)
               PROVE  ~(Is(d, t, "Input") /\ Is(d, t, "Constant"))
    BY <1>3 DEF WellBound
  <2>1. QED
    BY <1>1 DEF Sane, WellBound, Is, Roles
<1>6. QED
  BY <1>2, <1>3, <1>4, <1>5 DEF Extends, Sane

Typed(c, d) == \A t \in Declared(c) : t \in Declared(d) => DType(d, t) = DType(c, t)

LEMMA TypesKept == ASSUME NEW c, NEW d, Extends(c, d) PROVE Typed(c, d)
  BY DEF Extends, DType, Typed

LEMMA FitsStill ==
  ASSUME NEW c, NEW d, Typed(c, d), NEW o, Fits(c, o), \A t : Uses(o, t) => t \in Declared(d)
  PROVE  Fits(d, o)
<1>1. \A t : Uses(o, t) => DType(d, t) = DType(c, t)
  BY DEF Fits, Typed
<1>2. SameType(c, o) => SameType(d, o)
  BY <1>1 DEF SameType, Uses
<1>3. QED
  BY <1>2 DEF Fits

LEMMA LawStill ==
  ASSUME NEW field, NEW c, NEW d, Typed(c, d), NEW o, Fits(c, o),
         \A t : Uses(o, t) => t \in Declared(d),
         NEW V, NEW W, \A t \in Declared(c) : W[t] = V[t], Law(field, c, o, V)
  PROVE  Law(field, d, o, W)
<1>1. \A t : Uses(o, t) => DType(d, t) = DType(c, t) /\ W[t] = V[t]
  BY DEF Fits, Typed
<1>2. IsSeq(o.in) /\ IsSeq(o.out)
  BY DEF Fits, Shaped
<1>3. /\ \A j \in DOMAIN o.in : Uses(o, o.in[j])
      /\ \A k \in DOMAIN o.out : Uses(o, o.out[k])
  BY DEF Uses
<1>4. QED
  BY <1>1, <1>2, <1>3, LawLocal

(* A program of operations of another, and of others that fit and hold.    *)
LEMMA ExtendsSane ==
  ASSUME NEW c, Sane(c), NEW d, Extends(c, d), IsSeq(d.ops),
         \A o \in ToSet(d.ops) : Fits(d, o) \/ (o \in ToSet(c.ops) /\ \A t : Uses(o, t) => t \in Declared(d))
  PROVE  Sane(d) /\ Results(d) = Results(c)
<1>1. \A o \in ToSet(d.ops) : Fits(d, o)
  BY FitsStill, TypesKept DEF Sane
<1>2. QED
  BY <1>1, ExtendsAll DEF Sane, Extends

LEMMA ExtendsSolves ==
  ASSUME NEW c, Sane(c), NEW d, Extends(c, d), NEW field, NEW V, NEW W,
         \A t \in Declared(c) : W[t] = V[t], Solves(field, c, V),
         \A o \in ToSet(d.ops) : \/ Law(field, d, o, W)
                                 \/ o \in ToSet(c.ops) /\ \A t : Uses(o, t) => t \in Declared(d)
  PROVE  Solves(field, d, W)
<1>1. \A o \in ToSet(d.ops) : Law(field, d, o, W)
  BY LawStill, TypesKept DEF Sane, Solves
<1>2. ASSUME NEW t \in Bindable(d) PROVE W[t] = Given(d)[t][field]
  <2>1. t \in Bindable(c) /\ Given(d)[t] = Given(c)[t] /\ t \in Declared(c)
    BY ExtendsAll DEF Bindable
  <2>2. V[t] = Given(c)[t][field]
    BY <2>1 DEF Solves
  <2>3. QED
    BY <2>1, <2>2
<1>3. QED
  BY <1>1, <1>2 DEF Solves

(* Fewer operations.                                                       *)
LEMMA Fewer ==
  ASSUME NEW c, Sane(c), NEW d, Extends(c, d), IsSeq(d.ops), NEW field,
         \A o \in ToSet(d.ops) : o \in ToSet(c.ops) /\ \A t : Uses(o, t) => t \in Declared(d)
  PROVE  Sane(d) /\ Carries(field, c, d)
<1>1. Sane(d) /\ Results(d) = Results(c)
  BY ExtendsSane
<1>2. ASSUME NEW V, Solves(field, c, V) PROVE Solves(field, d, V)
  BY <1>2, ExtendsSolves
<1>3. QED
  BY <1>1, <1>2 DEF Carries

LEMMA OfIdsWithin ==
  ASSUME NEW ops, IsSeq(ops), NEW ids
  PROVE  /\ IsSeq(OfIds(ops, ids)) /\ ToSet(OfIds(ops, ids)) \subseteq ToSet(ops)
         /\ \A k \in DOMAIN OfIds(ops, ids) : OfIds(ops, ids)[k].id \in ids
<1> DEFINE kept == OfIds(ops, ids)
<1>1. PICK f : Order(ops, OfId(ops, ids), kept, f)
  BY OfIdsAre
<1> HIDE DEF kept
<1>2. /\ kept \in Seq(ToSet(ops)) /\ f \in [1 .. Len(kept) -> OfId(ops, ids)]
      /\ \A j \in 1 .. Len(kept) : kept[j] = ops[f[j]]
  BY <1>1 DEF Order
<1>3. Len(kept) \in Nat /\ kept = [j \in 1 .. Len(kept) |-> kept[j]] /\ DOMAIN kept = 1 .. Len(kept)
  BY <1>2
<1>4. ToSet(kept) \subseteq ToSet(ops)
  BY <1>2, <1>3 DEF ToSet
<1>5. \A k \in DOMAIN kept : kept[k].id \in ids
  BY <1>2, <1>3 DEF OfId
<1>6. QED
  BY <1>3, <1>4, <1>5 DEF IsSeq, kept

LEMMA SameDeclared ==
  ASSUME NEW c, Sane(c), NEW d, ContextFields \subseteq DOMAIN d, d.tensors = c.tensors,
         d.bindings = c.bindings
  PROVE  Extends(c, d) /\ Declared(d) = Declared(c)
  BY DEF Extends, Sane, Declared, Results

LEMMA EraseKeeps ==
  ASSUME NEW c, Sane(c), NEW ids, NEW field
  PROVE  /\ Sane(Erase(c, ids)) /\ Carries(field, c, Erase(c, ids))
         /\ Erase(c, ids).tensors = c.tensors /\ ToSet(Erase(c, ids).ops) \subseteq ToSet(c.ops)
<1> DEFINE d == Erase(c, ids)
<1>1. /\ DOMAIN d = DOMAIN c /\ d.tensors = c.tensors /\ d.bindings = c.bindings
      /\ d.ops = OfIds(c.ops, Ids(c.ops) \ ids)
  BY DEF Erase, Sane, ContextFields
<1>2. IsSeq(d.ops) /\ ToSet(d.ops) \subseteq ToSet(c.ops)
  BY <1>1, OfIdsWithin DEF Sane
<1> HIDE DEF d
<1>3. Extends(c, d) /\ Declared(d) = Declared(c)
  BY <1>1, SameDeclared DEF Sane
<1>4. \A o \in ToSet(d.ops) : o \in ToSet(c.ops) /\ \A t : Uses(o, t) => t \in Declared(d)
  BY <1>2, <1>3 DEF Sane, Fits
<1>5. QED
  BY <1>1, <1>2, <1>3, <1>4, Fewer DEF d

LEMMA IllegalKeeps ==
  ASSUME NEW c, Sane(c), NEW field
  PROVE  Sane(Illegal(c)) /\ Carries(field, c, Illegal(c))
<1> DEFINE d == Illegal(c)
<1>1. /\ DOMAIN d = DOMAIN c /\ d.tensors = c.tensors /\ d.bindings = c.bindings /\ d.ops = c.ops
  BY DEF Illegal, Sane, ContextFields
<1> HIDE DEF d
<1>3. Extends(c, d) /\ Declared(d) = Declared(c)
  BY <1>1, SameDeclared DEF Sane
<1>4. IsSeq(d.ops) /\ \A o \in ToSet(d.ops) : o \in ToSet(c.ops) /\ \A t : Uses(o, t) => t \in Declared(d)
  BY <1>1, <1>3 DEF Sane, Fits
<1>5. QED
  BY <1>3, <1>4, Fewer DEF d

LEMMA PruneIs ==
  ASSUME NEW c, Sane(c)
  PROVE  LET d == Prune(c)
         IN  /\ DOMAIN d = DOMAIN c /\ d.ops = c.ops
             /\ \A t \in Declared(d) : t \in Declared(c) /\ d.tensors[t] = c.tensors[t]
             /\ \A t \in Declared(c) : Is(c, t, "Output") \/ Reads(c, t) \cup Writes(c, t) # {}
                                         => t \in Declared(d)
             /\ \A t \in Declared(d) : t \in DOMAIN c.bindings =>
                  t \in DOMAIN d.bindings /\ d.bindings[t] = c.bindings[t]
<1> DEFINE kept == {t \in Declared(c) : \/ Is(c, t, "Input") \/ Is(c, t, "Output")
                                         \/ Reads(c, t) \cup Writes(c, t) # {}}
           d == Prune(c)
<1>1. d = [c EXCEPT !.tensors = [t \in DOMAIN c.tensors \ (Declared(c) \ kept) |-> c.tensors[t]],
                    !.bindings = [t \in DOMAIN c.bindings \ (Declared(c) \ kept) |-> c.bindings[t]]]
  BY DEF Prune
<1>2. /\ DOMAIN d = DOMAIN c /\ d.ops = c.ops
      /\ d.tensors = [t \in DOMAIN c.tensors \ (Declared(c) \ kept) |-> c.tensors[t]]
      /\ d.bindings = [t \in DOMAIN c.bindings \ (Declared(c) \ kept) |-> c.bindings[t]]
  BY <1>1 DEF Sane, ContextFields
<1>3. Declared(c) = DOMAIN c.tensors /\ kept \subseteq Declared(c)
  BY DEF Declared
<1> HIDE DEF d
<1>4. Declared(d) = kept
  BY <1>2, <1>3 DEF Declared
<1>5. QED
  BY <1>2, <1>3, <1>4 DEF d

LEMMA PruneKeeps ==
  ASSUME NEW c, Sane(c), NEW field
  PROVE  /\ Sane(Prune(c)) /\ Carries(field, c, Prune(c)) /\ Prune(c).ops = c.ops
         /\ \A t \in Declared(Prune(c)) : t \in Declared(c) /\ Prune(c).tensors[t] = c.tensors[t]
<1> DEFINE d == Prune(c)
<1>1. /\ DOMAIN d = DOMAIN c /\ d.ops = c.ops
      /\ \A t \in Declared(d) : t \in Declared(c) /\ d.tensors[t] = c.tensors[t]
      /\ \A t \in Declared(c) : Is(c, t, "Output") \/ Reads(c, t) \cup Writes(c, t) # {}
                                         => t \in Declared(d)
      /\ \A t \in Declared(d) : t \in DOMAIN c.bindings =>
                  t \in DOMAIN d.bindings /\ d.bindings[t] = c.bindings[t]
  BY PruneIs
<1> HIDE DEF d
<1>2. Extends(c, d)
  <2>1. PICK n \in Nat : Declared(c) \subseteq 1 .. n
    BY DEF Sane
  <2>2. Declared(d) \subseteq 1 .. n
    BY <1>1, <2>1
  <2>3. Results(c) \subseteq Declared(d)
    BY <1>1 DEF Results
  <2>4. QED
    BY <1>1, <2>2, <2>3 DEF Extends, Sane
<1>3. ASSUME NEW o \in ToSet(d.ops), NEW t, Uses(o, t) PROVE t \in Declared(d)
  <2>1. o \in ToSet(c.ops) /\ t \in Declared(c)
    BY <1>1, <1>3 DEF Sane, Fits
  <2>2. PICK i \in Positions(c) : o = c.ops[i]
    BY <2>1 DEF ToSet, Positions
  <2>3. i \in Reads(c, t) \cup Writes(c, t)
    BY <1>3, <2>2 DEF Uses, Reads, Writes, ToSet
  <2>4. QED
    BY <1>1, <2>1, <2>3
<1>4. QED
  BY <1>1, <1>2, <1>3, Fewer DEF d, Sane

-----------------------------------------------------------------------------
(* Sequences of operations.                                                *)
LEMMA MinIs ==
  ASSUME NEW S, S \subseteq Nat, S # {} PROVE Min(S) \in S
<1>1. PICK m \in S : \A k \in S : ~(<<k, m>> \in OpToRel(<, Nat))
  BY WFMin, NatLessThanWellFounded
<1> DEFINE Least(x) == \A k \in S : x <= k
<1>2. m \in S /\ Least(m)
  <2>1. \A k \in S : ~(k < m)
    BY <1>1 DEF OpToRel
  <2>2. QED
    BY <2>1
<1>3. Min(S) = CHOOSE x \in S : Least(x)
  BY DEF Min
<1> HIDE DEF Least
<1>4. QED
  BY <1>2, <1>3

LEMMA JoinedIs ==
  ASSUME NEW s, IsSeq(s), NEW u, IsSeq(u)
  PROVE  IsSeq(s \o u) /\ ToSet(s \o u) = ToSet(s) \cup ToSet(u)
<1> DEFINE S == ToSet(s) \cup ToSet(u)
           w == s \o u
<1>1. s \in Seq(S) /\ u \in Seq(S)
  BY SeqIs DEF IsSeq, ToSet
<1> HIDE DEF S
<1>2. w \in Seq(S) /\ ToSet(w) = ToSet(s) \cup ToSet(u)
  BY <1>1, Concatenated
<1> HIDE DEF w
<1>3. Len(w) \in Nat /\ w = [i \in 1 .. Len(w) |-> w[i]]
  BY <1>2
<1>4. QED
  BY <1>2, <1>3 DEF IsSeq, w

LEMMA PartIs ==
  ASSUME NEW s, IsSeq(s), NEW m \in 1 .. Len(s) + 1, NEW n \in 0 .. Len(s)
  PROVE  IsSeq(SubSeq(s, m, n)) /\ ToSet(SubSeq(s, m, n)) \subseteq ToSet(s)
<1> DEFINE S == ToSet(s)
           w == SubSeq(s, m, n)
<1>1. s \in Seq(S) /\ Len(s) \in Nat /\ DOMAIN s = 1 .. Len(s)
  BY SeqIs DEF IsSeq, ToSet
<1>2. \A i \in 1 .. Len(s) : s[i] \in S
  BY <1>1 DEF ToSet
<1> HIDE DEF S
<1>3. w \in Seq(S)
  BY <1>1, <1>2
<1> HIDE DEF w
<1>4. IsSeq(w) /\ DOMAIN w = 1 .. Len(w) /\ \A i \in 1 .. Len(w) : w[i] \in S
  BY <1>3 DEF IsSeq
<1>5. QED
  BY <1>4 DEF ToSet, S, w

LEMMA OneIs == ASSUME NEW x PROVE IsSeq(<<x>>) /\ Len(<<x>>) = 1 /\ DOMAIN <<x>> = {1} /\ ToSet(<<x>>) = {x}
  BY DEF IsSeq, ToSet

LEMMA TwoIs ==
  ASSUME NEW x, NEW y
  PROVE  /\ IsSeq(<<x, y>>) /\ Len(<<x, y>>) = 2 /\ DOMAIN <<x, y>> = {1, 2}
         /\ ToSet(<<x, y>>) = {x, y}
  BY DEF IsSeq, ToSet

LEMMA ReplaceIs ==
  ASSUME NEW c, Sane(c), NEW at \in Positions(c), NEW new, IsSeq(new)
  PROVE  LET d == Replace(c, at, new)
         IN  /\ DOMAIN d = DOMAIN c /\ d.tensors = c.tensors /\ d.bindings = c.bindings
             /\ IsSeq(d.ops) /\ ToSet(d.ops) \subseteq ToSet(c.ops) \cup ToSet(new)
<1> DEFINE d == Replace(c, at, new)
           n == Len(c.ops)
           before == SubSeq(c.ops, 1, at - 1)
           after == SubSeq(c.ops, at + 1, n)
<1>1. /\ DOMAIN d = DOMAIN c /\ d.tensors = c.tensors /\ d.bindings = c.bindings
      /\ d.ops = before \o new \o after
  BY DEF Replace, Sane, ContextFields
<1>2. IsSeq(c.ops) /\ n \in Nat /\ at \in 1 .. n
  BY SeqIs DEF Sane, Positions, IsSeq
<1>3. 1 \in 1 .. n + 1 /\ at - 1 \in 0 .. n /\ at + 1 \in 1 .. n + 1 /\ n \in 0 .. n
  BY <1>2
<1>4. /\ IsSeq(before) /\ ToSet(before) \subseteq ToSet(c.ops)
      /\ IsSeq(after) /\ ToSet(after) \subseteq ToSet(c.ops)
  BY <1>2, <1>3, PartIs
<1> HIDE DEF d, before, after
<1>5. IsSeq(before \o new) /\ ToSet(before \o new) = ToSet(before) \cup ToSet(new)
  BY <1>4, JoinedIs
<1>6. IsSeq(d.ops) /\ ToSet(d.ops) = ToSet(before) \cup ToSet(new) \cup ToSet(after)
  BY <1>1, <1>4, <1>5, JoinedIs
<1>7. QED
  BY <1>1, <1>4, <1>6 DEF d

LEMMA ReplaceKeeps ==
  ASSUME NEW c, Sane(c), NEW at \in Positions(c), NEW new, IsSeq(new),
         \A o \in ToSet(new) : Fits(c, o)
  PROVE  LET d == Replace(c, at, new)
         IN  /\ Sane(d) /\ Results(d) = Results(c) /\ d.tensors = c.tensors
             /\ \A field, V : Solves(field, c, V) /\ (\A o \in ToSet(new) : Law(field, c, o, V))
                                => Solves(field, d, V)
<1> DEFINE d == Replace(c, at, new)
<1>1. /\ DOMAIN d = DOMAIN c /\ d.tensors = c.tensors /\ d.bindings = c.bindings
      /\ IsSeq(d.ops) /\ ToSet(d.ops) \subseteq ToSet(c.ops) \cup ToSet(new)
  BY ReplaceIs
<1> HIDE DEF d
<1>2. Extends(c, d) /\ Declared(d) = Declared(c)
  BY <1>1, SameDeclared DEF Sane
<1>3. \A o \in ToSet(c.ops) \cup ToSet(new) : Fits(c, o) /\ \A t : Uses(o, t) => t \in Declared(d)
  BY <1>2 DEF Sane, Fits
<1>4. \A o \in ToSet(d.ops) : Fits(d, o)
  BY <1>1, <1>2, <1>3, FitsStill, TypesKept
<1>5. Sane(d) /\ Results(d) = Results(c)
  BY <1>1, <1>2, <1>4, ExtendsSane
<1>6. ASSUME NEW field, NEW V, Solves(field, c, V), \A o \in ToSet(new) : Law(field, c, o, V)
      PROVE  Solves(field, d, V)
  <2>1. \A o \in ToSet(d.ops) : Law(field, d, o, V)
    <3>1. \A o \in ToSet(c.ops) \cup ToSet(new) : Law(field, c, o, V)
      BY <1>6 DEF Solves
    <3>2. QED
      BY <1>1, <1>2, <1>3, <3>1, LawStill, TypesKept
  <2>2. QED
    BY <1>2, <1>6, <2>1, ExtendsSolves
<1>7. QED
  BY <1>1, <1>5, <1>6 DEF d

(* New temporaries, in the first identifiers that are free.                *)
LEMMA DeclareKeeps ==
  ASSUME NEW c, Sane(c), Declared(c) # {}, NEW new, IsSeq(new),
         \A k \in 1 .. Len(new) : TensorFields \subseteq DOMAIN new[k] /\ new[k].roles = {}
  PROVE  LET d == Declare(c, new)
         IN  /\ FreshTensor(c) \in Nat
             /\ Sane(d) /\ Extends(c, d) /\ Results(d) = Results(c) /\ d.ops = c.ops
             /\ Declared(c) \subseteq Declared(d)
             /\ \A k \in 1 .. Len(new) : \A t : t = FreshTensor(c) + k - 1 =>
                  t \in Declared(d) /\ t \notin Declared(c) /\ d.tensors[t] = new[k]
             /\ \A field, V, W : Solves(field, c, V) /\ (\A t \in Declared(c) : W[t] = V[t])
                                   => Solves(field, d, W)
<1> DEFINE d == Declare(c, new)
           first == FreshTensor(c)
           m == Len(new)
           D == DOMAIN c.tensors
<1>1. PICK n \in Nat : D \subseteq 1 .. n
  BY DEF Sane, Declared
<1>2. Max(D) \in D /\ \A t \in D : t <= Max(D)
  BY <1>1, MaxExists DEF Declared
<1>3. first = Max(D) + 1
  BY DEF FreshTensor, Declared
<1>4. first \in Nat /\ first >= 1 /\ \A t \in D : t < first
  BY <1>1, <1>2, <1>3
<1> HIDE DEF first
<1>m. m \in Nat
  BY DEF IsSeq
<1>5. /\ DOMAIN d = DOMAIN c /\ d.ops = c.ops /\ d.bindings = c.bindings
      /\ d.tensors = [t \in D \cup (first .. first + m - 1) |->
                        IF t \in D THEN c.tensors[t] ELSE new[t - first + 1]]
  BY DEF Declare, Sane, ContextFields, first
<1> HIDE DEF d
<1>6. Declared(d) = D \cup (first .. first + m - 1) /\ Declared(c) = D
  BY <1>5 DEF Declared
<1>7. \A t \in D : d.tensors[t] = c.tensors[t]
  BY <1>5
<1>8. ASSUME NEW k \in 1 .. m, NEW t, t = first + k - 1
      PROVE  t \in Declared(d) /\ t \notin D /\ d.tensors[t] = new[k]
  <2>1. t \in first .. first + m - 1 /\ t \notin D /\ t - first + 1 = k
    BY <1>4, <1>8, <1>m
  <2>2. d.tensors[t] = new[t - first + 1]
    BY <1>5, <2>1
  <2>3. QED
    BY <1>6, <2>1, <2>2
<1>9. ASSUME NEW t \in Declared(d), t \notin D
      PROVE  d.tensors[t].roles = {} /\ TensorFields \subseteq DOMAIN d.tensors[t]
  <2>1. t \in first .. first + m - 1
    BY <1>6, <1>9
  <2>2. t - first + 1 \in 1 .. m /\ t = first + (t - first + 1) - 1
    BY <1>4, <1>m, <2>1
  <2>3. d.tensors[t] = new[t - first + 1]
    BY <1>8, <2>2
  <2>4. QED
    BY <2>2, <2>3
<1>10. Extends(c, d)
  <2>1. Declared(d) \subseteq 1 .. n + first + m
    BY <1>1, <1>4, <1>6, <1>m
  <2>2. n + first + m \in Nat
    BY <1>4, <1>m
  <2>3. Results(c) \subseteq Declared(d)
    BY <1>6 DEF Results
  <2> HIDE DEF m, D
  <2>4. QED
    BY <1>5, <1>6, <1>7, <1>9, <2>1, <2>2, <2>3 DEF Extends, Sane
<1>11. \A o \in ToSet(d.ops) : o \in ToSet(c.ops) /\ \A t : Uses(o, t) => t \in Declared(d)
  BY <1>5, <1>6 DEF Sane, Fits
<1>12. Sane(d) /\ Results(d) = Results(c)
  BY <1>5, <1>10, <1>11, ExtendsSane DEF Sane
<1>13. ASSUME NEW field, NEW V, NEW W, Solves(field, c, V), \A t \in Declared(c) : W[t] = V[t]
       PROVE  Solves(field, d, W)
  BY <1>10, <1>11, <1>13, ExtendsSolves
<1>14. QED
  BY <1>4, <1>5, <1>6, <1>8, <1>10, <1>12, <1>13 DEF d, first

(* One tensor read in the place of another of the same type.               *)
Stand(c, from, to) ==
  /\ DOMAIN from \subseteq DOMAIN to
  /\ \A j \in DOMAIN from : to[j] \in Declared(c) /\ DType(c, to[j]) = DType(c, from[j])

LEMMA RenamedIs ==
  ASSUME NEW o, Shaped(o), NEW from, NEW to
  PROVE  LET r == Renamed(o, from, to)
         IN  /\ DOMAIN r = DOMAIN o /\ r.op = o.op /\ r.attr = o.attr /\ r.out = o.out /\ r.id = o.id
             /\ IsSeq(r.in) /\ Len(r.in) = Len(o.in) /\ DOMAIN r.in = DOMAIN o.in
             /\ \A k \in DOMAIN o.in : \/ r.in[k] = o.in[k]
                                       \/ \E j \in DOMAIN from : from[j] = o.in[k] /\ r.in[k] = to[j]
<1> DEFINE other(t) == IF t \in ToSet(from) THEN to[CHOOSE j \in DOMAIN from : from[j] = t] ELSE t
           in == [k \in DOMAIN o.in |-> other(o.in[k])]
           r == Renamed(o, from, to)
<1>1. DOMAIN r = DOMAIN o /\ r.op = o.op /\ r.attr = o.attr /\ r.out = o.out /\ r.id = o.id /\ r.in = in
  BY DEF Renamed, Shaped
<1>2. Len(o.in) \in Nat /\ DOMAIN o.in = 1 .. Len(o.in)
  BY SeqIs DEF Shaped, IsSeq
<1>3. IsSeq(in) /\ Len(in) = Len(o.in) /\ DOMAIN in = DOMAIN o.in
  BY <1>2, SeqBuilt
<1>4. \A t : other(t) = t \/ \E j \in DOMAIN from : from[j] = t /\ other(t) = to[j]
  BY DEF ToSet
<1>5. \A k \in DOMAIN o.in : in[k] = other(o.in[k])
  OBVIOUS
<1> HIDE DEF in, r, other
<1>6. QED
  BY <1>1, <1>3, <1>4, <1>5 DEF r

LEMMA RenamedKeeps ==
  ASSUME NEW c, NEW o, Fits(c, o), NEW from, NEW to, Stand(c, from, to)
  PROVE  LET r == Renamed(o, from, to)
         IN  /\ Fits(c, r)
             /\ \A field, V : Law(field, c, o, V) /\ (\A j \in DOMAIN from : V[to[j]] = V[from[j]])
                                => Law(field, c, r, V)
<1> DEFINE r == Renamed(o, from, to)
<1>1. /\ DOMAIN r = DOMAIN o /\ r.op = o.op /\ r.attr = o.attr /\ r.out = o.out /\ r.id = o.id
      /\ IsSeq(r.in) /\ Len(r.in) = Len(o.in) /\ DOMAIN r.in = DOMAIN o.in
      /\ \A k \in DOMAIN o.in : \/ r.in[k] = o.in[k]
                                \/ \E j \in DOMAIN from : from[j] = o.in[k] /\ r.in[k] = to[j]
  BY RenamedIs DEF Fits
<1> HIDE DEF r
<1>2. Shaped(r)
  BY <1>1 DEF Fits, Shaped
<1>3. \A k \in DOMAIN o.in : DType(c, r.in[k]) = DType(c, o.in[k]) /\ r.in[k] \in Declared(c)
  BY <1>1 DEF Stand, Fits, Uses
<1>4. \A t : Uses(r, t) => t \in Declared(c)
  <2>1. \A k \in DOMAIN r.out : Uses(o, r.out[k])
    BY <1>1 DEF Uses
  <2>2. QED
    BY <1>1, <1>3, <2>1 DEF Fits, Uses
<1>5. SameType(c, o) => SameType(c, r)
  BY <1>1, <1>3 DEF SameType
<1>6. ASSUME NEW field, NEW V, Law(field, c, o, V), \A j \in DOMAIN from : V[to[j]] = V[from[j]]
      PROVE  Law(field, c, r, V)
  <2>1. \A k \in DOMAIN o.in : V[r.in[k]] = V[o.in[k]]
    BY <1>1, <1>6
  <2>2. Args(r, V) = Args(o, V)
    BY <1>1, <2>1 DEF Args
  <2>3. (r.in = <<>>) = (o.in = <<>>) /\ (o.in # <<>> => 1 \in DOMAIN o.in)
    <3>1. o.in = <<>> <=> Len(o.in) = 0
      BY SeqIs DEF Fits, Shaped, IsSeq
    <3>2. r.in = <<>> <=> Len(r.in) = 0
      BY <1>1, SeqIs DEF IsSeq
    <3>3. o.in # <<>> => 1 \in DOMAIN o.in
      BY SeqIs DEF Fits, Shaped, IsSeq
    <3>4. QED
      BY <1>1, <3>1, <3>2, <3>3
  <2>4. (IF r.in = <<>> THEN 0 ELSE DType(c, r.in[1])) = (IF o.in = <<>> THEN 0 ELSE DType(c, o.in[1]))
    BY <1>3, <2>3
  <2>5. \A k \in DOMAIN o.out : Result(field, c, r, k, Args(r, V)) = Result(field, c, o, k, Args(o, V))
    BY <1>1, <2>2, <2>4 DEF Result
  <2>6. QED
    BY <1>1, <1>6, <2>5 DEF Law
<1>7. Fits(c, r)
  BY <1>1, <1>2, <1>4, <1>5 DEF Fits
<1>8. QED
  BY <1>6, <1>7 DEF r

LEMMA SubstituteKeeps ==
  ASSUME NEW c, Sane(c), NEW from, NEW to, Stand(c, from, to)
  PROVE  LET d == Substitute(c, from, to)
         IN  /\ Sane(d) /\ Results(d) = Results(c) /\ d.tensors = c.tensors
             /\ DOMAIN d.ops = DOMAIN c.ops
             /\ \A i \in DOMAIN c.ops : d.ops[i] = Renamed(c.ops[i], from, to)
             /\ \A field, V : Solves(field, c, V) /\ (\A j \in DOMAIN from : V[to[j]] = V[from[j]])
                                => Solves(field, d, V)
<1> DEFINE d == Substitute(c, from, to)
<1>1. /\ DOMAIN d = DOMAIN c /\ d.tensors = c.tensors /\ d.bindings = c.bindings
      /\ d.ops = [i \in DOMAIN c.ops |-> Renamed(c.ops[i], from, to)]
  BY DEF Substitute, Sane, ContextFields
<1> HIDE DEF d
<1>2. Extends(c, d) /\ Declared(d) = Declared(c)
  BY <1>1, SameDeclared DEF Sane
<1>3. IsSeq(d.ops) /\ DOMAIN d.ops = DOMAIN c.ops
  <2>1. Len(c.ops) \in Nat /\ DOMAIN c.ops = 1 .. Len(c.ops)
    BY SeqIs DEF Sane, IsSeq
  <2>2. QED
    BY <1>1, <2>1, SeqBuilt
<1>4. ASSUME NEW o \in ToSet(d.ops)
      PROVE  \E p \in ToSet(c.ops) : o = Renamed(p, from, to) /\ Fits(c, p)
  BY <1>1 DEF ToSet, Sane
<1>5. \A o \in ToSet(d.ops) : Fits(c, o)
  BY <1>4, RenamedKeeps
<1>6. \A o \in ToSet(d.ops) : Fits(d, o) /\ \A t : Uses(o, t) => t \in Declared(d)
  BY <1>2, <1>5, FitsStill, TypesKept DEF Fits
<1>7. Sane(d) /\ Results(d) = Results(c)
  BY <1>2, <1>3, <1>6, ExtendsSane
<1>8. ASSUME NEW field, NEW V, Solves(field, c, V), \A j \in DOMAIN from : V[to[j]] = V[from[j]]
      PROVE  Solves(field, d, V)
  <2>1. \A o \in ToSet(d.ops) : Law(field, c, o, V)
    BY <1>4, <1>8, RenamedKeeps DEF Solves
  <2>2. \A o \in ToSet(d.ops) : Law(field, d, o, V)
    BY <1>2, <1>5, <1>6, <2>1, LawStill, TypesKept
  <2>3. QED
    BY <1>2, <1>8, <2>2, ExtendsSolves
<1>9. \A i \in DOMAIN c.ops : d.ops[i] = Renamed(c.ops[i], from, to)
  BY <1>1
<1>10. QED
  BY <1>1, <1>3, <1>7, <1>8, <1>9 DEF d

-----------------------------------------------------------------------------
(* Places of a program.                                                    *)
LEMMA AtIs ==
  ASSUME NEW c, NEW id, Has(c, id)
  PROVE  /\ At(c, id) \in Positions(c) /\ c.ops[At(c, id)].id = id
         /\ c.ops[At(c, id)] \in ToSet(c.ops)
  BY DEF Has, At, ToSet, Positions

LEMMA WriterIs ==
  ASSUME NEW c, NEW t, Writes(c, t) # {}
  PROVE  LET w == c.ops[Writer(c, t)]
         IN  /\ Writer(c, t) \in Positions(c) /\ w \in ToSet(c.ops)
             /\ \E k \in DOMAIN w.out : w.out[k] = t
<1>1. Writer(c, t) \in Writes(c, t)
  BY DEF Writer
<1>2. QED
  BY <1>1 DEF Writes, ToSet, Positions

LEMMA ReaderIs ==
  ASSUME NEW c, NEW t, Cardinality(Reads(c, t)) = 1
  PROVE  OnlyReader(c, t) \in Positions(c) /\ c.ops[OnlyReader(c, t)] \in ToSet(c.ops)
<1>1. Reads(c, t) # {}
  BY FS_EmptySet
<1>2. OnlyReader(c, t) \in Reads(c, t)
  BY <1>1 DEF OnlyReader
<1>3. QED
  BY <1>2 DEF Reads, ToSet, Positions

(* An operation of a program: what it uses is declared.                    *)
LEMMA OperationFits ==
  ASSUME NEW c, Sane(c), NEW o \in ToSet(c.ops)
  PROVE  /\ Fits(c, o) /\ Shaped(o)
         /\ Len(o.in) \in Nat /\ DOMAIN o.in = 1 .. Len(o.in)
         /\ Len(o.out) \in Nat /\ DOMAIN o.out = 1 .. Len(o.out)
         /\ \A j \in DOMAIN o.in : o.in[j] \in Declared(c)
         /\ \A k \in DOMAIN o.out : o.out[k] \in Declared(c)
<1>1. Fits(c, o)
  BY DEF Sane
<1>2. QED
  BY <1>1, SeqIs DEF Fits, Shaped, Uses, IsSeq

(* Erasing operations and the declarations they leave unused.              *)
LEMMA TidyKeeps ==
  ASSUME NEW c, Sane(c), NEW ids, NEW field
  PROVE  LET d == Prune(Erase(c, ids))
         IN  /\ Sane(d) /\ Carries(field, c, d) /\ ToSet(d.ops) \subseteq ToSet(c.ops)
             /\ \A t \in Declared(d) : t \in Declared(c) /\ d.tensors[t] = c.tensors[t]
<1> DEFINE e == Erase(c, ids)
           d == Prune(e)
<1>1. /\ Sane(e) /\ Carries(field, c, e) /\ e.tensors = c.tensors /\ ToSet(e.ops) \subseteq ToSet(c.ops)
  BY EraseKeeps
<1> HIDE DEF e
<1>2. /\ Sane(d) /\ Carries(field, e, d) /\ d.ops = e.ops
      /\ \A t \in Declared(d) : t \in Declared(e) /\ d.tensors[t] = e.tensors[t]
  BY <1>1, PruneKeeps
<1> HIDE DEF d
<1>3. QED
  BY <1>1, <1>2, CarriesOn DEF d, e, Declared

(* An operation replaced by others, on new temporaries, that compute what  *)
(* it computed.                                                            *)
LEMMA RewriteKeeps ==
  ASSUME NEW c, Sane(c), Declared(c) # {}, NEW new, IsSeq(new),
         \A k \in 1 .. Len(new) : TensorFields \subseteq DOMAIN new[k] /\ new[k].roles = {},
         NEW at \in Positions(c), NEW ops, IsSeq(ops),
         \A o \in ToSet(ops) : Fits(Declare(c, new), o)
  PROVE  LET d == Replace(Declare(c, new), at, ops)
         IN  /\ Sane(d) /\ Results(d) = Results(c) /\ Declared(d) = Declared(Declare(c, new))
             /\ \A field :
                  (\A V : Solves(field, c, V) =>
                     \E W : /\ \A t \in Declared(c) : W[t] = V[t]
                            /\ \A o \in ToSet(ops) : Law(field, Declare(c, new), o, W))
                  => Follows(field, c, d)
<1> DEFINE e == Declare(c, new)
           d == Replace(e, at, ops)
<1>1. /\ Sane(e) /\ Results(e) = Results(c) /\ e.ops = c.ops
      /\ \A field, V, W : Solves(field, c, V) /\ (\A t \in Declared(c) : W[t] = V[t])
                            => Solves(field, e, W)
  BY DeclareKeeps
<1> HIDE DEF e
<1>2. at \in Positions(e)
  BY <1>1 DEF Positions
<1>3. \A o \in ToSet(ops) : Fits(e, o)
  BY DEF e
<1>4. /\ Sane(d) /\ Results(d) = Results(e) /\ d.tensors = e.tensors
      /\ \A field, V : Solves(field, e, V) /\ (\A o \in ToSet(ops) : Law(field, e, o, V))
                         => Solves(field, d, V)
  BY <1>1, <1>2, <1>3, ReplaceKeeps
<1> HIDE DEF d
<1>5. ASSUME NEW field,
             \A V : Solves(field, c, V) =>
                     \E W : /\ \A t \in Declared(c) : W[t] = V[t]
                            /\ \A o \in ToSet(ops) : Law(field, e, o, W)
      PROVE  Follows(field, c, d)
  <2>1. ASSUME NEW V, Solves(field, c, V)
        PROVE  \E W : Solves(field, d, W) /\ \A t \in Results(c) : W[t] = V[t]
    <3>1. PICK W : /\ \A t \in Declared(c) : W[t] = V[t]
                   /\ \A o \in ToSet(ops) : Law(field, e, o, W)
      BY <1>5, <2>1
    <3>2. Solves(field, d, W)
      BY <1>1, <1>4, <2>1, <3>1
    <3>3. QED
      BY <3>1, <3>2 DEF Results
  <2>2. QED
    BY <1>1, <1>4, <2>1 DEF Follows
<1>6. QED
  BY <1>1, <1>4, <1>5 DEF d, e, Declared

LEMMA FollowsTidied ==
  ASSUME NEW field, NEW c, NEW d, Sane(d), NEW ids
  PROVE  /\ Sane(Prune(Erase(d, ids)))
         /\ Follows(field, c, d) => Follows(field, c, Prune(Erase(d, ids)))
<1>1. Sane(Prune(Erase(d, ids))) /\ Carries(field, d, Prune(Erase(d, ids)))
  BY TidyKeeps
<1>2. QED
  BY <1>1, CarriesFollows, FollowsOn

(* Operands and results of an operation with few of them.                  *)
LEMMA ArgsOne ==
  ASSUME NEW o, IsSeq(o.in), Len(o.in) = 1, NEW V
  PROVE  Args(o, V) = <<V[o.in[1]]>> /\ o.in # <<>> /\ 1 \in DOMAIN o.in
<1>1. DOMAIN o.in = 1 .. 1 /\ o.in # <<>>
  BY SeqIs DEF IsSeq
<1>2. Args(o, V) = [j \in 1 .. 1 |-> V[o.in[j]]]
  BY <1>1 DEF Args
<1>3. <<V[o.in[1]]>> = [j \in 1 .. 1 |-> V[o.in[j]]]
  OBVIOUS
<1>4. QED
  BY <1>1, <1>2, <1>3

LEMMA ArgsTwo ==
  ASSUME NEW o, IsSeq(o.in), Len(o.in) = 2, NEW V
  PROVE  Args(o, V) = <<V[o.in[1]], V[o.in[2]]>> /\ o.in # <<>> /\ 1 \in DOMAIN o.in /\ 2 \in DOMAIN o.in
<1>1. DOMAIN o.in = 1 .. 2 /\ o.in # <<>>
  BY SeqIs DEF IsSeq
<1>2. Args(o, V) = [j \in 1 .. 2 |-> V[o.in[j]]]
  BY <1>1 DEF Args
<1>3. <<V[o.in[1]], V[o.in[2]]>> = [j \in 1 .. 2 |-> V[o.in[j]]]
  OBVIOUS
<1>4. QED
  BY <1>1, <1>2, <1>3

-----------------------------------------------------------------------------
(* What the operations of the rewrites compute, in either field.           *)
Projected(field, implementation, type, x, w) ==
  IF field = "exact" THEN LinearTerm(implementation, type, <<x, w>>) ELSE LinearTerm(0, 0, <<x, w>>)

LEMMA LinearLaw ==
  ASSUME NEW field \in Fields, NEW c, NEW o, Shaped(o), o.op = "Linear", Len(o.in) = 2, NEW V
  PROVE  Law(field, c, o, V) <=>
           V[o.out[1]] = Projected(field, o.attr.implementation, DType(c, o.out[1]),
                                   V[o.in[1]], V[o.in[2]])
<1>1. /\ Args(o, V) = <<V[o.in[1]], V[o.in[2]]>> /\ o.in # <<>>
      /\ DOMAIN o.out = 1 .. 1
  BY ArgsTwo, SeqIs DEF Shaped, IsSeq
<1>2. Law(field, c, o, V) <=> V[o.out[1]] = Result(field, c, o, 1, Args(o, V))
  BY <1>1 DEF Law
<1>3. Result(field, c, o, 1, Args(o, V))
        = Projected(field, o.attr.implementation, DType(c, o.out[1]), V[o.in[1]], V[o.in[2]])
  <2>1. CASE field = "exact"
    BY <1>1, <2>1 DEF Result, Projected, ExactTerm
  <2>2. CASE field = "real"
    BY <1>1, <2>2 DEF Result, Projected, RealTerm, ExactTerm
  <2>3. QED
    BY <2>1, <2>2 DEF Fields
<1>4. QED
  BY <1>2, <1>3

LEMMA BiasedLaw ==
  ASSUME NEW c, NEW o, Shaped(o), o.op = "Linear", Len(o.in) = 3, NEW V
  PROVE  Law("real", c, o, V) <=>
           V[o.out[1]] = Term("BiasAdd", <<1>>,
             <<Projected("real", 0, 0, V[o.in[1]], V[o.in[2]]), V[o.in[3]]>>)
<1>1. DOMAIN o.in = 1 .. 3 /\ DOMAIN o.out = 1 .. 1
  BY SeqIs DEF Shaped, IsSeq
<1>2. Args(o, V) = [j \in 1 .. 3 |-> V[o.in[j]]]
  BY <1>1 DEF Args
<1>3. Args(o, V) = <<V[o.in[1]], V[o.in[2]], V[o.in[3]]>>
  BY <1>2
<1>4. Law("real", c, o, V) <=> V[o.out[1]] = Result("real", c, o, 1, Args(o, V))
  BY <1>1 DEF Law
<1>5. Result("real", c, o, 1, Args(o, V))
        = Term("BiasAdd", <<1>>, <<Projected("real", 0, 0, V[o.in[1]], V[o.in[2]]), V[o.in[3]]>>)
  BY <1>3 DEF Result, Projected, RealTerm
<1>6. QED
  BY <1>4, <1>5

LEMMA BiasLaw ==
  ASSUME NEW c, NEW o, Shaped(o), o.op = "BiasAdd", NEW V, Law("real", c, o, V)
  PROVE  V[o.out[1]] = Term("BiasAdd", <<1>>, <<V[o.in[1]], V[o.in[2]]>>)
<1>1. /\ Args(o, V) = <<V[o.in[1]], V[o.in[2]]>> /\ 1 \in DOMAIN o.out
  BY ArgsTwo, SeqIs DEF Shaped, IsSeq
<1>2. V[o.out[1]] = Result("real", c, o, 1, Args(o, V))
  BY <1>1 DEF Law
<1>3. QED
  BY <1>1, <1>2 DEF Result, RealTerm, ExactTerm

LEMMA CastLaw ==
  ASSUME NEW field \in Fields, NEW c, NEW o, Shaped(o), o.op = "Cast", NEW V
  PROVE  Law(field, c, o, V) <=>
           V[o.out[1]] = IF field = "exact"
                         THEN CastTerm(DType(c, o.in[1]), DType(c, o.out[1]), V[o.in[1]])
                         ELSE V[o.in[1]]
<1>1. /\ Args(o, V) = <<V[o.in[1]]>> /\ o.in # <<>> /\ DOMAIN o.out = 1 .. 1
  BY ArgsOne, SeqIs DEF Shaped, IsSeq
<1>2. Law(field, c, o, V) <=> V[o.out[1]] = Result(field, c, o, 1, Args(o, V))
  BY <1>1 DEF Law
<1>3. CASE field = "exact"
  BY <1>1, <1>2, <1>3 DEF Result, ExactTerm
<1>4. CASE field = "real"
  BY <1>1, <1>2, <1>4 DEF Result, RealTerm
<1>5. QED
  BY <1>3, <1>4 DEF Fields

LEMMA PartLaw ==
  ASSUME NEW field \in Fields, NEW c, NEW o, Shaped(o), o.op = "H3DeinterleaveQkvWeight", NEW V
  PROVE  Law(field, c, o, V) <=>
           \A k \in DOMAIN o.out :
             V[o.out[k]] = Term("H3DeinterleaveQkvWeight", <<k>>, <<V[o.in[1]]>>)
<1>1. Args(o, V) = <<V[o.in[1]]>>
  BY ArgsOne DEF Shaped
<1>2. ASSUME NEW k PROVE Result(field, c, o, k, Args(o, V)) = Term("H3DeinterleaveQkvWeight", <<k>>, <<V[o.in[1]]>>)
  BY <1>1 DEF Result, RealTerm, ExactTerm
<1>3. QED
  BY <1>2 DEF Law

LEMMA DeinterleaveLaw ==
  ASSUME NEW field \in Fields, NEW c, NEW o, Shaped(o), o.op = "H3DeinterleaveQkv", NEW V
  PROVE  Law(field, c, o, V) <=>
           \A k \in DOMAIN o.out : V[o.out[k]] = DeinterleaveTerm(k, V[o.in[1]])
<1>1. Args(o, V) = <<V[o.in[1]]>>
  BY ArgsOne DEF Shaped
<1>2. ASSUME NEW k PROVE Result(field, c, o, k, Args(o, V)) = DeinterleaveTerm(k, V[o.in[1]])
  BY <1>1 DEF Result, RealTerm, ExactTerm
<1>3. QED
  BY <1>2 DEF Law

(* The rows of a projection are the projections by the rows.               *)
LEMMA RowsProject ==
  ASSUME NEW field \in Fields, NEW k, NEW implementation, NEW type, NEW x, NEW w
  PROVE  DeinterleaveTerm(k, Projected(field, implementation, type, x, w))
           = Projected(field, implementation, type, x, Term("H3DeinterleaveQkvWeight", <<k>>, <<w>>))
<1> DEFINE i == IF field = "exact" THEN implementation ELSE 0
           t == IF field = "exact" THEN type ELSE 0
           p == Term("Linear", <<t, i>>, <<x, w>>)
<1>1. \A y : Projected(field, implementation, type, x, y) = Term("Linear", <<t, i>>, <<x, y>>)
  BY DEF Projected, LinearTerm
<1> HIDE DEF i, t
<1>2. p.op = "Linear" /\ p.attr = <<t, i>> /\ p.args = <<x, w>> /\ Len(p.args) = 2
  BY DEF Term
<1> HIDE DEF p
<1>3. DeinterleaveTerm(k, p)
        = Term("Linear", <<t, i>>, <<x, Term("H3DeinterleaveQkvWeight", <<k>>, <<w>>)>>)
  BY <1>2 DEF DeinterleaveTerm
<1>4. QED
  BY <1>1, <1>3 DEF p

(* Widening and narrowing back.                                            *)
LEMMA CastBack ==
  ASSUME NEW from, NEW to, Widening(from, to), NEW v
  PROVE  CastTerm(to, from, CastTerm(from, to, v)) = v
<1>1. to = F32 /\ from # F32
  BY DEF Widening, F32, BF16, F16
<1>2. CastTerm(from, to, v) = Term("Cast", <<from, to>>, <<v>>)
  BY <1>1 DEF CastTerm, Widening
<1> DEFINE w == Term("Cast", <<from, to>>, <<v>>)
<1>3. w.op = "Cast" /\ w.attr = <<from, to>> /\ w.args = <<v>>
  BY DEF Term
<1> HIDE DEF w
<1>4. CastTerm(to, from, w) = v
  BY <1>3 DEF CastTerm
<1>5. QED
  BY <1>2, <1>4 DEF w

-----------------------------------------------------------------------------
(* The rewrites, one by one.                                               *)
LEMMA IllegalFollows ==
  ASSUME NEW c, Sane(c), NEW field PROVE Sane(Illegal(c)) /\ Follows(field, c, Illegal(c))
  BY IllegalKeeps, CarriesFollows

LEMMA EraseDeadKeeps ==
  ASSUME NEW c, Sane(c), NEW dead, NEW field
  PROVE  Sane(EraseDead(c, dead)) /\ Follows(field, c, EraseDead(c, dead))
  BY TidyKeeps, CarriesFollows DEF EraseDead

LEMMA FuseBiasKeeps ==
  ASSUME NEW c, Sane(c), NEW id
  PROVE  Sane(FuseBiasAt(c, id)) /\ Follows("real", c, FuseBiasAt(c, id))
<1> DEFINE o == c.ops[At(c, id)]
           at == Writer(c, o.in[1])
           l == c.ops[at]
           p == [l EXCEPT !.in = Append(@, o.in[2]), !.out = o.out]
           e == Replace(c, at, <<p>>)
<1>1. CASE ~c.ok \/ ~Has(c, id) \/ ~BiasSite(c, o)
  BY <1>1, IllegalFollows DEF FuseBiasAt
<1>2. CASE c.ok /\ Has(c, id) /\ BiasSite(c, o)
  <2>1. o \in ToSet(c.ops) /\ o.op = "BiasAdd" /\ Writes(c, o.in[1]) # {}
    BY <1>2, AtIs DEF BiasSite
  <2>2. l.op = "Linear" /\ Len(l.in) = 2
    BY <1>2 DEF BiasSite
  <2>3. at \in Positions(c) /\ l \in ToSet(c.ops) /\ \E k \in DOMAIN l.out : l.out[k] = o.in[1]
    BY <2>1, WriterIs
  <2> HIDE DEF o, l, at
  <2>4. /\ Shaped(o) /\ Fits(c, o) /\ Shaped(l) /\ Fits(c, l)
        /\ DOMAIN o.in = 1 .. 2 /\ DOMAIN o.out = 1 .. 1 /\ DOMAIN l.in = 1 .. 2 /\ DOMAIN l.out = 1 .. 1
    BY <2>1, <2>2, <2>3, OperationFits DEF Shaped
  <2>5. l.out[1] = o.in[1]
    BY <2>3, <2>4
  <2>6. /\ DOMAIN p = DOMAIN l /\ p.op = "Linear" /\ p.attr = l.attr /\ p.out = o.out
        /\ p.in = Append(l.in, o.in[2])
    BY <2>2, <2>4 DEF Shaped
  <2> HIDE DEF p
  <2>7. /\ IsSeq(p.in) /\ Len(p.in) = 3 /\ DOMAIN p.in = 1 .. 3
        /\ p.in[1] = l.in[1] /\ p.in[2] = l.in[2] /\ p.in[3] = o.in[2]
    <3>1. IsSeq(l.in) /\ 1 \in 1 .. Len(l.in) /\ 2 \in 1 .. Len(l.in)
      BY <2>2, <2>4 DEF Shaped
    <3>2. /\ IsSeq(p.in) /\ Len(p.in) = Len(l.in) + 1 /\ DOMAIN p.in = 1 .. Len(l.in) + 1
          /\ \A i \in 1 .. Len(l.in) : p.in[i] = l.in[i]
          /\ p.in[Len(l.in) + 1] = o.in[2]
      BY <2>6, <3>1, Appended
    <3>3. QED
      BY <2>2, <3>1, <3>2
  <2>8. Shaped(p)
    BY <2>4, <2>6, <2>7 DEF Shaped
  <2>9. Fits(c, p)
    <3>1. \A t : Uses(p, t) => t \in Declared(c)
      <4>1. \A k \in DOMAIN p.out : p.out[k] \in Declared(c)
        BY <2>4, <2>6 DEF Fits, Uses
      <4>2. p.in[1] \in Declared(c) /\ p.in[2] \in Declared(c) /\ p.in[3] \in Declared(c)
        BY <2>4, <2>7 DEF Fits, Uses
      <4>3. QED
        BY <2>7, <4>1, <4>2 DEF Uses
    <3>2. SameType(c, l) /\ SameType(c, o)
      BY <2>1, <2>2, <2>4 DEF Fits
    <3>3. SameType(c, p)
      BY <2>4, <2>5, <2>6, <2>7, <3>2 DEF SameType
    <3>4. QED
      BY <2>8, <3>1, <3>3 DEF Fits
  <2>10. ASSUME NEW V, Solves("real", c, V) PROVE Law("real", c, p, V)
    <3>1. Law("real", c, o, V) /\ Law("real", c, l, V)
      BY <2>1, <2>3, <2>10 DEF Solves
    <3>2. V[o.out[1]] = Term("BiasAdd", <<1>>, <<V[o.in[1]], V[o.in[2]]>>)
      BY <2>1, <2>4, <3>1, BiasLaw
    <3>3. V[l.out[1]] = Projected("real", l.attr.implementation, DType(c, l.out[1]), V[l.in[1]], V[l.in[2]])
      BY <2>2, <2>4, <3>1, LinearLaw DEF Fields
    <3>4. V[o.in[1]] = Projected("real", 0, 0, V[l.in[1]], V[l.in[2]])
      BY <2>5, <3>3 DEF Projected
    <3>5. QED
      BY <2>6, <2>7, <2>8, <3>2, <3>4, BiasedLaw
  <2>11. /\ Sane(e) /\ Results(e) = Results(c)
         /\ \A V : Solves("real", c, V) => Solves("real", e, V)
    <3>1. IsSeq(<<p>>) /\ ToSet(<<p>>) = {p}
      BY OneIs
    <3>2. /\ Sane(e) /\ Results(e) = Results(c)
          /\ \A field, V : Solves(field, c, V) /\ (\A q \in ToSet(<<p>>) : Law(field, c, q, V))
                                => Solves(field, e, V)
      BY <2>3, <2>9, <3>1, ReplaceKeeps
    <3>3. QED
      BY <2>10, <3>1, <3>2
  <2> HIDE DEF e
  <2>12. Follows("real", c, e)
    BY <2>11, CarriesFollows DEF Carries
  <2>13. FuseBiasAt(c, id) = Prune(Erase(e, {id}))
    BY <1>2 DEF FuseBiasAt, e, p, l, at, o
  <2>14. QED
    BY <2>11, <2>12, <2>13, FollowsTidied
<1>3. QED
  BY <1>1, <1>2

LEMMA SetImplementationKeeps ==
  ASSUME NEW c, Sane(c), NEW id, NEW n
  PROVE  Sane(SetImplementationAt(c, id, n)) /\ Follows("real", c, SetImplementationAt(c, id, n))
<1> DEFINE o == c.ops[At(c, id)]
           p == [o EXCEPT !.attr.implementation = n]
           e == Replace(c, At(c, id), <<p>>)
<1>1. CASE ~c.ok \/ ~Has(c, id) \/ o.op # "Linear" \/ Pinned(o)
  BY <1>1, IllegalFollows DEF SetImplementationAt
<1>2. CASE c.ok /\ Has(c, id) /\ o.op = "Linear" /\ ~Pinned(o)
  <2>1. o \in ToSet(c.ops) /\ o.op = "Linear" /\ At(c, id) \in Positions(c)
    BY <1>2, AtIs
  <2> HIDE DEF o
  <2>2. Fits(c, o) /\ Shaped(o)
    BY <2>1, OperationFits
  <2>3. /\ DOMAIN p = DOMAIN o /\ p.op = o.op /\ p.in = o.in /\ p.out = o.out
        /\ DOMAIN p.attr = DOMAIN o.attr
    BY <2>2 DEF Shaped
  <2> HIDE DEF p
  <2>4. Fits(c, p)
    BY <2>2, <2>3 DEF Fits, Shaped, Uses, SameType
  <2>5. ASSUME NEW V, Solves("real", c, V) PROVE Law("real", c, p, V)
    <3>1. Law("real", c, o, V)
      BY <2>1, <2>5 DEF Solves
    <3>2. Args(p, V) = Args(o, V)
      BY <2>3 DEF Args
    <3>3. QED
      BY <2>3, <3>1, <3>2 DEF Law, Result
  <2>6. IsSeq(<<p>>) /\ ToSet(<<p>>) = {p}
    BY OneIs
  <2>7. /\ Sane(e) /\ Results(e) = Results(c)
        /\ \A field, V : Solves(field, c, V) /\ (\A q \in ToSet(<<p>>) : Law(field, c, q, V))
                                => Solves(field, e, V)
    BY <2>1, <2>4, <2>6, ReplaceKeeps
  <2>8. SetImplementationAt(c, id, n) = e
    BY <1>2 DEF SetImplementationAt, o, p
  <2> HIDE DEF e
  <2>9. Carries("real", c, e)
    BY <2>5, <2>6, <2>7 DEF Carries
  <2>10. QED
    BY <2>7, <2>8, <2>9, CarriesFollows
<1>3. QED
  BY <1>1, <1>2

LEMMA ElideKeeps ==
  ASSUME NEW c, Sane(c), NEW id, NEW field \in Fields
  PROVE  Sane(ElideAt(c, id)) /\ Follows(field, c, ElideAt(c, id))
<1> DEFINE o == c.ops[At(c, id)]
           w == c.ops[Writer(c, o.in[1])]
           e == Erase(c, {id, w.id})
           s == Substitute(e, <<o.out[1]>>, <<w.in[1]>>)
<1>1. CASE ~c.ok \/ ~Has(c, id) \/ ~RoundTrip(c, o)
  BY <1>1, IllegalFollows DEF ElideAt
<1>2. CASE c.ok /\ Has(c, id) /\ RoundTrip(c, o)
  <2>1. o \in ToSet(c.ops) /\ o.op = "Cast" /\ Writes(c, o.in[1]) # {}
    BY <1>2, AtIs DEF RoundTrip
  <2>2. /\ w.op = "Cast" /\ Widening(DType(c, w.in[1]), DType(c, o.in[1]))
        /\ DType(c, o.out[1]) = DType(c, w.in[1])
    BY <1>2 DEF RoundTrip
  <2>3. w \in ToSet(c.ops) /\ \E k \in DOMAIN w.out : w.out[k] = o.in[1]
    BY <2>1, WriterIs
  <2>4. ElideAt(c, id) = Prune(s)
    BY <1>2 DEF ElideAt
  <2> HIDE DEF o, w
  <2>5. /\ Shaped(o) /\ Shaped(w) /\ DOMAIN w.out = 1 .. 1 /\ DOMAIN w.in = 1 .. 1
        /\ w.in[1] \in Declared(c)
    BY <2>1, <2>2, <2>3, OperationFits DEF Shaped
  <2>6. w.out[1] = o.in[1]
    BY <2>3, <2>5
  <2>7. /\ Sane(e) /\ Carries(field, c, e) /\ e.tensors = c.tensors
    BY EraseKeeps
  <2> HIDE DEF e
  <2>8. ASSUME NEW V, Solves(field, c, V) PROVE V[w.in[1]] = V[o.out[1]]
    <3>1. Law(field, c, o, V) /\ Law(field, c, w, V)
      BY <2>1, <2>3, <2>8 DEF Solves
    <3>2. V[o.out[1]] = IF field = "exact"
                        THEN CastTerm(DType(c, o.in[1]), DType(c, o.out[1]), V[o.in[1]]) ELSE V[o.in[1]]
      BY <2>1, <2>5, <3>1, CastLaw
    <3>3. V[w.out[1]] = IF field = "exact"
                        THEN CastTerm(DType(c, w.in[1]), DType(c, w.out[1]), V[w.in[1]]) ELSE V[w.in[1]]
      BY <2>2, <2>5, <3>1, CastLaw
    <3>4. QED
      BY <2>2, <2>6, <3>2, <3>3, CastBack
  <2>9. Stand(e, <<o.out[1]>>, <<w.in[1]>>)
    <3>1. w.in[1] \in Declared(e) /\ DType(e, w.in[1]) = DType(e, o.out[1])
      BY <2>2, <2>5, <2>7 DEF Declared, DType
    <3>2. QED
      BY <3>1 DEF Stand
  <2>10. /\ Sane(s) /\ Results(s) = Results(e)
         /\ \A V : Solves(field, e, V) /\ V[w.in[1]] = V[o.out[1]] => Solves(field, s, V)
    <3>1. /\ Sane(s) /\ Results(s) = Results(e)
          /\ \A V : Solves(field, e, V)
                    /\ (\A j \in DOMAIN <<o.out[1]>> : V[<<w.in[1]>>[j]] = V[<<o.out[1]>>[j]])
                      => Solves(field, s, V)
      BY <2>7, <2>9, SubstituteKeeps
    <3>2. QED
      BY <3>1
  <2> HIDE DEF s
  <2>11. Carries(field, c, s)
    BY <2>7, <2>8, <2>10 DEF Carries
  <2>12. Sane(Prune(s)) /\ Carries(field, s, Prune(s))
    BY <2>10, PruneKeeps
  <2>13. QED
    BY <2>4, <2>11, <2>12, CarriesOn, CarriesFollows
<1>3. QED
  BY <1>1, <1>2

(* Changes of what no operation looks at.                                  *)
LEMMA OutlookKeeps ==
  ASSUME NEW c, Sane(c), NEW d, ContextFields \subseteq DOMAIN d, d.ops = c.ops,
         d.bindings = c.bindings, Declared(d) = Declared(c),
         \A t \in Declared(c) :
           /\ TensorFields \subseteq DOMAIN d.tensors[t] /\ DType(d, t) = DType(c, t)
           /\ \A role \in {"Input", "Constant", "Output"} : Is(d, t, role) <=> Is(c, t, role),
         NEW field
  PROVE  Sane(d) /\ Follows(field, c, d)
<1>1. Results(d) = Results(c) /\ Bindable(d) = Bindable(c) /\ Given(d) = Given(c)
  <2>1. Results(d) = Results(c)
    BY DEF Results
  <2>2. Bindable(d) = Bindable(c)
    BY DEF Bindable
  <2>3. \A t \in Bindable(c) : Is(d, t, "Input") <=> Is(c, t, "Input")
    BY DEF Bindable
  <2>4. QED
    BY <2>1, <2>2, <2>3 DEF Given
<1>2. WellBound(d)
  BY <1>1 DEF Sane, WellBound
<1>3. Typed(c, d)
  BY DEF Typed
<1>4. \A o \in ToSet(c.ops) : Fits(c, o) /\ \A t : Uses(o, t) => t \in Declared(d)
  BY DEF Sane, Fits
<1>5. \A o \in ToSet(c.ops) : Fits(d, o)
  BY <1>3, <1>4, FitsStill
<1>6. Sane(d)
  BY <1>2, <1>5 DEF Sane
<1>7. ASSUME NEW V, Solves(field, c, V) PROVE Solves(field, d, V)
  <2>1. \A o \in ToSet(d.ops) : Law(field, d, o, V)
    BY <1>3, <1>4, <1>7, LawStill DEF Solves
  <2>2. QED
    BY <1>1, <1>7, <2>1 DEF Solves
<1>8. QED
  BY <1>1, <1>6, <1>7, CarriesFollows DEF Carries

LEMMA SetDistanceKeeps ==
  ASSUME NEW c, Sane(c), NEW n, NEW field
  PROVE  Sane(SetDistance(c, n)) /\ Follows(field, c, SetDistance(c, n))
<1> DEFINE d == [c EXCEPT !.distance = n]
<1>1. CASE n = c.distance
  BY <1>1, IllegalFollows DEF SetDistance
<1>2. CASE n # c.distance
  <2>1. DOMAIN d = DOMAIN c /\ d.ops = c.ops /\ d.tensors = c.tensors /\ d.bindings = c.bindings
    BY DEF Sane, ContextFields
  <2>2. SetDistance(c, n) = d
    BY <1>2 DEF SetDistance
  <2> HIDE DEF d
  <2>3. Sane(d) /\ Follows(field, c, d)
    <3>1. /\ ContextFields \subseteq DOMAIN d /\ Declared(d) = Declared(c)
          /\ \A t \in Declared(c) : /\ TensorFields \subseteq DOMAIN d.tensors[t]
                                    /\ DType(d, t) = DType(c, t)
                                    /\ \A role : Is(d, t, role) <=> Is(c, t, role)
      BY <2>1 DEF Sane, Declared, DType, Is
    <3>2. QED
      BY <2>1, <3>1, OutlookKeeps
  <2>4. QED
    BY <2>2, <2>3
<1>3. QED
  BY <1>1, <1>2

LEMMA SetResidencyKeeps ==
  ASSUME NEW c, Sane(c), NEW streamed, NEW field
  PROVE  Sane(SetResidency(c, streamed)) /\ Follows(field, c, SetResidency(c, streamed))
<1> DEFINE T == [t \in DOMAIN c.tensors |->
                   IF t \in Misplaced(c, streamed) THEN Placed(c.tensors[t], streamed) ELSE c.tensors[t]]
           d == [c EXCEPT !.tensors = T]
<1>1. CASE Misplaced(c, streamed) = {}
  BY <1>1, IllegalFollows DEF SetResidency
<1>2. CASE Misplaced(c, streamed) # {}
  <2>1. SetResidency(c, streamed) = d
    BY <1>2 DEF SetResidency
  <2>2. ASSUME NEW t \in Declared(c)
        PROVE  /\ TensorFields \subseteq DOMAIN T[t] /\ T[t].dtype = c.tensors[t].dtype
               /\ \A role \in {"Input", "Constant", "Output"} :
                    role \in T[t].roles <=> role \in c.tensors[t].roles
    <3>1. TensorFields \subseteq DOMAIN c.tensors[t] /\ t \in DOMAIN c.tensors
      BY DEF Sane, Declared
    <3>2. T[t] = IF t \in Misplaced(c, streamed) THEN Placed(c.tensors[t], streamed) ELSE c.tensors[t]
      BY <3>1
    <3> HIDE DEF T
    <3>3. CASE t \notin Misplaced(c, streamed)
      BY <3>1, <3>2, <3>3
    <3>4. CASE t \in Misplaced(c, streamed) /\ streamed
      <4>1. T[t] = [c.tensors[t] EXCEPT !.roles = c.tensors[t].roles \cup {"Streamed"}]
        BY <3>2, <3>4 DEF Placed
      <4>2. QED
        BY <3>1, <4>1 DEF TensorFields
    <3>5. CASE t \in Misplaced(c, streamed) /\ ~streamed
      <4>1. T[t] = [c.tensors[t] EXCEPT !.roles = c.tensors[t].roles \ {"Streamed"}]
        BY <3>2, <3>5 DEF Placed
      <4>2. QED
        BY <3>1, <4>1 DEF TensorFields
    <3>6. QED
      BY <3>3, <3>4, <3>5
  <2>3. DOMAIN T = DOMAIN c.tensors
    OBVIOUS
  <2> HIDE DEF T
  <2>4. DOMAIN d = DOMAIN c /\ d.ops = c.ops /\ d.tensors = T /\ d.bindings = c.bindings
    BY DEF Sane, ContextFields
  <2> HIDE DEF d
  <2>5. Sane(d) /\ Follows(field, c, d)
    <3>1. /\ ContextFields \subseteq DOMAIN d /\ Declared(d) = Declared(c)
          /\ \A t \in Declared(c) : /\ TensorFields \subseteq DOMAIN d.tensors[t]
                                    /\ DType(d, t) = DType(c, t)
                                    /\ \A role \in {"Input", "Constant", "Output"} : Is(d, t, role) <=> Is(c, t, role)
      BY <2>2, <2>3, <2>4 DEF Sane, Declared, DType, Is
    <3>2. QED
      BY <2>4, <3>1, OutlookKeeps
  <2>6. QED
    BY <2>1, <2>5
<1>3. QED
  BY <1>1, <1>2

(* Operations replaced by others at the place of the first.                *)
LEMMA SpliceKeeps ==
  ASSUME NEW c, Sane(c), Declared(c) # {}, NEW new, IsSeq(new),
         \A k \in 1 .. Len(new) : TensorFields \subseteq DOMAIN new[k] /\ new[k].roles = {},
         NEW ids, \E i \in Positions(c) : c.ops[i].id \in ids, NEW ops, IsSeq(ops),
         \A o \in ToSet(ops) : Fits(Declare(c, new), o), NEW field,
         \A V : Solves(field, c, V) =>
                  \E W : /\ \A t \in Declared(c) : W[t] = V[t]
                         /\ \A o \in ToSet(ops) : Law(field, Declare(c, new), o, W)
  PROVE  LET d == Prune(Splice(Declare(c, new), ids, ops))
         IN  Sane(d) /\ Follows(field, c, d)
<1> DEFINE e == Declare(c, new)
           S == {i \in Positions(e) : e.ops[i].id \in ids}
           at == Min(S)
           r == Replace(e, at, ops)
<1>1. e.ops = c.ops
  BY DeclareKeeps
<1> HIDE DEF e
<1>2. at \in Positions(c)
  <2>1. S \subseteq Nat /\ S # {} /\ S \subseteq Positions(c)
    BY <1>1, SeqIs DEF Sane, Positions, IsSeq
  <2> HIDE DEF S
  <2>2. QED
    BY <2>1, MinIs
<1> HIDE DEF at
<1>3. Sane(r) /\ Follows(field, c, r)
  BY <1>2, RewriteKeeps DEF e
<1>4. Splice(e, ids, ops) = Erase(r, ids)
  BY DEF Splice, r, at, S
<1> HIDE DEF r
<1>5. QED
  BY <1>3, <1>4, FollowsTidied DEF e

LEMMA DeclareOne ==
  ASSUME NEW c, Sane(c), Declared(c) # {}, NEW info, TensorFields \subseteq DOMAIN info, info.roles = {}
  PROVE  LET e == Declare(c, <<info>>)
             t == FreshTensor(c)
         IN  /\ Sane(e) /\ Extends(c, e) /\ e.ops = c.ops /\ Declared(c) \subseteq Declared(e)
             /\ t \in Declared(e) /\ t \notin Declared(c) /\ e.tensors[t] = info
<1> DEFINE new == <<info>>
           e == Declare(c, new)
           t == FreshTensor(c)
<1>1. IsSeq(new) /\ Len(new) = 1 /\ new[1] = info
  BY OneIs
<1> HIDE DEF new
<1>2. \A k \in 1 .. Len(new) : TensorFields \subseteq DOMAIN new[k] /\ new[k].roles = {}
  BY <1>1
<1>3. t \in Nat /\ Sane(e) /\ Extends(c, e) /\ e.ops = c.ops /\ Declared(c) \subseteq Declared(e)
  BY <1>1, <1>2, DeclareKeeps
<1>5. \A k \in 1 .. Len(new) : \A u : u = t + k - 1 =>
        u \in Declared(e) /\ u \notin Declared(c) /\ e.tensors[u] = new[k]
  BY <1>1, <1>2, DeclareKeeps
<1> HIDE DEF e, t
<1>4. t + 1 - 1 = t /\ 1 \in 1 .. Len(new)
  BY <1>1, <1>3
<1>6. QED
  BY <1>1, <1>3, <1>4, <1>5 DEF e, t, new

LEMMA RematerializeKeeps ==
  ASSUME NEW c, Sane(c), NEW producer, NEW consumer, NEW field
  PROVE  /\ Sane(Rematerialize(c, producer, consumer))
         /\ Follows(field, c, Rematerialize(c, producer, consumer))
<1> DEFINE o == c.ops[At(c, producer)]
           clone == FreshTensor(c)
           at == At(c, consumer)
           q == c.ops[at]
           new == <<Temporary(DType(c, o.out[1]), Dims(c, o.out[1]))>>
           e == Declare(c, new)
           p == [o EXCEPT !.id = FreshOperation(c), !.out = <<clone>>]
           r == Renamed(q, o.out, <<clone>>)
           d == Replace(e, at, <<p, r>>)
<1>1. CASE \/ ~Has(c, producer) \/ ~Rematerializable(c, o)
           \/ RematConsumer(c, producer) # consumer
  BY <1>1, IllegalFollows DEF Rematerialize
<1>2. CASE Has(c, producer) /\ Rematerializable(c, o) /\ RematConsumer(c, producer) = consumer
  <2>1. o \in ToSet(c.ops) /\ Len(o.out) = 1 /\ Cardinality(Reads(c, o.out[1])) >= 2
    BY <1>2, AtIs DEF Rematerializable
  <2>2. consumer = c.ops[LastRead(c, o.out[1])].id
    BY <1>2 DEF RematConsumer
  <2>3. Rematerialize(c, producer, consumer) = d
    BY <1>2 DEF Rematerialize
  <2> HIDE DEF o
  <2>4. /\ Shaped(o) /\ Fits(c, o) /\ DOMAIN o.out = 1 .. 1 /\ o.out[1] \in Declared(c)
        /\ \A j \in DOMAIN o.in : o.in[j] \in Declared(c)
    BY <2>1, OperationFits
  <2>5. Has(c, consumer)
    <3>1. Reads(c, o.out[1]) # {}
      BY <2>1, FS_EmptySet
    <3>2. Len(c.ops) \in Nat /\ Reads(c, o.out[1]) \subseteq 1 .. Len(c.ops)
      BY SeqIs DEF Sane, IsSeq, Reads, Positions
    <3>3. LastRead(c, o.out[1]) \in Reads(c, o.out[1])
      BY <3>1, <3>2, MaxExists DEF LastRead
    <3>4. QED
      BY <2>2, <3>3 DEF Has, Reads
  <2>6. at \in Positions(c) /\ q \in ToSet(c.ops)
    BY <2>5, AtIs
  <2>7. /\ IsSeq(new) /\ Len(new) = 1 /\ new[1].roles = {} /\ new[1].dtype = DType(c, o.out[1])
        /\ TensorFields \subseteq DOMAIN new[1] /\ new = <<new[1]>>
    BY OneIs DEF Temporary, TensorFields
  <2> HIDE DEF new
  <2>8. /\ Sane(e) /\ Extends(c, e) /\ e.ops = c.ops
        /\ Declared(c) \subseteq Declared(e) /\ clone \in Declared(e) /\ clone \notin Declared(c)
        /\ DType(e, clone) = DType(c, o.out[1])
    <3>1. /\ Sane(Declare(c, <<new[1]>>)) /\ Extends(c, Declare(c, <<new[1]>>))
          /\ Declare(c, <<new[1]>>).ops = c.ops /\ Declared(c) \subseteq Declared(Declare(c, <<new[1]>>))
          /\ clone \in Declared(Declare(c, <<new[1]>>)) /\ clone \notin Declared(c)
          /\ Declare(c, <<new[1]>>).tensors[clone] = new[1]
      BY <2>4, <2>7, DeclareOne
    <3>2. QED
      BY <2>7, <3>1 DEF DType
  <2> HIDE DEF at, q, clone, e
  <2>9. \A t \in Declared(c) : DType(e, t) = DType(c, t)
    BY <2>8, TypesKept DEF Typed
  <2>10. /\ DOMAIN p = DOMAIN o /\ p.op = o.op /\ p.in = o.in /\ p.attr = o.attr /\ p.out = <<clone>>
    BY <2>4 DEF Shaped
  <2> HIDE DEF p
  <2>11. IsSeq(p.out) /\ Len(p.out) = 1 /\ DOMAIN p.out = {1} /\ p.out[1] = clone
    BY <2>10, OneIs
  <2>12. Fits(e, p)
    <3>1. Shaped(p)
      BY <2>1, <2>4, <2>10, <2>11 DEF Shaped
    <3>2. \A t : Uses(p, t) => t \in Declared(e)
      BY <2>4, <2>8, <2>10, <2>11 DEF Uses
    <3>3. ASSUME SameType(c, o) PROVE SameType(e, p)
      <4>1. PICK type : /\ \A j \in DOMAIN o.in : DType(c, o.in[j]) = type
                        /\ \A k \in DOMAIN o.out : DType(c, o.out[k]) = type
        BY <3>3 DEF SameType
      <4>2. \A j \in DOMAIN p.in : DType(e, p.in[j]) = type
        BY <2>4, <2>9, <2>10, <4>1
      <4>3. \A k \in DOMAIN p.out : DType(e, p.out[k]) = type
        BY <2>4, <2>8, <2>11, <4>1
      <4>4. QED
        BY <4>2, <4>3 DEF SameType
    <3>4. QED
      BY <2>4, <2>10, <3>1, <3>2, <3>3 DEF Fits
  <2>13. Stand(e, o.out, <<clone>>) /\ Fits(e, q)
    <3>1. DType(e, clone) = DType(e, o.out[1]) /\ clone \in Declared(e)
      BY <2>4, <2>8, <2>9
    <3>2. Fits(e, q)
      BY <2>6, <2>8 DEF Sane
    <3>3. QED
      BY <2>4, <3>1, <3>2 DEF Stand
  <2>14. /\ Fits(e, r)
         /\ \A V : Law(field, e, q, V) /\ V[clone] = V[o.out[1]] => Law(field, e, r, V)
    <3>1. /\ Fits(e, r)
          /\ \A V : Law(field, e, q, V) /\ (\A j \in DOMAIN o.out : V[<<clone>>[j]] = V[o.out[j]])
                      => Law(field, e, r, V)
      BY <2>13, RenamedKeeps
    <3>2. QED
      BY <2>4, <3>1
  <2> HIDE DEF r
  <2>15. IsSeq(<<p, r>>) /\ ToSet(<<p, r>>) = {p, r}
    BY TwoIs
  <2>16. ASSUME NEW V, Solves(field, c, V)
         PROVE  \E W : /\ \A t \in Declared(c) : W[t] = V[t]
                       /\ \A s \in ToSet(<<p, r>>) : Law(field, e, s, W)
    <3> DEFINE W == [t \in Declared(e) |-> IF t = clone THEN V[o.out[1]] ELSE V[t]]
    <3>1. (\A t \in Declared(c) : W[t] = V[t]) /\ W[clone] = V[o.out[1]]
      BY <2>8
    <3> HIDE DEF W
    <3>2. Law(field, e, q, W)
      <4>1. Law(field, c, q, V) /\ Fits(c, q)
        BY <2>6, <2>16 DEF Solves, Sane
      <4>2. \A t : Uses(q, t) => t \in Declared(e)
        BY <2>13 DEF Fits
      <4>3. QED
        BY <2>8, <3>1, <4>1, <4>2, LawStill, TypesKept
    <3>3. Law(field, e, r, W)
      BY <2>4, <2>14, <3>1, <3>2
    <3>4. Law(field, e, p, W)
      <4>1. V[o.out[1]] = Result(field, c, o, 1, Args(o, V))
        BY <2>1, <2>4, <2>16 DEF Solves, Law
      <4>2. Args(p, W) = Args(o, V)
        BY <2>4, <2>10, <3>1 DEF Args
      <4>3. o.in # <<>> => 1 \in DOMAIN o.in
        BY <2>4, SeqIs DEF Shaped, IsSeq
      <4>4. (IF p.in = <<>> THEN 0 ELSE DType(e, p.in[1])) = (IF o.in = <<>> THEN 0 ELSE DType(c, o.in[1]))
        BY <2>4, <2>9, <2>10, <4>3
      <4>5. Result(field, e, p, 1, Args(p, W)) = Result(field, c, o, 1, Args(o, V))
        BY <2>8, <2>10, <2>11, <4>2, <4>4 DEF Result
      <4>6. QED
        BY <2>11, <3>1, <4>1, <4>5 DEF Law
    <3>5. QED
      BY <2>15, <3>1, <3>3, <3>4
  <2>17. Sane(d) /\ Follows(field, c, d)
    <3>1. Declared(c) # {} /\ \A k \in 1 .. Len(new) : TensorFields \subseteq DOMAIN new[k] /\ new[k].roles = {}
      BY <2>4, <2>7
    <3>2. \A s \in ToSet(<<p, r>>) : Fits(Declare(c, new), s)
      BY <2>12, <2>14, <2>15 DEF e
    <3>3. \A V : Solves(field, c, V) =>
                     \E W : /\ \A t \in Declared(c) : W[t] = V[t]
                            /\ \A s \in ToSet(<<p, r>>) : Law(field, Declare(c, new), s, W)
      BY <2>16 DEF e
    <3>4. Replace(Declare(c, new), at, <<p, r>>) = d
      BY DEF e
    <3> HIDE DEF d
    <3>5. QED
      BY <2>6, <2>7, <2>15, <3>1, <3>2, <3>3, <3>4, RewriteKeeps
  <2>18. QED
    BY <2>3, <2>17
<1>3. QED
  BY <1>1, <1>2

LEMMA OperationIs ==
  ASSUME NEW id, NEW op, NEW in, NEW out, NEW attr, IsSeq(in), IsSeq(out),
         {"implementation", "accumulator"} \subseteq DOMAIN attr,
         op \notin {"Add", "BiasAdd", "Cast"}, op = "Linear" => Len(in) = 2 /\ Len(out) = 1,
         op \in {"H3DeinterleaveQkv", "H3DeinterleaveQkvWeight"} => Len(in) = 1
  PROVE  LET o == Operation(id, op, in, out, attr)
         IN  o.op = op /\ o.in = in /\ o.out = out /\ o.attr = attr /\ Shaped(o)
<1> DEFINE o == Operation(id, op, in, out, attr)
<1>1. /\ o.op = op /\ o.in = in /\ o.out = out /\ o.attr = attr
      /\ {"id", "op", "in", "out", "attr"} \subseteq DOMAIN o
  BY DEF Operation
<1> HIDE DEF o
<1>2. Shaped(o)
  BY <1>1 DEF Shaped
<1>3. QED
  BY <1>1, <1>2 DEF o

LEMMA PlainIs == {"implementation", "accumulator"} \subseteq DOMAIN PlainAttr
  BY DEF PlainAttr

LEMMA ThreeBuilt ==
  ASSUME NEW f, f = [k \in 1 .. 3 |-> f[k]]
  PROVE  IsSeq(f) /\ Len(f) = 3 /\ DOMAIN f = 1 .. 3 /\ ToSet(f) = {f[k] : k \in 1 .. 3}
<1>1. IsSeq(f) /\ Len(f) = 3 /\ DOMAIN f = 1 .. 3
  BY SeqBuilt
<1>2. QED
  BY <1>1 DEF ToSet

(* The readers of the three parts of a weight.                             *)
Projections(c, o, P) ==
  /\ o \in ToSet(c.ops) /\ o.op = "H3DeinterleaveQkvWeight" /\ DOMAIN o.out = 1 .. 3
  /\ P[1].in[1] \in Declared(c) /\ o.in[1] \in Declared(c)
  /\ DType(c, o.in[1]) = DType(c, P[1].in[1])
  /\ \A k \in 1 .. 3 :
       /\ P[k] \in ToSet(c.ops) /\ P[k].op = "Linear" /\ Len(P[k].in) = 2
       /\ P[k].in[2] = o.out[k] /\ P[k].in[1] = P[1].in[1] /\ P[k].attr = P[1].attr
       /\ Shaped(P[k]) /\ P[k].out[1] \in Declared(c)
       /\ DType(c, P[k].out[1]) = DType(c, P[1].in[1])

LEMMA QkvReaders ==
  ASSUME NEW c, Sane(c), NEW id, Has(c, id), QkvFusionSite(c, c.ops[At(c, id)]), NEW P,
         \A k \in 1 .. 3 : P[k] = c.ops[OnlyReader(c, c.ops[At(c, id)].out[k])]
  PROVE  Projections(c, c.ops[At(c, id)], P)
<1> DEFINE o == c.ops[At(c, id)]
           p(k) == c.ops[OnlyReader(c, o.out[k])]
<1>1. o \in ToSet(c.ops)
  BY AtIs
<1>2. /\ o.op = "H3DeinterleaveQkvWeight" /\ Len(o.out) = 3
      /\ \A k \in 1 .. 3 : InternalOnly(c, o.out[k]) /\ Cardinality(Reads(c, o.out[k])) = 1
      /\ \A k \in 1 .. 3 :
           /\ p(k).op = "Linear" /\ Len(p(k).in) = 2 /\ p(k).in[2] = o.out[k]
           /\ p(k).in[1] = p(1).in[1] /\ p(k).attr = p(1).attr
           /\ InternalOnly(c, p(k).out[1]) /\ Len(Dims(c, p(k).out[1])) = 3
      /\ DType(c, o.in[1]) = DType(c, p(1).in[1])
  <2> HIDE DEF o
  <2>1. QkvFusionSite(c, o)
    BY DEF o
  <2>2. QED
    BY <2>1, Zenon DEF QkvFusionSite
<1>3. \A k \in 1 .. 3 : P[k] = p(k)
  OBVIOUS
<1> HIDE DEF o, p
<1>4. 1 \in 1 .. 3
  OBVIOUS
<1>5. /\ DType(c, o.in[1]) = DType(c, P[1].in[1])
      /\ \A k \in 1 .. 3 :
           /\ Cardinality(Reads(c, o.out[k])) = 1
           /\ P[k].op = "Linear" /\ Len(P[k].in) = 2 /\ P[k].in[2] = o.out[k]
           /\ P[k].in[1] = P[1].in[1] /\ P[k].attr = P[1].attr
  BY <1>2, <1>3, <1>4
<1>6. \A k \in 1 .. 3 : P[k] \in ToSet(c.ops)
  BY <1>3, <1>5, ReaderIs DEF p
<1>7. /\ DOMAIN o.out = 1 .. 3 /\ o.in[1] \in Declared(c)
  BY <1>1, <1>2, OperationFits DEF Shaped
<1>8. ASSUME NEW k \in 1 .. 3
      PROVE  /\ Shaped(P[k]) /\ P[k].out[1] \in Declared(c) /\ P[k].in[1] \in Declared(c)
             /\ DType(c, P[k].out[1]) = DType(c, P[k].in[1])
  <2>1. P[k] \in ToSet(c.ops) /\ P[k].op = "Linear" /\ Len(P[k].in) = 2
    BY <1>5, <1>6
  <2>2. /\ Fits(c, P[k]) /\ Shaped(P[k]) /\ DOMAIN P[k].in = 1 .. 2 /\ DOMAIN P[k].out = 1 .. 1
        /\ P[k].out[1] \in Declared(c) /\ P[k].in[1] \in Declared(c)
    BY <2>1, OperationFits DEF Shaped
  <2>3. SameType(c, P[k])
    BY <2>1, <2>2 DEF Fits
  <2>4. QED
    BY <2>2, <2>3 DEF SameType
<1>9. QED
  BY <1>1, <1>2, <1>4, <1>5, <1>6, <1>7, <1>8 DEF Projections, o

LEMMA FuseQkvKeeps ==
  ASSUME NEW c, Sane(c), NEW id, NEW field \in Fields
  PROVE  Sane(FuseQkvAt(c, id)) /\ Follows(field, c, FuseQkvAt(c, id))
<1> DEFINE o == c.ops[At(c, id)]
           p(k) == c.ops[OnlyReader(c, o.out[k])]
           P == [k \in 1 .. 3 |-> p(k)]
           x == P[1].in[1]
           y == Dims(c, p(1).out[1])
           packed == FreshTensor(c)
           next == FreshOperation(c)
           info == Temporary(DType(c, x), <<Dims(c, p(1).in[1])[1], 3 * y[2] * y[3]>>)
           e == Declare(c, <<info>>)
           ids == {id} \cup {p(k).id : k \in 1 .. 3}
           outs == [k \in 1 .. 3 |-> p(k).out[1]]
           q == Operation(next, "Linear", <<x, o.in[1]>>, <<packed>>, P[1].attr)
           r == Operation(next + 1, "H3DeinterleaveQkv", <<packed>>, outs, PlainAttr)
<1>1. CASE ~c.ok \/ ~Has(c, id) \/ ~QkvFusionSite(c, o)
  BY <1>1, IllegalFollows DEF FuseQkvAt
<1>2. CASE c.ok /\ Has(c, id) /\ QkvFusionSite(c, o)
  <2>1. FuseQkvAt(c, id) = Prune(Splice(Declare(c, <<info>>), ids, <<q, r>>))
    BY <1>2, P[1] = p(1) DEF FuseQkvAt
  <2>2. /\ o \in ToSet(c.ops) /\ o.op = "H3DeinterleaveQkvWeight" /\ DOMAIN o.out = 1 .. 3
        /\ x \in Declared(c) /\ o.in[1] \in Declared(c) /\ DType(c, o.in[1]) = DType(c, x)
        /\ \A k \in 1 .. 3 :
             /\ P[k] \in ToSet(c.ops) /\ P[k].op = "Linear" /\ Len(P[k].in) = 2
             /\ P[k].in[2] = o.out[k] /\ P[k].in[1] = x /\ P[k].attr = P[1].attr
             /\ Shaped(P[k]) /\ P[k].out[1] \in Declared(c)
             /\ DType(c, P[k].out[1]) = DType(c, x)
    <3>1. Projections(c, o, P)
      <4>1. \A k \in 1 .. 3 : P[k] = c.ops[OnlyReader(c, c.ops[At(c, id)].out[k])]
        OBVIOUS
      <4> HIDE DEF P
      <4>2. QED
        BY <1>2, <4>1, QkvReaders
    <3> HIDE DEF o, P
    <3>2. QED
      BY <3>1 DEF Projections
  <2>3. \E i \in Positions(c) : c.ops[i].id \in ids
    BY <1>2, AtIs
  <2>4. outs = [k \in 1 .. 3 |-> outs[k]] /\ \A k \in 1 .. 3 : outs[k] = P[k].out[1]
    OBVIOUS
  <2>5. /\ info.roles = {} /\ info.dtype = DType(c, x) /\ TensorFields \subseteq DOMAIN info
    BY P[1] = p(1) DEF Temporary, TensorFields
  <2>6. Shaped(o)
    BY <2>2, OperationFits
  <2>7. 1 \in 1 .. 3
    OBVIOUS
  <2> HIDE DEF o, p, P, x, packed, next, info, ids, outs
  <2>8. /\ Sane(e) /\ Extends(c, e) /\ Declared(c) \subseteq Declared(e)
        /\ packed \in Declared(e) /\ packed \notin Declared(c) /\ DType(e, packed) = DType(c, x)
    BY <2>2, <2>5, DeclareOne DEF DType, packed
  <2> HIDE DEF e
  <2>9. \A t \in Declared(c) : DType(e, t) = DType(c, t) /\ t \in Declared(e)
    BY <2>8, TypesKept DEF Typed
  <2>10. /\ q.op = "Linear" /\ q.in = <<x, o.in[1]>> /\ q.out = <<packed>> /\ q.attr = P[1].attr
         /\ Shaped(q)
    <3>1. /\ IsSeq(<<x, o.in[1]>>) /\ Len(<<x, o.in[1]>>) = 2
          /\ IsSeq(<<packed>>) /\ Len(<<packed>>) = 1
      BY OneIs, TwoIs
    <3>2. {"implementation", "accumulator"} \subseteq DOMAIN P[1].attr
      BY <2>2, <2>7 DEF Shaped
    <3>3. QED
      BY <3>1, <3>2, OperationIs
  <2>11. /\ r.op = "H3DeinterleaveQkv" /\ r.in = <<packed>> /\ r.out = outs /\ Shaped(r)
    <3>1. IsSeq(<<packed>>) /\ Len(<<packed>>) = 1 /\ IsSeq(outs)
      BY <2>4, OneIs, ThreeBuilt
    <3>2. QED
      BY <3>1, PlainIs, OperationIs
  <2> HIDE DEF q, r
  <2>12. DOMAIN q.in = {1, 2} /\ DOMAIN q.out = {1} /\ DOMAIN r.in = {1} /\ DOMAIN r.out = 1 .. 3
    BY <2>4, <2>10, <2>11, OneIs, TwoIs, ThreeBuilt
  <2>13. /\ q.in[1] = x /\ q.in[2] = o.in[1] /\ q.out[1] = packed /\ r.in[1] = packed
         /\ \A k \in 1 .. 3 : r.out[k] = P[k].out[1]
    BY <2>4, <2>10, <2>11
  <2>14. Fits(e, q)
    <3>1. \A t : Uses(q, t) => t \in Declared(e)
      BY <2>2, <2>8, <2>9, <2>12, <2>13 DEF Uses
    <3>2. /\ \A j \in DOMAIN q.in : DType(e, q.in[j]) = DType(c, x)
          /\ \A k \in DOMAIN q.out : DType(e, q.out[k]) = DType(c, x)
      BY <2>2, <2>8, <2>9, <2>12, <2>13
    <3>3. SameType(e, q)
      BY <3>2 DEF SameType
    <3>4. QED
      BY <2>10, <3>1, <3>3 DEF Fits
  <2>15. Fits(e, r)
    <3>1. \A k \in DOMAIN r.out : r.out[k] \in Declared(e) /\ DType(e, r.out[k]) = DType(c, x)
      BY <2>2, <2>9, <2>12, <2>13
    <3>2. \A j \in DOMAIN r.in : r.in[j] \in Declared(e) /\ DType(e, r.in[j]) = DType(c, x)
      BY <2>8, <2>12, <2>13
    <3>3. SameType(e, r)
      BY <3>1, <3>2 DEF SameType
    <3>4. \A t : Uses(r, t) => t \in Declared(e)
      BY <3>1, <3>2 DEF Uses
    <3>5. QED
      BY <2>11, <3>3, <3>4 DEF Fits
  <2>16. IsSeq(<<q, r>>) /\ ToSet(<<q, r>>) = {q, r}
    BY TwoIs
  <2>17. ASSUME NEW V, Solves(field, c, V)
         PROVE  \E W : /\ \A t \in Declared(c) : W[t] = V[t]
                       /\ \A s \in ToSet(<<q, r>>) : Law(field, e, s, W)
    <3> DEFINE i == P[1].attr.implementation
               type == DType(c, x)
               value == Projected(field, i, type, V[x], V[o.in[1]])
               W == [t \in Declared(e) |-> IF t = packed THEN value ELSE V[t]]
    <3>1. (\A t \in Declared(c) : W[t] = V[t]) /\ W[packed] = value
      BY <2>8, <2>9
    <3> HIDE DEF W
    <3>2. Law(field, e, q, W)
      <4>1. W[q.out[1]] = Projected(field, q.attr.implementation, DType(e, q.out[1]), W[q.in[1]], W[q.in[2]])
        BY <2>2, <2>8, <2>10, <2>13, <3>1
      <4>2. Len(q.in) = 2
        BY <2>10
      <4>3. QED
        BY <2>10, <4>1, <4>2, LinearLaw
    <3>3. ASSUME NEW k \in DOMAIN r.out PROVE W[r.out[k]] = DeinterleaveTerm(k, W[r.in[1]])
      <4>1. k \in 1 .. 3 /\ k \in DOMAIN o.out
        BY <2>2, <2>12
      <4>2. Law(field, c, o, V) /\ Law(field, c, P[k], V)
        BY <2>2, <2>17, <4>1 DEF Solves
      <4>3. V[o.out[k]] = Term("H3DeinterleaveQkvWeight", <<k>>, <<V[o.in[1]]>>)
        BY <2>2, <2>6, <4>1, <4>2, PartLaw
      <4>4. V[P[k].out[1]] = Projected(field, P[k].attr.implementation, DType(c, P[k].out[1]),
                                       V[P[k].in[1]], V[P[k].in[2]])
        BY <2>2, <4>1, <4>2, LinearLaw
      <4>5. V[P[k].out[1]] = Projected(field, i, type, V[x], V[o.out[k]])
        BY <2>2, <4>1, <4>4
      <4>6. DeinterleaveTerm(k, value) = V[P[k].out[1]]
        BY <4>3, <4>5, RowsProject
      <4>7. QED
        BY <2>2, <2>13, <3>1, <4>1, <4>6
    <3>4. Law(field, e, r, W)
      BY <2>11, <3>3, DeinterleaveLaw
    <3>5. QED
      BY <2>16, <3>1, <3>2, <3>4
  <2>18. Sane(Prune(Splice(e, ids, <<q, r>>))) /\ Follows(field, c, Prune(Splice(e, ids, <<q, r>>)))
    <3> DEFINE new == <<info>>
               ops == <<q, r>>
    <3>1. IsSeq(new) /\ \A k \in 1 .. Len(new) : TensorFields \subseteq DOMAIN new[k] /\ new[k].roles = {}
      BY <2>5, OneIs
    <3>2. e = Declare(c, new) /\ IsSeq(ops) /\ Declared(c) # {}
      BY <2>2, <2>16 DEF e
    <3>3. \A s \in ToSet(ops) : Fits(e, s)
      BY <2>14, <2>15, <2>16
    <3>4. \A V : Solves(field, c, V) =>
                  \E W : /\ \A t \in Declared(c) : W[t] = V[t]
                         /\ \A s \in ToSet(ops) : Law(field, e, s, W)
      BY <2>17
    <3> HIDE DEF new, ops
    <3>5. Sane(Prune(Splice(e, ids, ops))) /\ Follows(field, c, Prune(Splice(e, ids, ops)))
      BY <2>3, <3>1, <3>2, <3>3, <3>4, SpliceKeeps
    <3>6. QED
      BY <3>5 DEF ops
  <2>19. QED
    BY <2>1, <2>18 DEF e
<1>3. QED
  BY <1>1, <1>2

LEMMA SplitQkvKeeps ==
  ASSUME NEW c, Sane(c), NEW id, NEW field \in Fields
  PROVE  Sane(SplitQkvAt(c, id)) /\ Follows(field, c, SplitQkvAt(c, id))
<1> DEFINE o == c.ops[At(c, id)]
           p == c.ops[Writer(c, o.in[1])]
           w == c.tensors[p.in[2]]
           y == Dims(c, o.out[1])
           first == FreshTensor(c)
           next == FreshOperation(c)
           info == Temporary(w.dtype, <<y[2] * y[3], w.dims[2]>>)
           new == [k \in 1 .. 3 |-> info]
           parts == [k \in 1 .. 3 |-> first + k - 1]
           e == Declare(c, new)
           q == Operation(next, "H3DeinterleaveQkvWeight", <<p.in[2]>>, parts, PlainAttr)
           L == [k \in 1 .. 3 |->
                   Operation(next + k, "Linear", <<p.in[1], first + k - 1>>, <<o.out[k]>>, p.attr)]
           ops == <<q>> \o L
<1>1. CASE ~c.ok \/ ~Has(c, id) \/ ~QkvSplitSite(c, o)
  BY <1>1, IllegalFollows DEF SplitQkvAt
<1>2. CASE c.ok /\ Has(c, id) /\ QkvSplitSite(c, o)
  <2>1. SplitQkvAt(c, id) = Prune(Splice(e, {p.id, id}, ops))
    BY <1>2, Zenon DEF SplitQkvAt
  <2>2. /\ o \in ToSet(c.ops) /\ o.op = "H3DeinterleaveQkv" /\ Len(o.out) = 3
        /\ Writes(c, o.in[1]) # {} /\ p.op = "Linear" /\ Len(p.in) = 2
    <3>1. o \in ToSet(c.ops)
      BY <1>2, AtIs
    <3> HIDE DEF o
    <3>2. QED
      BY <1>2, <3>1, Zenon DEF QkvSplitSite
  <2>3. \E i \in Positions(c) : c.ops[i].id \in {p.id, id}
    BY <1>2, AtIs
  <2>4. p \in ToSet(c.ops) /\ \E k \in DOMAIN p.out : p.out[k] = o.in[1]
    BY <2>2, WriterIs
  <2>5. /\ info.roles = {} /\ info.dtype = DType(c, p.in[2]) /\ TensorFields \subseteq DOMAIN info
    BY DEF Temporary, TensorFields, DType
  <2>6. /\ new = [k \in 1 .. 3 |-> new[k]] /\ parts = [k \in 1 .. 3 |-> parts[k]]
        /\ L = [k \in 1 .. 3 |-> L[k]]
        /\ \A k \in 1 .. 3 : /\ new[k] = info /\ parts[k] = first + k - 1
                             /\ L[k] = Operation(next + k, "Linear", <<p.in[1], parts[k]>>, <<o.out[k]>>, p.attr)
    OBVIOUS
  <2> HIDE DEF o, p, w, y, first, next, info, new, parts, L
  <2>7. /\ Fits(c, o) /\ Shaped(o) /\ DOMAIN o.in = 1 .. 1 /\ DOMAIN o.out = 1 .. 3
        /\ Fits(c, p) /\ Shaped(p) /\ DOMAIN p.in = 1 .. 2 /\ DOMAIN p.out = 1 .. 1
        /\ p.in[1] \in Declared(c) /\ p.in[2] \in Declared(c)
        /\ \A k \in 1 .. 3 : o.out[k] \in Declared(c)
    BY <2>2, <2>4, OperationFits DEF Shaped
  <2>8. p.out[1] = o.in[1]
    BY <2>4, <2>7
  <2>9. PICK type : /\ DType(c, p.in[1]) = type /\ DType(c, p.in[2]) = type
                    /\ DType(c, p.out[1]) = type /\ \A k \in 1 .. 3 : DType(c, o.out[k]) = type
    <3>1. SameType(c, o) /\ SameType(c, p)
      BY <2>2, <2>7 DEF Fits
    <3>2. PICK type : /\ \A j \in DOMAIN p.in : DType(c, p.in[j]) = type
                      /\ \A k \in DOMAIN p.out : DType(c, p.out[k]) = type
      BY <3>1 DEF SameType
    <3>3. DType(c, o.in[1]) = type
      BY <2>7, <2>8, <3>2
    <3>4. \A k \in 1 .. 3 : DType(c, o.out[k]) = type
      BY <2>7, <3>1, <3>3 DEF SameType
    <3>5. QED
      BY <2>7, <3>2, <3>4
  <2>10. /\ IsSeq(new) /\ Len(new) = 3
         /\ \A k \in 1 .. Len(new) : TensorFields \subseteq DOMAIN new[k] /\ new[k].roles = {}
    BY <2>5, <2>6, ThreeBuilt
  <2>11. /\ first \in Nat /\ Sane(e) /\ Extends(c, e) /\ Declared(c) \subseteq Declared(e)
         /\ \A k \in 1 .. 3 : \A t : t = first + k - 1 =>
              t \in Declared(e) /\ t \notin Declared(c) /\ e.tensors[t] = new[k]
    <3>1. Declared(c) # {} /\ 1 .. Len(new) = 1 .. 3
      BY <2>7, <2>10
    <3> HIDE DEF e
    <3>2. /\ first \in Nat /\ Sane(e) /\ Extends(c, e) /\ Declared(c) \subseteq Declared(e)
          /\ \A k \in 1 .. Len(new) : \A t : t = first + k - 1 =>
               t \in Declared(e) /\ t \notin Declared(c) /\ e.tensors[t] = new[k]
      BY <2>10, <3>1, DeclareKeeps DEF first, e
    <3>3. QED
      BY <3>1, <3>2
  <2> HIDE DEF e
  <2>12. \A t \in Declared(c) : DType(e, t) = DType(c, t) /\ t \in Declared(e)
    BY <2>11, TypesKept DEF Typed
  <2>13. \A k \in 1 .. 3 : /\ parts[k] \in Declared(e) /\ parts[k] \notin Declared(c)
                           /\ DType(e, parts[k]) = type
    BY <2>5, <2>6, <2>9, <2>11 DEF DType
  <2>14. /\ q.op = "H3DeinterleaveQkvWeight" /\ q.in = <<p.in[2]>> /\ q.out = parts /\ Shaped(q)
    <3>1. IsSeq(<<p.in[2]>>) /\ Len(<<p.in[2]>>) = 1 /\ IsSeq(parts)
      BY <2>6, OneIs, ThreeBuilt
    <3>2. QED
      BY <3>1, PlainIs, OperationIs
  <2> HIDE DEF q
  <2>15. /\ DOMAIN q.in = {1} /\ q.in[1] = p.in[2] /\ DOMAIN q.out = 1 .. 3
    BY <2>6, <2>14, OneIs, ThreeBuilt
  <2>16. Fits(e, q)
    <3>1. \A t : Uses(q, t) => t \in Declared(e)
      BY <2>7, <2>12, <2>13, <2>14, <2>15 DEF Uses
    <3>2. QED
      BY <2>14, <3>1 DEF Fits
  <2>17. ASSUME NEW k \in 1 .. 3
         PROVE  /\ Fits(e, L[k]) /\ Shaped(L[k]) /\ L[k].op = "Linear" /\ Len(L[k].in) = 2
                /\ L[k].in[1] = p.in[1] /\ L[k].in[2] = parts[k] /\ L[k].out[1] = o.out[k]
                /\ L[k].attr = p.attr /\ DType(e, L[k].out[1]) = type
    <3> DEFINE l == L[k]
    <3>1. /\ IsSeq(<<p.in[1], parts[k]>>) /\ Len(<<p.in[1], parts[k]>>) = 2
          /\ IsSeq(<<o.out[k]>>) /\ Len(<<o.out[k]>>) = 1
      BY OneIs, TwoIs
    <3>2. l = Operation(next + k, "Linear", <<p.in[1], parts[k]>>, <<o.out[k]>>, p.attr)
      BY <2>6
    <3>3. {"implementation", "accumulator"} \subseteq DOMAIN p.attr
      BY <2>7 DEF Shaped
    <3> HIDE DEF l
    <3>4. /\ l.op = "Linear" /\ l.in = <<p.in[1], parts[k]>> /\ l.out = <<o.out[k]>>
          /\ l.attr = p.attr /\ Shaped(l)
      BY <3>1, <3>2, <3>3, OperationIs
    <3>5. /\ DOMAIN l.in = {1, 2} /\ DOMAIN l.out = {1}
          /\ l.in[1] = p.in[1] /\ l.in[2] = parts[k] /\ l.out[1] = o.out[k] /\ Len(l.in) = 2
      BY <3>4, OneIs, TwoIs
    <3>6. \A j \in DOMAIN l.in : l.in[j] \in Declared(e) /\ DType(e, l.in[j]) = type
      BY <2>7, <2>9, <2>12, <2>13, <3>5
    <3>7. \A j \in DOMAIN l.out : l.out[j] \in Declared(e) /\ DType(e, l.out[j]) = type
      BY <2>7, <2>9, <2>12, <3>5
    <3>8. SameType(e, l)
      BY <3>6, <3>7 DEF SameType
    <3>9. Fits(e, l)
      BY <3>4, <3>6, <3>7, <3>8 DEF Fits, Uses
    <3>10. QED
      BY <3>4, <3>5, <3>7, <3>9 DEF l
  <2>18. IsSeq(ops) /\ ToSet(ops) = {q} \cup {L[k] : k \in 1 .. 3}
    BY <2>6, OneIs, ThreeBuilt, JoinedIs
  <2> HIDE DEF ops
  <2>19. ASSUME NEW V, Solves(field, c, V)
         PROVE  \E W : /\ \A t \in Declared(c) : W[t] = V[t]
                       /\ \A s \in ToSet(ops) : Law(field, e, s, W)
    <3> DEFINE i == p.attr.implementation
               value(k) == Term("H3DeinterleaveQkvWeight", <<k>>, <<V[p.in[2]]>>)
               W == [t \in Declared(e) |-> IF t \in Declared(c) THEN V[t] ELSE value(t - first + 1)]
    <3>1. (\A t \in Declared(c) : W[t] = V[t]) /\ \A k \in 1 .. 3 : W[parts[k]] = value(k)
      <4>1. \A t \in Declared(c) : W[t] = V[t]
        BY <2>12
      <4>2. ASSUME NEW k \in 1 .. 3 PROVE W[parts[k]] = value(k)
        <5>1. parts[k] - first + 1 = k
          BY <2>6, <2>11
        <5>2. W[parts[k]] = value(parts[k] - first + 1)
          BY <2>13
        <5>3. QED
          BY <5>1, <5>2
      <4>3. QED
        BY <4>1, <4>2
    <3> HIDE DEF W
    <3>2. Law(field, e, q, W)
      <4>1. \A k \in DOMAIN q.out : W[q.out[k]] = Term("H3DeinterleaveQkvWeight", <<k>>, <<W[q.in[1]]>>)
        BY <2>7, <2>14, <2>15, <3>1
      <4>2. QED
        BY <2>14, <4>1, PartLaw
    <3>3. ASSUME NEW k \in 1 .. 3 PROVE Law(field, e, L[k], W)
      <4>1. Law(field, c, o, V) /\ Law(field, c, p, V)
        BY <2>2, <2>4, <2>19 DEF Solves
      <4>2. V[o.out[k]] = DeinterleaveTerm(k, V[o.in[1]])
        BY <2>2, <2>7, <4>1, DeinterleaveLaw
      <4>3. V[p.out[1]] = Projected(field, i, DType(c, p.out[1]), V[p.in[1]], V[p.in[2]])
        BY <2>2, <2>7, <4>1, LinearLaw
      <4>4. V[o.out[k]] = Projected(field, i, type, V[p.in[1]], value(k))
        BY <2>8, <2>9, <4>2, <4>3, RowsProject
      <4>5. W[L[k].out[1]] = Projected(field, L[k].attr.implementation, DType(e, L[k].out[1]),
                                       W[L[k].in[1]], W[L[k].in[2]])
        BY <2>7, <2>17, <3>1, <4>4
      <4>6. QED
        BY <2>17, <4>5, LinearLaw
    <3>4. QED
      BY <2>18, <3>1, <3>2, <3>3
  <2>20. \A s \in ToSet(ops) : Fits(e, s)
    BY <2>16, <2>17, <2>18
  <2>21. Sane(Prune(Splice(e, {p.id, id}, ops))) /\ Follows(field, c, Prune(Splice(e, {p.id, id}, ops)))
    <3> DEFINE ids == {p.id, id}
    <3>1. \E i \in Positions(c) : c.ops[i].id \in ids
      BY <2>3
    <3>2. Declared(c) # {}
      BY <2>7
    <3> HIDE DEF ids
    <3>3. Sane(Prune(Splice(e, ids, ops))) /\ Follows(field, c, Prune(Splice(e, ids, ops)))
      BY <2>10, <2>18, <2>19, <2>20, <3>1, <3>2, SpliceKeeps DEF e
    <3>4. QED
      BY <3>3 DEF ids
  <2>22. QED
    BY <2>1, <2>21
<1>3. QED
  BY <1>1, <1>2

LEMMA JoinedLength ==
  ASSUME NEW s, IsSeq(s), NEW u, IsSeq(u)
  PROVE  /\ Len(s \o u) = Len(s) + Len(u) /\ DOMAIN (s \o u) = 1 .. Len(s) + Len(u)
         /\ \A i \in 1 .. Len(s) : (s \o u)[i] = s[i]
         /\ \A i \in 1 .. Len(u) : (s \o u)[Len(s) + i] = u[i]
<1> DEFINE S == ToSet(s) \cup ToSet(u)
<1>1. s \in Seq(S) /\ u \in Seq(S)
  BY SeqIs DEF IsSeq, ToSet
<1> HIDE DEF S
<1>2. QED
  BY <1>1

LEMMA CastFits ==
  ASSUME NEW c, NEW id, NEW x \in Declared(c), NEW y \in Declared(c),
         NEW o, o = Operation(id, "Cast", <<x>>, <<y>>, PlainAttr)
  PROVE  Fits(c, o) /\ \A V : Law("real", c, o, V) <=> V[y] = V[x]
<1>1. /\ o.op = "Cast" /\ o.in = <<x>> /\ o.out = <<y>> /\ o.attr = PlainAttr
      /\ {"id", "op", "in", "out", "attr"} \subseteq DOMAIN o
  BY DEF Operation
<1>2. IsSeq(o.in) /\ Len(o.in) = 1 /\ DOMAIN o.in = {1} /\ o.in[1] = x
  BY <1>1, OneIs
<1>3. IsSeq(o.out) /\ Len(o.out) = 1 /\ DOMAIN o.out = {1} /\ o.out[1] = y
  BY <1>1, OneIs
<1>4. Shaped(o)
  BY <1>1, <1>2, <1>3, PlainIs DEF Shaped
<1>5. Fits(c, o)
  BY <1>1, <1>2, <1>3, <1>4 DEF Fits, Uses
<1>6. ASSUME NEW V PROVE Law("real", c, o, V) <=> V[y] = V[x]
  BY <1>1, <1>2, <1>3, <1>4, CastLaw DEF Fields
<1>7. QED
  BY <1>5, <1>6

(* An operation of another precision, between casts.                       *)
LEMMA SetPrecisionKeeps ==
  ASSUME NEW c, Sane(c), NEW id, NEW target
  PROVE  Sane(SetPrecision(c, id, target)) /\ Follows("real", c, SetPrecision(c, id, target))
<1> DEFINE i == At(c, id)
           o == c.ops[i]
           t0 == FreshTensor(c)
           next == FreshOperation(c)
           n == Len(o.in)
           copy(k) == t0 + k - 1
           cast(k) == Operation(next + k - 1, "Cast",
                        IF k <= n THEN <<o.in[k]>> ELSE <<copy(k)>>,
                        IF k <= n THEN <<copy(k)>> ELSE <<o.out[k - n]>>, PlainAttr)
           moved == [o EXCEPT !.in = [k \in DOMAIN @ |-> copy(k)],
                              !.out = [k \in DOMAIN @ |-> copy(n + k)],
                              !.attr.implementation = IF o.op = "Linear" /\ @ = 2 /\ target # F32
                                                      THEN 1 ELSE @]
           new == [k \in DOMAIN Operands(o) |-> Temporary(target, Dims(c, Operands(o)[k]))]
           e == Declare(c, new)
           before == [k \in 1 .. n |-> cast(k)]
           after == [k \in 1 .. Len(o.out) |-> cast(n + k)]
           ops == before \o <<moved>> \o after
           d == Replace(e, i, ops)
<1>1. CASE ~Has(c, id) \/ ~UniformFloat(c, o) \/ DType(c, Operands(o)[1]) = target
  BY <1>1, IllegalFollows DEF SetPrecision
<1>2. CASE Has(c, id) /\ UniformFloat(c, o) /\ DType(c, Operands(o)[1]) # target
  <2>0. SetPrecision(c, id, target) = d
    BY <1>2 DEF SetPrecision
  <2>1. o \in ToSet(c.ops) /\ i \in Positions(c) /\ o.op \in {"Add", "Linear", "BiasAdd"}
    BY <1>2, AtIs DEF UniformFloat, DTypeUniform
  <2> HIDE DEF o, i
  <2>2. /\ Shaped(o) /\ Fits(c, o) /\ Len(o.out) = 1 /\ DOMAIN o.out = 1 .. 1
        /\ n \in Nat /\ DOMAIN o.in = 1 .. n /\ o.out[1] \in Declared(c)
        /\ \A j \in 1 .. n : o.in[j] \in Declared(c)
    <3>1. Shaped(o)
      BY <2>1, OperationFits
    <3>2. Len(o.out) = 1
      BY <2>1, <3>1 DEF Shaped
    <3>3. QED
      BY <2>1, <3>1, <3>2, OperationFits
  <2>3. Len(Operands(o)) = n + 1 /\ DOMAIN Operands(o) = 1 .. n + 1
    <3>1. IsSeq(o.in) /\ IsSeq(o.out)
      BY <2>2 DEF Shaped
    <3>2. /\ Len(o.in \o o.out) = Len(o.in) + Len(o.out)
          /\ DOMAIN (o.in \o o.out) = 1 .. Len(o.in) + Len(o.out)
      BY <3>1, JoinedLength
    <3>3. Operands(o) = o.in \o o.out
      BY DEF Operands
    <3>4. QED
      BY <2>2, <3>2, <3>3
  <2>4. IsSeq(new) /\ Len(new) = n + 1
    <3>1. n + 1 \in Nat
      BY <2>2
    <3>2. QED
      BY <2>3, <3>1, SeqBuilt
  <2>5. \A k \in 1 .. Len(new) : TensorFields \subseteq DOMAIN new[k] /\ new[k].roles = {} /\ new[k].dtype = target
    BY <2>3, <2>4 DEF Temporary, TensorFields
  <2> HIDE DEF new
  <2>6. /\ t0 \in Nat /\ Sane(e) /\ Extends(c, e) /\ e.ops = c.ops /\ Declared(c) \subseteq Declared(e)
        /\ \A k \in 1 .. Len(new) : \A t : t = t0 + k - 1 =>
             t \in Declared(e) /\ t \notin Declared(c) /\ e.tensors[t] = new[k]
    BY <2>2, <2>4, <2>5, DeclareKeeps
  <2> HIDE DEF e, t0, next
  <2>7. \A k \in 1 .. n + 1 : /\ copy(k) \in Declared(e) /\ copy(k) \notin Declared(c)
                              /\ DType(e, copy(k)) = target
    BY <2>4, <2>5, <2>6 DEF DType
  <2>8. \A k \in 1 .. n : Fits(e, cast(k)) /\ \A V : Law("real", e, cast(k), V) <=> V[copy(k)] = V[o.in[k]]
    <3> SUFFICES ASSUME NEW k \in 1 .. n
                 PROVE  Fits(e, cast(k)) /\ \A V : Law("real", e, cast(k), V) <=> V[copy(k)] = V[o.in[k]]
      OBVIOUS
    <3>1. copy(k) \in Declared(e) /\ o.in[k] \in Declared(e) /\ k <= n
      BY <2>2, <2>6, <2>7
    <3>2. cast(k) = Operation(next + k - 1, "Cast", <<o.in[k]>>, <<copy(k)>>, PlainAttr)
      BY <3>1
    <3> HIDE DEF cast, copy, n
    <3>3. QED
      BY <3>1, <3>2, CastFits
  <2>9. Fits(e, cast(n + 1)) /\ \A V : Law("real", e, cast(n + 1), V) <=> V[o.out[1]] = V[copy(n + 1)]
    <3>1. copy(n + 1) \in Declared(e) /\ o.out[1] \in Declared(e) /\ ~(n + 1 <= n) /\ n + 1 - n = 1
      BY <2>2, <2>6, <2>7
    <3>2. cast(n + 1) = Operation(next + (n + 1) - 1, "Cast", <<copy(n + 1)>>, <<o.out[1]>>, PlainAttr)
      BY <3>1
    <3> HIDE DEF cast, copy, n
    <3>3. QED
      BY <3>1, <3>2, CastFits
  <2>10. /\ DOMAIN moved = DOMAIN o /\ moved.op = o.op
         /\ moved.in = [k \in 1 .. n |-> copy(k)] /\ moved.out = [k \in 1 .. 1 |-> copy(n + k)]
         /\ DOMAIN moved.attr = DOMAIN o.attr
    BY <2>2 DEF Shaped
  <2> HIDE DEF moved
  <2>11. /\ IsSeq(moved.in) /\ Len(moved.in) = n /\ DOMAIN moved.in = 1 .. n
         /\ IsSeq(moved.out) /\ Len(moved.out) = 1 /\ DOMAIN moved.out = 1 .. 1
         /\ moved.out[1] = copy(n + 1) /\ \A k \in 1 .. n : moved.in[k] = copy(k)
    <3> HIDE DEF copy
    <3>1. IsSeq(moved.in) /\ Len(moved.in) = n /\ DOMAIN moved.in = 1 .. n
      BY <2>2, <2>10, SeqBuilt
    <3>2. 1 \in Nat /\ IsSeq(moved.out) /\ Len(moved.out) = 1 /\ DOMAIN moved.out = 1 .. 1
      BY <2>10, SeqBuilt
    <3>3. QED
      BY <2>10, <3>1, <3>2
  <2>12. Fits(e, moved)
    <3>1. Shaped(moved)
      BY <2>1, <2>2, <2>10, <2>11 DEF Shaped
    <3>2. \A t : Uses(moved, t) => t \in Declared(e) /\ DType(e, t) = target
      <4> HIDE DEF copy
      <4>1. \A k \in 1 .. n : k \in 1 .. n + 1
        BY <2>2
      <4>2. n + 1 \in 1 .. n + 1
        BY <2>2
      <4>3. QED
        BY <2>7, <2>11, <4>1, <4>2 DEF Uses
    <3>3. SameType(e, moved)
      BY <3>2 DEF SameType, Uses
    <3>4. QED
      BY <3>1, <3>2, <3>3 DEF Fits
  <2>13. /\ IsSeq(ops)
         /\ \A s \in ToSet(ops) : s = moved \/ s = cast(n + 1) \/ \E k \in 1 .. n : s = cast(k)
    <3> HIDE DEF cast
    <3>1. IsSeq(before) /\ DOMAIN before = 1 .. n
      BY <2>2, SeqBuilt
    <3>2. IsSeq(after) /\ DOMAIN after = 1 .. 1
      <4>1. after = [k \in 1 .. 1 |-> cast(n + k)]
        BY <2>2
      <4>2. QED
        BY <4>1, SeqBuilt
    <3>3. ToSet(before) = {cast(k) : k \in 1 .. n}
      BY <3>1 DEF ToSet
    <3>4. ToSet(after) = {cast(n + 1)}
      BY <2>2, <3>2 DEF ToSet
    <3> HIDE DEF before, after
    <3>5. IsSeq(<<moved>>) /\ ToSet(<<moved>>) = {moved}
      BY OneIs
    <3>6. /\ IsSeq(before \o <<moved>>)
          /\ ToSet(before \o <<moved>>) = {cast(k) : k \in 1 .. n} \cup {moved}
      BY <3>1, <3>3, <3>5, JoinedIs
    <3>7. /\ IsSeq(before \o <<moved>> \o after)
          /\ ToSet(before \o <<moved>> \o after)
               = {cast(k) : k \in 1 .. n} \cup {moved} \cup {cast(n + 1)}
      BY <3>2, <3>4, <3>6, JoinedIs
    <3>8. QED
      BY <3>7
  <2> HIDE DEF ops, cast
  <2>14. \A s \in ToSet(ops) : Fits(e, s)
    BY <2>8, <2>9, <2>12, <2>13
  <2>15. ASSUME NEW V, Solves("real", c, V)
         PROVE  \E W : /\ \A t \in Declared(c) : W[t] = V[t]
                       /\ \A s \in ToSet(ops) : Law("real", e, s, W)
    <3> DEFINE val(k) == IF k <= n THEN V[o.in[k]] ELSE V[o.out[1]]
               W == [t \in Declared(e) |-> IF t \in Declared(c) THEN V[t] ELSE val(t - t0 + 1)]
    <3>1. \A t \in Declared(c) : W[t] = V[t]
      BY <2>6
    <3>2. \A k \in 1 .. n + 1 : W[copy(k)] = val(k)
      <4> SUFFICES ASSUME NEW k \in 1 .. n + 1 PROVE W[copy(k)] = val(k)
        OBVIOUS
      <4>1. copy(k) - t0 + 1 = k
        BY <2>2, <2>6
      <4>2. W[copy(k)] = val(copy(k) - t0 + 1)
        BY <2>7
      <4>3. QED
        BY <4>1, <4>2
    <3>3. (\A k \in 1 .. n : val(k) = V[o.in[k]]) /\ val(n + 1) = V[o.out[1]]
      BY <2>2
    <3> HIDE DEF W, val, copy
    <3>4. /\ \A k \in 1 .. n : W[copy(k)] = V[o.in[k]] /\ W[o.in[k]] = V[o.in[k]]
          /\ W[copy(n + 1)] = V[o.out[1]] /\ W[o.out[1]] = V[o.out[1]]
      <4>1. n + 1 \in 1 .. n + 1 /\ \A k \in 1 .. n : k \in 1 .. n + 1
        BY <2>2
      <4>2. QED
        BY <2>2, <3>1, <3>2, <3>3, <4>1
    <3>5. Law("real", e, moved, W)
      <4>1. V[o.out[1]] = Result("real", c, o, 1, Args(o, V))
        BY <2>1, <2>2, <2>15 DEF Solves, Law
      <4>2. Args(moved, W) = Args(o, V)
        BY <2>2, <2>11, <3>4 DEF Args
      <4>3. Result("real", e, moved, 1, Args(moved, W)) = Result("real", c, o, 1, Args(o, V))
        BY <2>10, <4>2 DEF Result
      <4>4. QED
        BY <2>11, <3>4, <4>1, <4>3 DEF Law
    <3>6. \A s \in ToSet(ops) : Law("real", e, s, W)
      BY <2>8, <2>9, <2>13, <3>4, <3>5
    <3>7. QED
      BY <3>1, <3>6
  <2>16. Sane(d) /\ Follows("real", c, d)
    <3>1. Declared(c) # {} /\ \A k \in 1 .. Len(new) : TensorFields \subseteq DOMAIN new[k] /\ new[k].roles = {}
      BY <2>2, <2>5
    <3>2. \A s \in ToSet(ops) : Fits(Declare(c, new), s)
      BY <2>14 DEF e
    <3>3. \A V : Solves("real", c, V) =>
                     \E W : /\ \A t \in Declared(c) : W[t] = V[t]
                            /\ \A s \in ToSet(ops) : Law("real", Declare(c, new), s, W)
      BY <2>15 DEF e
    <3>4. Replace(Declare(c, new), i, ops) = d
      BY DEF e
    <3>5. IsSeq(ops)
      BY <2>13
    <3> HIDE DEF d
    <3>6. QED
      BY <2>1, <2>4, <3>1, <3>2, <3>3, <3>4, <3>5, RewriteKeeps
  <2>17. QED
    BY <2>0, <2>16
<1>3. QED
  BY <1>1, <1>2

(* Constant folding: results that become constants.                        *)
Folding(c, o, e) ==
  /\ DOMAIN e = DOMAIN c /\ e.ops = c.ops /\ Declared(e) = Declared(c)
  /\ \A t \in Declared(c) \ ToSet(o.out) : e.tensors[t] = c.tensors[t]
  /\ \A t \in Declared(c) \cap ToSet(o.out) :
       /\ TensorFields \subseteq DOMAIN e.tensors[t] /\ DType(e, t) = DType(c, t)
       /\ "Constant" \in e.tensors[t].roles /\ e.tensors[t].roles \subseteq {"Constant", "Streamed"}
  /\ DOMAIN e.bindings = DOMAIN c.bindings \cup ToSet(o.out)
  /\ \A t \in DOMAIN c.bindings \ ToSet(o.out) : e.bindings[t] = c.bindings[t]
  /\ \A t \in ToSet(o.out) : e.bindings[t] = Computed(c, o, OutputIndex(o, t), c.bindings)

LEMMA FoldingSane ==
  ASSUME NEW c, Sane(c), NEW o \in ToSet(c.ops), NEW e, Folding(c, o, e)
  PROVE  Sane(e) /\ Typed(c, e)
<1>1. Typed(c, e)
  BY DEF Typed, Folding, DType
<1>2. WellBound(e)
  <2> SUFFICES ASSUME NEW t \in Declared(e)
               PROVE  ~(Is(e, t, "Input") /\ Is(e, t, "Constant")) /\ (t \in Bindable(e) => t \in DOMAIN e.bindings)
    BY DEF WellBound
  <2>1. CASE t \in ToSet(o.out)
    BY <2>1 DEF Folding, Is
  <2>2. CASE t \notin ToSet(o.out)
    BY <2>2 DEF Folding, Is, Sane, WellBound, Bindable
  <2>3. QED
    BY <2>1, <2>2
<1>3. \A p \in ToSet(e.ops) : Fits(e, p)
  <2>1. \A p \in ToSet(e.ops) : Fits(c, p) /\ \A t : Uses(p, t) => t \in Declared(e)
    BY DEF Folding, Sane, Fits
  <2>2. QED
    BY <1>1, <2>1, FitsStill
<1>4. \A t \in Declared(e) : TensorFields \subseteq DOMAIN e.tensors[t]
  BY DEF Folding, Sane
<1>5. QED
  BY <1>1, <1>2, <1>3, <1>4 DEF Sane, Folding

LEMMA FoldingKeeps ==
  ASSUME NEW c, Sane(c), NEW o \in ToSet(c.ops), NEW e, Folding(c, o, e),
         \A t \in ToSet(o.in) : Is(c, t, "Constant"), \A t \in ToSet(o.out) : InternalOnly(c, t),
         NEW field \in Fields
  PROVE  Carries(field, c, e)
<1>1. Results(e) = Results(c)
  <2>1. \A t \in Declared(c) : Is(e, t, "Output") <=> Is(c, t, "Output")
    <3> SUFFICES ASSUME NEW t \in Declared(c) PROVE Is(e, t, "Output") <=> Is(c, t, "Output")
      OBVIOUS
    <3>1. CASE t \in ToSet(o.out)
      BY <3>1 DEF Folding, Is, InternalOnly
    <3>2. CASE t \notin ToSet(o.out)
      BY <3>2 DEF Folding, Is
    <3>3. QED
      BY <3>1, <3>2
  <2>2. QED
    BY <2>1 DEF Results, Folding
<1>2. ASSUME NEW V, Solves(field, c, V) PROVE Solves(field, e, V)
  <2>1. ASSUME NEW p \in ToSet(e.ops) PROVE Law(field, e, p, V)
    <3>1. p \in ToSet(c.ops)
      BY DEF Folding
    <3>2. Fits(c, p) /\ Law(field, c, p, V)
      BY <1>2, <3>1 DEF Sane, Solves
    <3>3. \A t : Uses(p, t) => t \in Declared(e)
      BY <3>2 DEF Fits, Folding
    <3>4. QED
      BY <3>2, <3>3, LawStill, FoldingSane
  <2>2. ASSUME NEW t \in Bindable(e), t \in ToSet(o.out) PROVE V[t] = Given(e)[t][field]
    <3> DEFINE k == OutputIndex(o, t)
    <3>1. k \in DOMAIN o.out /\ o.out[k] = t
      BY <2>2, OutputIndexIs
    <3> HIDE DEF k
    <3>2. Given(e)[t] = Computed(c, o, k, c.bindings)
      <4>1. t \in Declared(c) /\ ~Is(e, t, "Input")
        BY <2>2 DEF Bindable, Folding, Is
      <4>2. Given(e)[t] = e.bindings[t]
        BY <2>2, <4>1 DEF Given
      <4>3. QED
        BY <2>2, <4>2 DEF Folding, k
    <3>3. Given(e)[t][field] = Result(field, c, o, k, [j \in DOMAIN o.in |-> c.bindings[o.in[j]][field]])
      BY <3>2, ResultOf
    <3>4. \A j \in DOMAIN o.in : V[o.in[j]] = c.bindings[o.in[j]][field]
      <4> SUFFICES ASSUME NEW j \in DOMAIN o.in PROVE V[o.in[j]] = c.bindings[o.in[j]][field]
        OBVIOUS
      <4>1. o.in[j] \in Declared(c) /\ o.in[j] \in ToSet(o.in)
        BY OperationFits DEF ToSet
      <4>2. Is(c, o.in[j], "Constant") /\ ~Is(c, o.in[j], "Input") /\ o.in[j] \in Bindable(c)
        BY <4>1 DEF Sane, WellBound, Bindable
      <4>3. Given(c)[o.in[j]] = c.bindings[o.in[j]]
        BY <4>2 DEF Given
      <4>4. QED
        BY <1>2, <4>2, <4>3 DEF Solves
    <3>5. [j \in DOMAIN o.in |-> c.bindings[o.in[j]][field]] = Args(o, V)
      BY <3>4 DEF Args
    <3>6. QED
      BY <1>2, <3>1, <3>3, <3>5 DEF Solves, Law
  <2>3. ASSUME NEW t \in Bindable(e), t \notin ToSet(o.out) PROVE V[t] = Given(e)[t][field]
    <3>1. /\ t \in Declared(c) /\ e.tensors[t] = c.tensors[t] /\ t \in Bindable(c)
          /\ Is(e, t, "Input") <=> Is(c, t, "Input")
      BY <2>3 DEF Bindable, Folding, Is
    <3>2. t \in DOMAIN c.bindings /\ e.bindings[t] = c.bindings[t]
      BY <2>3, <3>1 DEF Sane, WellBound, Folding
    <3>3. Given(e)[t] = Given(c)[t]
      BY <2>3, <3>1, <3>2 DEF Given
    <3>4. QED
      BY <1>2, <3>1, <3>3 DEF Solves
  <2>4. QED
    BY <2>1, <2>2, <2>3 DEF Solves
<1>3. QED
  BY <1>1, <1>2 DEF Carries

LEMMA FoldKeeps ==
  ASSUME NEW c, Sane(c), NEW id, NEW arithmetic \in BOOLEAN, NEW field \in Fields
  PROVE  /\ Sane(FoldAt(c, id, arithmetic))
         /\ ~arithmetic => Follows(field, c, FoldAt(c, id, arithmetic))
<1> DEFINE o == c.ops[At(c, id)]
           d == FoldAt(c, id, arithmetic)
           roles == {"Constant"} \cup
                      IF o.in # <<>> /\ \A t \in ToSet(o.in) : Is(c, t, "Streamed") THEN {"Streamed"} ELSE {}
           declared == [t \in DOMAIN c.tensors |-> IF t \in ToSet(o.out)
                          THEN [c.tensors[t] EXCEPT !.roles = roles] ELSE c.tensors[t]]
           bound == [t \in DOMAIN c.bindings \cup ToSet(o.out) |->
                       IF t \in ToSet(o.out) THEN Computed(c, o, OutputIndex(o, t), c.bindings)
                       ELSE c.bindings[t]]
           e == [c EXCEPT !.tensors = declared, !.bindings = bound]
<1>1. CASE d = Illegal(c)
  BY <1>1, IllegalFollows
<1>2. CASE d # Illegal(c)
  <2>1. Has(c, id) /\ Foldable(c, o, arithmetic) /\ d = Prune(Erase(e, {id}))
    BY <1>2 DEF FoldAt
  <2>2. o \in ToSet(c.ops)
    BY <2>1, AtIs
  <2> HIDE DEF o, d
  <2>3. /\ DOMAIN e = DOMAIN c /\ e.ops = c.ops /\ e.tensors = declared /\ e.bindings = bound
    BY DEF Sane, ContextFields
  <2>4. "Constant" \in roles /\ roles \subseteq {"Constant", "Streamed"}
    OBVIOUS
  <2> HIDE DEF roles, e
  <2>5. Folding(c, o, e)
    <3>1. \A t \in Declared(c) : e.tensors[t] = IF t \in ToSet(o.out) THEN [c.tensors[t] EXCEPT !.roles = roles] ELSE c.tensors[t]
      BY <2>3 DEF Declared
    <3>2. Declared(e) = Declared(c)
      BY <2>3 DEF Declared
    <3>3. \A t \in Declared(c) \cap ToSet(o.out) :
            /\ TensorFields \subseteq DOMAIN e.tensors[t] /\ DType(e, t) = DType(c, t)
            /\ "Constant" \in e.tensors[t].roles /\ e.tensors[t].roles \subseteq {"Constant", "Streamed"}
      BY <2>4, <3>1 DEF Sane, TensorFields, DType
    <3>4. DOMAIN e.bindings = DOMAIN c.bindings \cup ToSet(o.out)
      BY <2>3
    <3>5. /\ \A t \in DOMAIN c.bindings \ ToSet(o.out) : e.bindings[t] = c.bindings[t]
          /\ \A t \in ToSet(o.out) : e.bindings[t] = Computed(c, o, OutputIndex(o, t), c.bindings)
      BY <2>3
    <3>6. QED
      BY <2>3, <3>1, <3>2, <3>3, <3>4, <3>5 DEF Folding
  <2>6. Sane(e)
    BY <2>2, <2>5, FoldingSane
  <2>7. Sane(d)
    BY <2>1, <2>6, FollowsTidied
  <2>8. ASSUME ~arithmetic PROVE Follows(field, c, d)
    <3>1. /\ \A t \in ToSet(o.in) : Is(c, t, "Constant")
          /\ \A t \in ToSet(o.out) : InternalOnly(c, t)
      BY <2>1, <2>8 DEF Foldable
    <3>2. Follows(field, c, e)
      BY <2>2, <2>5, <3>1, FoldingKeeps, CarriesFollows
    <3>3. QED
      BY <2>1, <2>6, <3>2, FollowsTidied
  <2>9. QED
    BY <2>7, <2>8 DEF d
<1>3. QED
  BY <1>1, <1>2

LEMMA FoldNextKeeps ==
  ASSUME NEW c, Sane(c), NEW arithmetic \in BOOLEAN, NEW field \in Fields
  PROVE  /\ Sane(FoldNext(c, arithmetic))
         /\ ~arithmetic => Follows(field, c, FoldNext(c, arithmetic))
<1>1. Follows(field, c, c)
  BY DEF Follows
<1>2. QED
  BY <1>1, FoldKeeps DEF FoldNext

(* Common subexpressions.  What the merges of a program c have made of it: *)
(* fewer of its operations, reading other tensors, with its results.       *)
Merged(c, d) ==
  /\ Sane(d) /\ \A field \in Fields : Carries(field, c, d)
  /\ \A t \in Declared(d) : t \in Declared(c) /\ d.tensors[t] = c.tensors[t]
  /\ \A o \in ToSet(d.ops) : \E p \in ToSet(c.ops) : p.id = o.id /\ p.out = o.out

LEMMA DuplicateIs ==
  ASSUME NEW c, Sane(c), NEW id \in ToSet(DuplicateSites(c))
  PROVE  LET i == At(c, id)
             j == Original(c, i)
         IN  /\ i \in Positions(c) /\ c.ops[i].id = id /\ j \in Positions(c)
             /\ SubexpressionKey(c, c.ops[j]) = SubexpressionKey(c, c.ops[i])
<1> DEFINE ids == {o.id : o \in {p \in ToSet(c.ops) : Duplicate(c, At(c, p.id))}}
           legal == OfIds(c.ops, ids)
           i == At(c, id)
           j == Original(c, i)
           same == {k \in Positions(c) : /\ Pure(c.ops[k]) /\ c.ops[k].out # <<>>
                                         /\ SubexpressionKey(c, c.ops[k]) = SubexpressionKey(c, c.ops[i])}
<1>1. DuplicateSites(c) = [k \in DOMAIN legal |-> legal[k].id]
  BY DEF DuplicateSites, Sites
<1>2. \A k \in DOMAIN legal : legal[k].id \in ids
  BY OfIdsWithin DEF Sane
<1> HIDE DEF legal
<1>3. id \in ids
  BY <1>1, <1>2 DEF ToSet
<1>4. PICK p \in ToSet(c.ops) : p.id = id /\ Duplicate(c, At(c, p.id))
  BY <1>3
<1>5. Has(c, id)
  BY <1>4 DEF Has, ToSet, Positions
<1>6. i \in Positions(c) /\ c.ops[i].id = id
  BY <1>5, AtIs
<1>7. Pure(c.ops[i]) /\ c.ops[i].out # <<>>
  BY <1>4 DEF Duplicate
<1>8. i \in same /\ same \subseteq Nat
  BY <1>6, <1>7, SeqIs DEF Positions, Sane, IsSeq
<1>9. j = Min(same)
  BY DEF Original
<1> HIDE DEF same
<1>10. j \in same
  BY <1>8, <1>9, MinIs
<1>11. QED
  BY <1>6, <1>10 DEF same

LEMMA MergeKeeps ==
  ASSUME NEW c, Sane(c),
         \A i, j \in Positions(c) : i # j => c.ops[i].id # c.ops[j].id,
         NEW id \in ToSet(DuplicateSites(c)), NEW d, Merged(c, d)
  PROVE  Merged(c, MergeAt(c, d, id))
<1> DEFINE i == At(c, id)
           j == Original(c, i)
           p == c.ops[i]
           q == c.ops[j]
           o == d.ops[At(d, id)]
           r == d.ops[At(d, q.id)]
           e == Erase(d, {id})
           f == Substitute(e, o.out, r.out)
           g == Prune(f)
<1>1. CASE ~Has(d, id) \/ ~Has(d, q.id)
  BY <1>1 DEF MergeAt
<1>2. CASE Has(d, id) /\ Has(d, q.id)
  <2>1. i \in Positions(c) /\ p.id = id /\ j \in Positions(c) /\ SubexpressionKey(c, q) = SubexpressionKey(c, p)
    BY DuplicateIs
  <2>2. MergeAt(c, d, id) = g
    BY <1>2 DEF MergeAt
  <2>3. o \in ToSet(d.ops) /\ o.id = id /\ r \in ToSet(d.ops) /\ r.id = q.id
    BY <1>2, AtIs
  <2>4. p \in ToSet(c.ops) /\ q \in ToSet(c.ops)
    BY <2>1 DEF ToSet, Positions
  <2>5. \A k \in Positions(c) : (c.ops[k].id = p.id => c.ops[k] = p) /\ (c.ops[k].id = q.id => c.ops[k] = q)
    BY <2>1
  <2> HIDE DEF i, j, p, q, o, r
  <2>6. \A s \in ToSet(c.ops) : (s.id = p.id => s = p) /\ (s.id = q.id => s = q)
    BY <2>5 DEF ToSet, Positions
  <2>7. o.out = p.out /\ r.out = q.out
    BY <2>1, <2>3, <2>6 DEF Merged
  <2>8. /\ q.op = p.op /\ q.in = p.in /\ q.attr = p.attr /\ DOMAIN q.out = DOMAIN p.out
        /\ \A k \in DOMAIN p.out : DType(c, q.out[k]) = DType(c, p.out[k])
    <3> DEFINE types(s) == [k \in DOMAIN s.out |-> <<DType(c, s.out[k]), Dims(c, s.out[k])>>]
    <3>1. q.op = p.op /\ q.in = p.in /\ q.attr = p.attr /\ types(q) = types(p)
      BY <2>1 DEF SubexpressionKey
    <3>2. DOMAIN types(q) = DOMAIN q.out /\ DOMAIN types(p) = DOMAIN p.out
      OBVIOUS
    <3>3. DOMAIN q.out = DOMAIN p.out
      BY <3>1, <3>2
    <3>4. ASSUME NEW k \in DOMAIN p.out PROVE DType(c, q.out[k]) = DType(c, p.out[k])
      <4>1. types(q)[k] = <<DType(c, q.out[k]), Dims(c, q.out[k])>>
        BY <3>3
      <4>2. types(p)[k] = <<DType(c, p.out[k]), Dims(c, p.out[k])>>
        OBVIOUS
      <4> HIDE DEF types
      <4>3. QED
        BY <3>1, <4>1, <4>2
    <3>5. QED
      BY <3>1, <3>3, <3>4
  <2>9. /\ Sane(e) /\ e.tensors = d.tensors /\ ToSet(e.ops) \subseteq ToSet(d.ops)
        /\ \A field \in Fields : Carries(field, d, e)
    BY EraseKeeps DEF Merged
  <2> HIDE DEF e
  <2>10. /\ \A k \in DOMAIN p.out : p.out[k] \in Declared(d)
         /\ \A k \in DOMAIN q.out : q.out[k] \in Declared(d)
    BY <2>3, <2>7, OperationFits DEF Merged
  <2>11. Stand(e, o.out, r.out)
    <3>1. \A t \in Declared(d) : t \in Declared(e) /\ DType(e, t) = DType(c, t)
      BY <2>9 DEF Merged, Declared, DType
    <3>2. QED
      BY <2>7, <2>8, <2>10, <3>1 DEF Stand
  <2>12. ASSUME NEW field \in Fields, NEW V, Solves(field, c, V)
         PROVE  \A k \in DOMAIN o.out : V[r.out[k]] = V[o.out[k]]
    <3> SUFFICES ASSUME NEW k \in DOMAIN p.out PROVE V[q.out[k]] = V[p.out[k]]
      BY <2>7
    <3>1. V[q.out[k]] = Result(field, c, q, k, Args(q, V)) /\ V[p.out[k]] = Result(field, c, p, k, Args(p, V))
      BY <2>4, <2>8, <2>12 DEF Solves, Law
    <3>2. Args(q, V) = Args(p, V)
      BY <2>8 DEF Args
    <3>3. QED
      BY <2>8, <3>1, <3>2 DEF Result
  <2>13. /\ Sane(f) /\ Results(f) = Results(e) /\ f.tensors = e.tensors
         /\ DOMAIN f.ops = DOMAIN e.ops
         /\ \A k \in DOMAIN e.ops : f.ops[k] = Renamed(e.ops[k], o.out, r.out)
         /\ \A field, V : Solves(field, e, V) /\ (\A k \in DOMAIN o.out : V[r.out[k]] = V[o.out[k]])
                            => Solves(field, f, V)
    BY <2>9, <2>11, SubstituteKeeps
  <2> HIDE DEF f
  <2>14. /\ Sane(g) /\ g.ops = f.ops /\ \A field \in Fields : Carries(field, f, g)
         /\ \A t \in Declared(g) : t \in Declared(f) /\ g.tensors[t] = f.tensors[t]
    BY <2>13, PruneKeeps
  <2> HIDE DEF g
  <2>15. ASSUME NEW field \in Fields PROVE Carries(field, c, g)
    <3>1. Carries(field, c, d) /\ Carries(field, d, e) /\ Carries(field, f, g)
      BY <2>9, <2>14 DEF Merged
    <3>2. Carries(field, c, f)
      <4>1. Results(f) = Results(c)
        BY <2>13, <3>1 DEF Carries
      <4>2. ASSUME NEW V, Solves(field, c, V) PROVE Solves(field, f, V)
        <5>1. Solves(field, e, V)
          BY <3>1, <4>2 DEF Carries
        <5>2. QED
          BY <2>12, <2>13, <4>2, <5>1
      <4>3. QED
        BY <4>1, <4>2 DEF Carries
    <3>3. QED
      BY <3>1, <3>2, CarriesOn
  <2>16. ASSUME NEW s \in ToSet(g.ops) PROVE \E u \in ToSet(c.ops) : u.id = s.id /\ u.out = s.out
    <3>1. PICK k \in DOMAIN e.ops : s = Renamed(e.ops[k], o.out, r.out)
      BY <2>13, <2>14 DEF ToSet
    <3>2. e.ops[k] \in ToSet(e.ops)
      BY DEF ToSet
    <3>3. Shaped(e.ops[k])
      BY <2>9, <3>2, OperationFits
    <3>4. s.id = e.ops[k].id /\ s.out = e.ops[k].out
      BY <3>1, <3>3, RenamedIs
    <3>5. QED
      BY <2>9, <3>2, <3>4 DEF Merged
  <2>17. \A t \in Declared(g) : t \in Declared(c) /\ g.tensors[t] = c.tensors[t]
    BY <2>9, <2>13, <2>14 DEF Merged, Declared
  <2>18. QED
    BY <2>2, <2>14, <2>15, <2>16, <2>17 DEF Merged
<1>3. QED
  BY <1>1, <1>2

-----------------------------------------------------------------------------
(* A transform, at all the places it goes to.                              *)
LEMMA FiniteBound ==
  ASSUME NEW S, S \subseteq Nat, IsFiniteSet(S)
  PROVE  \E n \in Nat : \A x \in S : x <= n
<1>0. Cardinality(S) \in Nat /\ ExistsBijection(1 .. Cardinality(S), S)
  BY FS_CardinalityType
<1>1. PICK m \in Nat : ExistsBijection(1 .. m, S)
  BY <1>0
<1>2. PICK f \in [1 .. m -> S] : \A x \in S : \E i \in 1 .. m : f[i] = x
  BY <1>1 DEF ExistsBijection, Bijection, Surjection
<1>i. \A i \in 1 .. m : f[i] \in Nat
  BY <1>2
<1> DEFINE T == {k \in Nat : k <= m => \E n \in Nat : \A i \in 1 .. k : f[i] <= n}
<1>3. 0 \in T
  OBVIOUS
<1>4. ASSUME NEW k \in Nat, k \in T PROVE k + 1 \in T
  <2> SUFFICES ASSUME k + 1 <= m PROVE \E n \in Nat : \A i \in 1 .. k + 1 : f[i] <= n
    OBVIOUS
  <2>1. PICK n \in Nat : \A i \in 1 .. k : f[i] <= n
    BY <1>4
  <2>2. f[k + 1] \in Nat /\ \A i \in 1 .. k : f[i] \in Nat
    <3>1. k + 1 \in 1 .. m /\ \A i \in 1 .. k : i \in 1 .. m
      OBVIOUS
    <3>2. QED
      BY <1>i, <3>1
  <2>3. n + f[k + 1] \in Nat /\ \A i \in 1 .. k + 1 : f[i] <= n + f[k + 1]
    <3>1. \A i \in 1 .. k + 1 : i \in 1 .. k \/ i = k + 1
      OBVIOUS
    <3>2. QED
      BY <2>1, <2>2, <3>1
  <2>4. QED
    BY <2>3
<1>5. m \in T
  <2> HIDE DEF T
  <2>1. QED
    BY <1>1, <1>3, <1>4, EveryNat
<1>6. \E n \in Nat : \A i \in 1 .. m : f[i] <= n
  BY <1>5
<1>7. QED
  BY <1>2, <1>6

LEMMA VerifiedSane == ASSUME NEW c, VerifiedContext(c), WellBound(c) PROVE Sane(c)
<1>1. ContextFields \subseteq DOMAIN c /\ IsSeq(c.ops)
  BY ContextSeq DEF VerifiedContext, IsContext, ContextFields, IsSeq
<1>2. \E n \in Nat : Declared(c) \subseteq 1 .. n
  <2>1. PICK n \in Nat : \A x \in Tensors : x <= n
    BY FiniteBound, TensorsAssumption
  <2>2. Declared(c) \subseteq Tensors \ {0} /\ Tensors \subseteq Nat
    BY TensorsAssumption DEF VerifiedContext, IsContext
  <2>3. \A t \in Declared(c) : t \in Nat /\ t # 0 /\ t <= n
    BY <2>1, <2>2
  <2>4. Declared(c) \subseteq 1 .. n
    BY <2>3
  <2>5. QED
    BY <2>4
<1>3. \A t \in Declared(c) : TensorFields \subseteq DOMAIN c.tensors[t]
  BY DEF VerifiedContext, IsContext, TensorFields
<1>4. ASSUME NEW o \in ToSet(c.ops) PROVE Fits(c, o)
  <2>1. PICK i \in Positions(c) : o = c.ops[i]
    BY DEF ToSet, Positions
  <2>2. /\ {"id", "op", "in", "out", "attr"} \subseteq DOMAIN o
        /\ {"implementation", "accumulator"} \subseteq DOMAIN o.attr
        /\ o.in \in Seq(Tensors) /\ o.out \in Seq(Tensors)
        /\ ToSet(o.in \o o.out) \subseteq Declared(c) /\ WellFormed(c, o)
    BY <2>1 DEF VerifiedContext, IsContext
  <2>3. IsSeq(o.in) /\ IsSeq(o.out)
    BY <2>2 DEF IsSeq
  <2>4. ToSet(Operands(o)) = ToSet(o.in) \cup ToSet(o.out)
    BY <2>3, JoinedIs DEF Operands
  <2>5. \A t : Uses(o, t) => t \in ToSet(Operands(o))
    BY <2>4 DEF Uses, ToSet
  <2>6. \A t : Uses(o, t) => t \in Declared(c)
    BY <2>2, <2>5 DEF Operands
  <2>7. Shaped(o)
    BY <2>2, <2>3 DEF Shaped, WellFormed, AddRule, BiasRule, CastRule, LinearRule, DeinterleaveRule,
                      DeinterleaveWeightRule, Takes
  <2>8. OneType(c, o) => SameType(c, o)
    <3>1. CASE \E t : Uses(o, t)
      <4>1. PICK u : Uses(o, u)
        BY <3>1
      <4>2. OneType(c, o) => \A t : Uses(o, t) => DType(c, t) = DType(c, u)
        BY <2>5, <4>1 DEF OneType
      <4>3. QED
        BY <4>2 DEF SameType, Uses
    <3>2. CASE ~\E t : Uses(o, t)
      BY <3>2 DEF SameType, Uses
    <3>3. QED
      BY <3>1, <3>2
  <2>9. o.op \in {"Linear", "BiasAdd", "H3DeinterleaveQkv"} => OneType(c, o)
    BY <2>2 DEF WellFormed, BiasRule, LinearRule, DeinterleaveRule
  <2>10. QED
    BY <2>6, <2>7, <2>8, <2>9 DEF Fits
<1>5. QED
  BY <1>1, <1>2, <1>3, <1>4 DEF Sane

LEMMA SitesSeq ==
  ASSUME NEW c, Sane(c), NEW ids
  PROVE  IsSeq([k \in DOMAIN OfIds(c.ops, ids) |-> OfIds(c.ops, ids)[k].id])
<1> DEFINE legal == OfIds(c.ops, ids)
<1>1. IsSeq(legal)
  BY OfIdsWithin DEF Sane
<1> HIDE DEF legal
<1>2. Len(legal) \in Nat /\ DOMAIN legal = 1 .. Len(legal)
  BY <1>1, SeqIs DEF IsSeq
<1>3. IsSeq([k \in DOMAIN legal |-> legal[k].id])
  BY <1>2, SeqBuilt
<1>4. QED
  BY <1>3 DEF legal

SiteKinds == Structural \cup {"SetLinearImplementation"}

LEMMA AvailableSeq ==
  ASSUME NEW c, Sane(c), NEW tr, tr.kind \in SiteKinds
  PROVE  IsSeq(Available(tr, c))
<1>1. IsSeq(<<>>)
  BY DEF IsSeq
<1>2. IsSeq([i \in DOMAIN c.ops |-> i])
  BY SeqIs, SeqBuilt DEF Sane, IsSeq
<1>3. IsSeq(DeadSites(c))
  BY SitesSeq DEF DeadSites, Sites
<1>4. IsSeq(DuplicateSites(c))
  BY SitesSeq DEF DuplicateSites, Sites
<1>5. IsSeq(BiasSites(c))
  BY SitesSeq DEF BiasSites, Sites
<1>6. IsSeq(QkvFusionSites(c))
  BY SitesSeq DEF QkvFusionSites, Sites
<1>7. IsSeq(QkvSplitSites(c))
  BY SitesSeq DEF QkvSplitSites, Sites
<1>8. IsSeq(RoundTrips(c))
  BY SitesSeq DEF RoundTrips, Sites
<1>9. IsSeq(Sites(c, LAMBDA o : o.op = "Linear" /\ ~Pinned(o)))
  BY SitesSeq DEF Sites
<1>10. QED
  BY <1>1, <1>2, <1>3, <1>4, <1>5, <1>6, <1>7, <1>8, <1>9 DEF Available, SiteKinds, Structural

(* The transforms that keep a field of the values; all keep it that a      *)
(* transform computes with, exact or real, but the folding of arithmetic   *)
(* looks at the inputs that happen to be bound.                            *)
Keeps(field, tr) ==
  /\ tr.kind = "FoldConstantSubgraph" => tr.parameter # 1
  /\ tr.kind \in Numeric => field = "real"

Track(field, tr, c, d) ==
  /\ Sane(d)
  /\ Keeps(field, tr) => Follows(field, c, d)
  /\ tr.kind = "CommonSubexpression" => Merged(c, d)

LEMMA TrackStart ==
  ASSUME NEW c, Sane(c), NEW tr, NEW field PROVE Track(field, tr, c, c)
<1>1. \A f : Follows(f, c, c) /\ Carries(f, c, c)
  BY DEF Follows, Carries
<1>2. QED
  BY <1>1 DEF Track, Merged

LEMMA AtSiteKeeps ==
  ASSUME NEW c, Sane(c), \A i, j \in Positions(c) : i # j => c.ops[i].id # c.ops[j].id,
         NEW tr, tr.kind \in SiteKinds, NEW id,
         tr.kind = "CommonSubexpression" => id \in ToSet(DuplicateSites(c)),
         NEW field \in Fields, NEW d, Track(field, tr, c, d)
  PROVE  Track(field, tr, c, AtSite(tr, c, d, id))
<1> DEFINE e == AtSite(tr, c, d, id)
<1>1. CASE tr.kind = "CommonSubexpression"
  <2>1. e = MergeAt(c, d, id)
    BY <1>1 DEF AtSite
  <2>2. Merged(c, e)
    BY <1>1, <2>1, MergeKeeps DEF Track
  <2>3. QED
    BY <2>2, CarriesFollows DEF Track, Merged
<1>2. CASE tr.kind # "CommonSubexpression"
  <2>1. SUFFICES Sane(e) /\ (Keeps(field, tr) => Follows(field, d, e))
    BY <1>2, FollowsOn DEF Track
  <2>s. Sane(d)
    BY DEF Track
  <2>2. CASE tr.kind = "FoldConstantSubgraph"
    <3>1. (tr.parameter = 1) \in BOOLEAN /\ (e = FoldNext(d, tr.parameter = 1) \/ e = FoldAt(d, id, tr.parameter = 1))
      BY <2>2 DEF AtSite
    <3> DEFINE arithmetic == tr.parameter = 1
    <3>2. /\ Sane(FoldNext(d, arithmetic)) /\ Sane(FoldAt(d, id, arithmetic))
          /\ ~arithmetic => /\ Follows(field, d, FoldNext(d, arithmetic))
                            /\ Follows(field, d, FoldAt(d, id, arithmetic))
      <4> HIDE DEF arithmetic
      <4>1. arithmetic \in BOOLEAN
        BY <3>1 DEF arithmetic
      <4>2. QED
        BY <2>s, <4>1, FoldKeeps, FoldNextKeeps
    <3>3. QED
      BY <2>2, <3>1, <3>2 DEF Keeps
  <2>3. CASE tr.kind = "EliminateDeadOperations"
    <3>1. e = EraseDead(d, ToSet(DeadSites(d))) \/ e = EraseDead(d, {id})
      BY <2>3 DEF AtSite
    <3>2. QED
      BY <2>s, <3>1, EraseDeadKeeps
  <2>4. CASE tr.kind = "FuseLinearBias"
    <3>1. e = FuseBiasAt(d, id) /\ (Keeps(field, tr) => field = "real")
      BY <2>4 DEF AtSite, Keeps, Numeric
    <3>2. QED
      BY <2>s, <3>1, FuseBiasKeeps
  <2>5. CASE tr.kind = "FuseQkvProjection"
    <3>1. e = FuseQkvAt(d, id)
      BY <2>5 DEF AtSite
    <3>2. QED
      BY <2>s, <3>1, FuseQkvKeeps
  <2>6. CASE tr.kind = "SplitQkvProjection"
    <3>1. e = SplitQkvAt(d, id)
      BY <2>6 DEF AtSite
    <3>2. QED
      BY <2>s, <3>1, SplitQkvKeeps
  <2>7. CASE tr.kind = "ElideCastRoundTrip"
    <3>1. e = ElideAt(d, id)
      BY <2>7 DEF AtSite
    <3>2. QED
      BY <2>s, <3>1, ElideKeeps
  <2>8. CASE tr.kind = "SetLinearImplementation"
    <3>1. e = SetImplementationAt(d, id, tr.parameter) /\ (Keeps(field, tr) => field = "real")
      BY <2>8 DEF AtSite, Keeps, Numeric
    <3>2. QED
      BY <2>s, <3>1, SetImplementationKeeps
  <2>9. QED
    BY <1>2, <2>2, <2>3, <2>4, <2>5, <2>6, <2>7, <2>8 DEF SiteKinds, Structural
<1>3. QED
  BY <1>1, <1>2

LEMMA AtSitesIs ==
  ASSUME NEW tr, NEW c, Resolved(tr, c), IsSeq(Scope(tr, c))
  PROVE  \E g : /\ Table(g, Placing(tr, c, Scope(tr, c)), Len(Scope(tr, c)))
                /\ AtSites(tr, c) = g[1 .. Len(Scope(tr, c))]
<1> DEFINE s == Scope(tr, c)
           D == DOMAIN s
           g == CHOOSE f : f = [t \in SUBSET D |->
                  IF t = {} THEN c ELSE AtSite(tr, c, f[t \ {Max(t)}], s[Max(t)])]
<1>1. D = 1 .. Len(s) /\ Len(s) \in Nat
  BY SeqIs DEF IsSeq
<1>2. AtSites(tr, c) = g[D]
  BY DEF AtSites, FoldLeft, MapThenFoldSet
<1> HIDE DEF s
<1>3. \A f : Table(f, Placing(tr, c, s), Len(s)) <=>
             f = [t \in SUBSET D |-> IF t = {} THEN c ELSE AtSite(tr, c, f[t \ {Max(t)}], s[Max(t)])]
  BY <1>1 DEF Table, Placing, Step
<1>4. \E f : Table(f, Placing(tr, c, s), Len(s))
  BY <1>1, TableExists
<1>5. g = [t \in SUBSET D |-> IF t = {} THEN c ELSE AtSite(tr, c, g[t \ {Max(t)}], s[Max(t)])]
  BY <1>3, <1>4
<1> HIDE DEF g
<1>6. QED
  BY <1>1, <1>2, <1>3, <1>5 DEF s

LEMMA AtSitesKeeps ==
  ASSUME NEW c, Sane(c), \A i, j \in Positions(c) : i # j => c.ops[i].id # c.ops[j].id,
         NEW tr, tr.kind \in SiteKinds, IsSeq(tr.operations), NEW field \in Fields
  PROVE  Sane(AtSites(tr, c)) /\ (Keeps(field, tr) => Follows(field, c, AtSites(tr, c)))
<1> DEFINE s == Scope(tr, c)
           n == Len(s)
           fold == Placing(tr, c, s)
<1>1. CASE ~Resolved(tr, c)
  BY <1>1, IllegalFollows DEF AtSites
<1>2. CASE Resolved(tr, c)
  <2>1. IsSeq(s)
    BY AvailableSeq DEF Scope
  <2>2. n \in Nat /\ DOMAIN s = 1 .. n
    BY <2>1, SeqIs DEF IsSeq
  <2>3. PICK g : Table(g, fold, n) /\ AtSites(tr, c) = g[1 .. n]
    BY <1>2, <2>1, AtSitesIs
  <2>4. g[1 .. 0] = c /\ Steps(g, fold, n)
    <3>1. g[1 .. 0] = fold.start /\ Steps(g, fold, n)
      <4> HIDE DEF fold, n
      <4>1. QED
        BY <2>2, <2>3, TableSteps
    <3>2. QED
      BY <3>1 DEF Placing
  <2>5. tr.kind = "CommonSubexpression" => \A k \in 1 .. n : s[k] \in ToSet(DuplicateSites(c))
    <3>1. ASSUME tr.kind = "CommonSubexpression" PROVE Available(tr, c) = DuplicateSites(c)
      BY <3>1 DEF Available
    <3>2. tr.kind = "CommonSubexpression" => ToSet(s) \subseteq ToSet(Available(tr, c))
      BY <1>2 DEF Resolved
    <3>3. \A k \in 1 .. n : s[k] \in ToSet(s)
      BY <2>2 DEF ToSet
    <3>4. QED
      BY <3>1, <3>2, <3>3
  <2> HIDE DEF s, n
  <2> DEFINE T == {k \in Nat : k <= n => Track(field, tr, c, g[1 .. k])}
  <2>6. 0 \in T
    BY <2>4, TrackStart
  <2>7. ASSUME NEW k \in Nat, k \in T PROVE k + 1 \in T
    <3> SUFFICES ASSUME k + 1 <= n PROVE Track(field, tr, c, g[1 .. k + 1])
      OBVIOUS
    <3>1. k \in 0 .. n - 1 /\ k <= n /\ k + 1 \in 1 .. n
      BY <2>2
    <3>2. g[1 .. k + 1] = Step(fold, k + 1, g[1 .. k])
      BY <2>4, <3>1 DEF Steps
    <3>3. Step(fold, k + 1, g[1 .. k]) = AtSite(tr, c, g[1 .. k], s[k + 1])
      BY DEF Step, Placing
    <3>4. Track(field, tr, c, g[1 .. k])
      BY <2>7, <3>1
    <3>5. tr.kind = "CommonSubexpression" => s[k + 1] \in ToSet(DuplicateSites(c))
      BY <2>5, <3>1
    <3>6. Track(field, tr, c, AtSite(tr, c, g[1 .. k], s[k + 1]))
      BY <3>4, <3>5, AtSiteKeeps
    <3>7. QED
      BY <3>2, <3>3, <3>6
  <2>8. n \in T
    <3> HIDE DEF T
    <3>1. QED
      BY <2>2, <2>6, <2>7, EveryNat
  <2>9. QED
    BY <2>2, <2>3, <2>8 DEF Track
<1>3. QED
  BY <1>1, <1>2

LEMMA ApplyKeeps ==
  ASSUME NEW c, VerifiedContext(c), WellBound(c), NEW tr, IsSeq(tr.operations), NEW field \in Fields
  PROVE  Sane(Apply(tr, c)) /\ (Keeps(field, tr) => Follows(field, c, Apply(tr, c)))
<1>1. Sane(c) /\ \A i, j \in Positions(c) : i # j => c.ops[i].id # c.ops[j].id
  BY VerifiedSane DEF VerifiedContext
<1>2. CASE tr.kind \in SiteKinds
  <2>1. Apply(tr, c) = AtSites(tr, c)
    BY <1>2 DEF Apply, SiteKinds, Structural
  <2>2. QED
    BY <1>1, <1>2, <2>1, AtSitesKeeps
<1>3. CASE tr.kind = "RematerializeProducer"
  <2>1. Apply(tr, c) = Rematerialize(c, tr.operations[1], tr.operations[2])
    BY <1>3 DEF Apply, Structural
  <2>2. QED
    BY <1>1, <2>1, RematerializeKeeps
<1>4. CASE tr.kind = "SetOperationPrecision"
  <2>1. Apply(tr, c) = SetPrecision(c, tr.operations[1], tr.parameter) /\ (Keeps(field, tr) => field = "real")
    BY <1>4 DEF Apply, Structural, Keeps, Numeric
  <2>2. QED
    BY <1>1, <2>1, SetPrecisionKeeps
<1>5. CASE tr.kind = "SetConstantResidency"
  <2>1. Apply(tr, c) = SetResidency(c, tr.parameter = 1)
    BY <1>5 DEF Apply, Structural
  <2>2. QED
    BY <1>1, <2>1, SetResidencyKeeps
<1>6. CASE tr.kind = "SetPrefetchDistance"
  <2>1. Apply(tr, c) = SetDistance(c, tr.parameter)
    BY <1>6 DEF Apply, Structural
  <2>2. QED
    BY <1>1, <2>1, SetDistanceKeeps
<1>7. CASE tr.kind \notin SiteKinds \cup {"RematerializeProducer", "SetOperationPrecision",
                                          "SetConstantResidency", "SetPrefetchDistance"}
  <2>1. Apply(tr, c) = Illegal(c)
    BY <1>7 DEF Apply, SiteKinds
  <2>2. QED
    BY <1>1, <2>1, IllegalFollows
<1>8. QED
  BY <1>2, <1>3, <1>4, <1>5, <1>6, <1>7

(* Of a verified program whose inputs and constants are bound and apart,   *)
(* every transform, at any scope, makes a program that computes the same   *)
(* for every input, if it verifies: in the reals, and bit by bit unless    *)
(* the transform is numeric.  The folding of arithmetic is the exception.  *)
THEOREM TransformsPreserveMeaning ==
  ASSUME NEW c, VerifiedContext(c), WellBound(c), NEW tr, IsSeq(tr.operations),
         VerifiedContext(Apply(tr, c)),
         tr.kind = "FoldConstantSubgraph" => tr.parameter # 1
  PROVE  Preserves(c, Apply(tr, c), tr)
<1> DEFINE d == Apply(tr, c)
<1>1. ASSUME NEW field \in Fields, Keeps(field, tr)
      PROVE  /\ DOMAIN Meaning(d) = DOMAIN Meaning(c)
             /\ \A t \in DOMAIN Meaning(c) : Meaning(d)[t][field] = Meaning(c)[t][field]
  BY <1>1, ApplyKeeps, FollowedMeaning
<1> HIDE DEF d
<1>2. Keeps("real", tr) /\ (tr.kind \notin Numeric => Keeps("exact", tr))
  BY DEF Keeps
<1>3. "real" \in Fields /\ "exact" \in Fields
  BY DEF Fields
<1>4. /\ DOMAIN Meaning(d) = DOMAIN Meaning(c)
      /\ \A t \in DOMAIN Meaning(c) : Meaning(d)[t]["real"] = Meaning(c)[t]["real"]
  BY <1>1, <1>2, <1>3
<1>5. ASSUME tr.kind \notin Numeric
      PROVE  \A t \in DOMAIN Meaning(c) : Meaning(d)[t]["exact"] = Meaning(c)[t]["exact"]
  BY <1>1, <1>2, <1>3, <1>5
<1>6. Preserves(c, d, tr)
  BY <1>4, <1>5 DEF Preserves
<1>7. QED
  BY <1>6 DEF d

-----------------------------------------------------------------------------
(* What discover proposes: scopes are sequences, and arithmetic is only    *)
(* folded when the options allow it.                                       *)
FoldsArithmetic(tr) == tr.kind = "FoldConstantSubgraph" /\ tr.parameter = 1
Proposals(options, s) ==
  /\ IsSeq(s)
  /\ \A tr \in ToSet(s) : IsSeq(tr.operations) /\ (FoldsArithmetic(tr) => options.arithmetic)

LEMMA NoProposals == ASSUME NEW options PROVE Proposals(options, <<>>)
<1> DEFINE s == <<>>
<1>1. IsSeq(s) /\ DOMAIN s = {}
  BY NoElements
<1>2. QED
  BY <1>1 DEF Proposals, ToSet

LEMMA OneProposal ==
  ASSUME NEW options, NEW kind, NEW scope, IsSeq(scope), NEW parameter,
         kind = "FoldConstantSubgraph" /\ parameter = 1 => options.arithmetic
  PROVE  Proposals(options, <<Transform(kind, scope, parameter)>>)
<1> DEFINE tr == Transform(kind, scope, parameter)
<1>1. tr.operations = scope /\ tr.kind = kind /\ tr.parameter = parameter
  BY DEF Transform
<1> HIDE DEF tr
<1>2. Proposals(options, <<tr>>)
  BY <1>1, OneIs DEF Proposals, FoldsArithmetic
<1>3. QED
  BY <1>2 DEF tr

LEMMA MoreProposals ==
  ASSUME NEW options, NEW s, Proposals(options, s), NEW u, Proposals(options, u)
  PROVE  Proposals(options, s \o u)
  BY JoinedIs DEF Proposals

LEMMA JoinedPartsIs ==
  ASSUME NEW parts, IsSeq(parts)
  PROVE  \E g : /\ Table(g, Joining(parts), Len(parts))
                /\ Joined(parts) = g[1 .. Len(parts)]
<1> DEFINE s == parts
           D == DOMAIN s
           g == CHOOSE f : f = [t \in SUBSET D |->
                  IF t = {} THEN <<>> ELSE f[t \ {Max(t)}] \o s[Max(t)]]
<1>1. D = 1 .. Len(s) /\ Len(s) \in Nat
  BY SeqIs DEF IsSeq
<1>2. Joined(s) = g[D]
  BY DEF Joined, FoldLeft, MapThenFoldSet
<1> HIDE DEF s
<1>3. \A f : Table(f, Joining(s), Len(s)) <=>
             f = [t \in SUBSET D |-> IF t = {} THEN <<>> ELSE f[t \ {Max(t)}] \o s[Max(t)]]
  BY <1>1 DEF Table, Joining, Step
<1>4. \E f : Table(f, Joining(s), Len(s))
  BY <1>1, TableExists
<1>5. g = [t \in SUBSET D |-> IF t = {} THEN <<>> ELSE g[t \ {Max(t)}] \o s[Max(t)]]
  BY <1>3, <1>4
<1> HIDE DEF g
<1>6. QED
  BY <1>1, <1>2, <1>3, <1>5 DEF s

LEMMA AllProposals ==
  ASSUME NEW options, NEW parts, IsSeq(parts), \A k \in DOMAIN parts : Proposals(options, parts[k])
  PROVE  Proposals(options, Joined(parts))
<1> DEFINE n == Len(parts)
           fold == Joining(parts)
<1>1. n \in Nat /\ DOMAIN parts = 1 .. n
  BY SeqIs DEF IsSeq
<1>2. PICK g : Table(g, fold, n) /\ Joined(parts) = g[1 .. n]
  BY JoinedPartsIs
<1>3. g[1 .. 0] = <<>> /\ Steps(g, fold, n)
  <2>1. g[1 .. 0] = fold.start /\ Steps(g, fold, n)
    <3> HIDE DEF fold, n
    <3>1. QED
      BY <1>1, <1>2, TableSteps
  <2>2. QED
    BY <2>1 DEF Joining
<1> HIDE DEF n
<1> DEFINE T == {k \in Nat : k <= n => Proposals(options, g[1 .. k])}
<1>4. 0 \in T
  BY <1>3, NoProposals
<1>5. ASSUME NEW k \in Nat, k \in T PROVE k + 1 \in T
  <2> SUFFICES ASSUME k + 1 <= n PROVE Proposals(options, g[1 .. k + 1])
    OBVIOUS
  <2>1. k \in 0 .. n - 1 /\ k <= n /\ k + 1 \in 1 .. n
    BY <1>1
  <2>2. g[1 .. k + 1] = Step(fold, k + 1, g[1 .. k])
    BY <1>3, <2>1 DEF Steps
  <2>3. Step(fold, k + 1, g[1 .. k]) = g[1 .. k] \o parts[k + 1]
    BY DEF Step, Joining
  <2>4. Proposals(options, g[1 .. k]) /\ Proposals(options, parts[k + 1])
    BY <1>1, <1>5, <2>1
  <2>5. QED
    BY <2>2, <2>3, <2>4, MoreProposals
<1>6. n \in T
  <2> HIDE DEF T
  <2>1. QED
    BY <1>1, <1>4, <1>5, EveryNat
<1>7. QED
  BY <1>1, <1>2, <1>6

LEMMA EachProposed ==
  ASSUME NEW options, NEW s, IsSeq(s), NEW parts, parts = [k \in DOMAIN s |-> parts[k]],
         \A k \in DOMAIN s : Proposals(options, parts[k])
  PROVE  Proposals(options, Joined(parts))
<1>1. DOMAIN s = 1 .. Len(s) /\ Len(s) \in Nat
  BY SeqIs DEF IsSeq
<1>2. IsSeq(parts) /\ DOMAIN parts = DOMAIN s
  BY <1>1, SeqBuilt
<1>3. QED
  BY <1>2, AllProposals

LEMMA MinOfLength ==
  ASSUME NEW s, IsSeq(s), NEW n \in Nat PROVE Min({Len(s), n}) \in 0 .. Len(s)
<1> DEFINE T == {Len(s), n}
           Least(x) == \A y \in T : x =< y
           m == Min(T)
<1>1. Len(s) \in Nat
  BY DEF IsSeq
<1>2. \E x \in T : Least(x)
  BY <1>1
<1>3. m = CHOOSE x \in T : Least(x)
  BY DEF Min
<1>4. m \in T /\ Least(m)
  <2> HIDE DEF Least, T, m
  <2>1. QED
    BY <1>2, <1>3
<1>5. QED
  BY <1>1, <1>4

LEMMA FirstProposals ==
  ASSUME NEW options, NEW s, Proposals(options, s), NEW n \in Nat
  PROVE  Proposals(options, SubSeq(s, 1, Min({Len(s), n})))
<1> DEFINE m == Min({Len(s), n})
<1>1. m \in 0 .. Len(s) /\ 1 \in 1 .. Len(s) + 1
  BY MinOfLength DEF Proposals, IsSeq
<1> HIDE DEF m
<1>2. IsSeq(SubSeq(s, 1, m)) /\ ToSet(SubSeq(s, 1, m)) \subseteq ToSet(s)
  BY <1>1, PartIs DEF Proposals
<1>3. Proposals(options, SubSeq(s, 1, m))
  BY <1>2 DEF Proposals
<1>4. QED
  BY <1>3 DEF m

LEMMA BestRematsSeq == ASSUME NEW c, Sane(c) PROVE IsSeq(BestRemats(c))
<1> DEFINE bytes(id) == Bytes(c, c.ops[At(c, id)].out[1])
           s == RematSites(c)
           rank(k) == CHOOSE x \in ToSet(s) :
                        Cardinality({y \in ToSet(s) : bytes(y) > bytes(x) \/ (bytes(y) = bytes(x) /\ y < x)}) = k - 1
           sorted == [k \in DOMAIN s |-> rank(k)]
<1>1. IsSeq(s)
  BY SitesSeq DEF RematSites, Sites
<1>2. BestRemats(c) = SubSeq(sorted, 1, Min({Len(sorted), 2}))
  BY DEF BestRemats, Ranked
<1> HIDE DEF rank, s
<1>3. IsSeq(sorted)
  BY <1>1, SeqIs, SeqBuilt DEF IsSeq
<1> HIDE DEF sorted
<1>4. Min({Len(sorted), 2}) \in 0 .. Len(sorted)
  BY <1>3, MinOfLength
<1>5. 1 \in 1 .. Len(sorted) + 1
  BY <1>3 DEF IsSeq
<1>6. QED
  BY <1>2, <1>3, <1>4, <1>5, PartIs

LEMMA PrecisionProposals ==
  ASSUME NEW c, Sane(c), NEW options, IsSeq(options.precisions),
         options.max_precision_candidates \in Nat
  PROVE  Proposals(options, PrecisionCandidates(c, options))
<1> DEFINE work(id) == OperandElements(c, c.ops[At(c, id)])
           s == Sites(c, LAMBDA o : UniformFloat(c, o))
           rank(k) == CHOOSE x \in ToSet(s) :
                        Cardinality({y \in ToSet(s) : work(y) > work(x) \/ (work(y) = work(x) /\ y < x)}) = k - 1
           sorted == [k \in DOMAIN s |-> rank(k)]
           one(id, d) == IF d = DType(c, c.ops[At(c, id)].out[1]) THEN <<>>
                         ELSE <<Transform("SetOperationPrecision", <<id>>, d)>>
           row(id) == Joined([j \in DOMAIN options.precisions |-> one(id, options.precisions[j])])
           all == Joined([k \in DOMAIN sorted |-> row(sorted[k])])
           n == options.max_precision_candidates
<1>1. IsSeq(s)
  BY SitesSeq DEF Sites
<1>2. PrecisionCandidates(c, options) = SubSeq(all, 1, Min({Len(all), n}))
  BY DEF PrecisionCandidates, Ranked, ForEach
<1>3. ASSUME NEW id PROVE Proposals(options, row(id))
  <2>1. ASSUME NEW d PROVE Proposals(options, one(id, d))
    <3>1. IsSeq(<<id>>)
      BY OneIs
    <3>2. QED
      BY <3>1, NoProposals, OneProposal
  <2> DEFINE parts == [j \in DOMAIN options.precisions |-> one(id, options.precisions[j])]
  <2>2. parts = [j \in DOMAIN options.precisions |-> parts[j]]
        /\ \A j \in DOMAIN options.precisions : Proposals(options, parts[j])
    BY <2>1
  <2> HIDE DEF parts
  <2>3. Proposals(options, Joined(parts))
    BY <2>2, EachProposed
  <2>4. QED
    BY <2>3 DEF parts
<1>4. Proposals(options, all)
  <2> HIDE DEF row, s, rank
  <2>1. IsSeq(sorted)
    BY <1>1, SeqIs, SeqBuilt DEF IsSeq
  <2> HIDE DEF sorted
  <2> DEFINE parts == [k \in DOMAIN sorted |-> row(sorted[k])]
  <2>2. parts = [k \in DOMAIN sorted |-> parts[k]]
        /\ \A k \in DOMAIN sorted : Proposals(options, parts[k])
    BY <1>3
  <2> HIDE DEF parts
  <2>3. Proposals(options, Joined(parts))
    BY <2>1, <2>2, EachProposed
  <2>4. QED
    BY <2>3 DEF parts
<1> HIDE DEF all
<1>5. QED
  BY <1>2, <1>4, FirstProposals

(* A proposal for a whole program, and one for each of several.            *)
LEMMA WholeProposal ==
  ASSUME NEW options, NEW cond \in BOOLEAN, NEW kind, NEW parameter,
         cond /\ kind = "FoldConstantSubgraph" /\ parameter = 1 => options.arithmetic
  PROVE  Proposals(options, Proposed(cond, kind, parameter))
<1>1. IsSeq(<<>>)
  BY NoElements
<1>2. CASE cond
  BY <1>1, <1>2, OneProposal DEF Proposed
<1>3. CASE ~cond
  BY <1>3, NoProposals DEF Proposed
<1>4. QED
  BY <1>2, <1>3

LEMMA StructuralProposals ==
  ASSUME NEW c, Sane(c), NEW options
  PROVE  LET folds == FoldSites(c, FALSE)
             one(id) == <<Transform("FoldConstantSubgraph", <<id>>, 0)>>
         IN  Proposals(options,
           Proposed(folds # <<>>, "FoldConstantSubgraph", 0)
        \o (IF Len(folds) <= 4 THEN ForEach(one, folds) ELSE <<>>)
        \o Proposed(options.arithmetic /\ Len(FoldSites(c, TRUE)) > Len(folds),
                    "FoldConstantSubgraph", 1)
        \o Proposed(DeadSites(c) # <<>>, "EliminateDeadOperations", 0)
        \o Proposed(DuplicateSites(c) # <<>>, "CommonSubexpression", 0)
        \o Proposed(BiasSites(c) # <<>>, "FuseLinearBias", 0)
        \o Proposed(QkvFusionSites(c) # <<>>, "FuseQkvProjection", 0)
        \o Proposed(QkvSplitSites(c) # <<>>, "SplitQkvProjection", 0)
        \o Proposed(RoundTrips(c) # <<>>, "ElideCastRoundTrip", 0)
        \o ForEach(LAMBDA id : <<Transform("RematerializeProducer",
                                   <<id, RematConsumer(c, id)>>, 0)>>, BestRemats(c)))
<1> DEFINE folds == FoldSites(c, FALSE)
           one(id) == <<Transform("FoldConstantSubgraph", <<id>>, 0)>>
           again(id) == <<Transform("RematerializeProducer", <<id, RematConsumer(c, id)>>, 0)>>
           remats == BestRemats(c)
           ones == [k \in DOMAIN folds |-> one(folds[k])]
           agains == [k \in DOMAIN remats |-> again(remats[k])]
           q1 == Proposed(folds # <<>>, "FoldConstantSubgraph", 0)
           q2 == IF Len(folds) <= 4 THEN Joined(ones) ELSE <<>>
           q3 == Proposed(options.arithmetic /\ Len(FoldSites(c, TRUE)) > Len(folds),
                          "FoldConstantSubgraph", 1)
           q4 == Proposed(DeadSites(c) # <<>>, "EliminateDeadOperations", 0)
           q5 == Proposed(DuplicateSites(c) # <<>>, "CommonSubexpression", 0)
           q6 == Proposed(BiasSites(c) # <<>>, "FuseLinearBias", 0)
           q7 == Proposed(QkvFusionSites(c) # <<>>, "FuseQkvProjection", 0)
           q8 == Proposed(QkvSplitSites(c) # <<>>, "SplitQkvProjection", 0)
           q9 == Proposed(RoundTrips(c) # <<>>, "ElideCastRoundTrip", 0)
           q10 == Joined(agains)
<1>1. Proposals(options, q1) /\ Proposals(options, q4) /\ Proposals(options, q5)
      /\ Proposals(options, q6) /\ Proposals(options, q7) /\ Proposals(options, q8)
      /\ Proposals(options, q9)
  <2>1. ASSUME NEW cond \in BOOLEAN, NEW kind PROVE Proposals(options, Proposed(cond, kind, 0))
    BY WholeProposal
  <2>2. /\ (folds # <<>>) \in BOOLEAN /\ (DeadSites(c) # <<>>) \in BOOLEAN
        /\ (DuplicateSites(c) # <<>>) \in BOOLEAN /\ (BiasSites(c) # <<>>) \in BOOLEAN
        /\ (QkvFusionSites(c) # <<>>) \in BOOLEAN /\ (QkvSplitSites(c) # <<>>) \in BOOLEAN
        /\ (RoundTrips(c) # <<>>) \in BOOLEAN
    OBVIOUS
  <2> HIDE DEF folds
  <2>3. QED
    BY <2>1, <2>2, Zenon
<1>2. Proposals(options, q3)
  <2> DEFINE cond == options.arithmetic /\ Len(FoldSites(c, TRUE)) > Len(folds)
  <2>1. cond \in BOOLEAN /\ (cond => options.arithmetic)
    OBVIOUS
  <2> HIDE DEF cond
  <2>2. Proposals(options, Proposed(cond, "FoldConstantSubgraph", 1))
    BY <2>1, WholeProposal
  <2>3. QED
    BY <2>2 DEF cond
<1>3. Proposals(options, Joined(ones))
  <2>1. IsSeq(folds)
    BY SitesSeq DEF FoldSites, Sites
  <2> HIDE DEF folds
  <2>2. \A k \in DOMAIN folds : Proposals(options, one(folds[k]))
    BY OneIs, OneProposal
  <2>3. ones = [k \in DOMAIN folds |-> ones[k]] /\ \A k \in DOMAIN folds : Proposals(options, ones[k])
    BY <2>2
  <2> HIDE DEF ones
  <2>4. QED
    BY <2>1, <2>3, EachProposed
<1>4. Proposals(options, q10)
  <2>1. IsSeq(remats)
    BY BestRematsSeq
  <2> HIDE DEF remats
  <2>2. \A k \in DOMAIN remats : Proposals(options, again(remats[k]))
    BY TwoIs, OneProposal
  <2>3. agains = [k \in DOMAIN remats |-> agains[k]]
        /\ \A k \in DOMAIN remats : Proposals(options, agains[k])
    BY <2>2
  <2> HIDE DEF agains
  <2>4. QED
    BY <2>1, <2>3, EachProposed
<1>5. Proposals(options, q2)
  BY <1>3, NoProposals
<1>6. Proposals(options, q1 \o q2 \o q3 \o q4 \o q5 \o q6 \o q7 \o q8 \o q9 \o q10)
  <2> HIDE DEF q1, q2, q3, q4, q5, q6, q7, q8, q9, q10
  <2>1. Proposals(options, q1 \o q2 \o q3 \o q4)
    BY <1>1, <1>2, <1>5, MoreProposals
  <2>2. Proposals(options, q1 \o q2 \o q3 \o q4 \o q5 \o q6 \o q7)
    BY <1>1, <2>1, MoreProposals
  <2>3. QED
    BY <1>1, <1>4, <2>2, MoreProposals
<1>7. QED
  BY <1>6 DEF ForEach

LEMMA DiscoverProposes ==
  ASSUME NEW c, Sane(c), NEW options, IsSeq(options.precisions), IsSeq(options.prefetch_distances),
         options.max_precision_candidates \in Nat
  PROVE  Proposals(options, Discover(c, options))
<1> DEFINE folds == FoldSites(c, FALSE)
           one(id) == <<Transform("FoldConstantSubgraph", <<id>>, 0)>>
           linear(n) == LET s == ImplementationSites(c, n)
                        IN  IF s = <<>> THEN <<>> ELSE <<Transform("SetLinearImplementation", s, n)>>
           numeric == linear(1) \o linear(2) \o PrecisionCandidates(c, options)
           ahead(d) == Proposed(d # c.distance, "SetPrefetchDistance", d)
           distances == options.prefetch_distances
           aheads == [k \in DOMAIN distances |-> ahead(distances[k])]
           memory ==
             Proposed(Misplaced(c, FALSE) # {}, "SetConstantResidency", 0)
             \o Proposed(Misplaced(c, TRUE) # {}, "SetConstantResidency", 1) \o Joined(aheads)
           structural ==
             Proposed(folds # <<>>, "FoldConstantSubgraph", 0)
          \o (IF Len(folds) <= 4 THEN ForEach(one, folds) ELSE <<>>)
          \o Proposed(options.arithmetic /\ Len(FoldSites(c, TRUE)) > Len(folds),
                      "FoldConstantSubgraph", 1)
          \o Proposed(DeadSites(c) # <<>>, "EliminateDeadOperations", 0)
          \o Proposed(DuplicateSites(c) # <<>>, "CommonSubexpression", 0)
          \o Proposed(BiasSites(c) # <<>>, "FuseLinearBias", 0)
          \o Proposed(QkvFusionSites(c) # <<>>, "FuseQkvProjection", 0)
          \o Proposed(QkvSplitSites(c) # <<>>, "SplitQkvProjection", 0)
          \o Proposed(RoundTrips(c) # <<>>, "ElideCastRoundTrip", 0)
          \o ForEach(LAMBDA id : <<Transform("RematerializeProducer",
                                     <<id, RematConsumer(c, id)>>, 0)>>, BestRemats(c))
<1>1. Proposals(options, structural)
  BY StructuralProposals
<1>2. Proposals(options, numeric)
  <2>1. ASSUME NEW n PROVE Proposals(options, linear(n))
    <3>1. IsSeq(ImplementationSites(c, n))
      BY SitesSeq DEF ImplementationSites, Sites
    <3>2. QED
      BY <3>1, NoProposals, OneProposal
  <2>2. Proposals(options, PrecisionCandidates(c, options))
    BY PrecisionProposals
  <2> HIDE DEF linear
  <2>3. QED
    BY <2>1, <2>2, MoreProposals
<1>3. Proposals(options, memory)
  <2>1. \A d : Proposals(options, ahead(d))
    BY WholeProposal
  <2>2. aheads = [k \in DOMAIN distances |-> aheads[k]]
        /\ \A k \in DOMAIN distances : Proposals(options, aheads[k])
    BY <2>1
  <2> HIDE DEF aheads
  <2>3. Proposals(options, Joined(aheads))
    BY <2>2, EachProposed
  <2>4. Proposals(options, Proposed(Misplaced(c, FALSE) # {}, "SetConstantResidency", 0))
        /\ Proposals(options, Proposed(Misplaced(c, TRUE) # {}, "SetConstantResidency", 1))
    BY WholeProposal
  <2>5. QED
    BY <2>3, <2>4, MoreProposals
<1>4. Discover(c, options) =
        (IF options.structural THEN structural ELSE <<>>) \o
        (IF options.numeric THEN numeric ELSE <<>>) \o (IF options.memory THEN memory ELSE <<>>)
  BY DEF Discover, ForEach
<1> HIDE DEF structural, numeric, memory
<1>5. QED
  BY <1>1, <1>2, <1>3, <1>4, NoProposals, MoreProposals

-----------------------------------------------------------------------------
(* Two programs compute the same of a field, for every input.              *)
Alike(field, c, d) ==
  /\ DOMAIN Meaning(d) = DOMAIN Meaning(c)
  /\ \A t \in DOMAIN Meaning(c) : Meaning(d)[t][field] = Meaning(c)[t][field]
NothingNumeric(sequence) == \A k \in DOMAIN sequence : sequence[k].kind \notin Numeric

(* What a candidate r of s computes, compared with its parent and with the *)
(* program b that is optimized.                                            *)
Child(options, s, r) ==
  LET tr == Last(r.transforms)
  IN  /\ r.parent \in 1 .. Len(s)
      /\ FoldsArithmetic(tr) => options.arithmetic
      /\ r.context # Unknown /\ ~FoldsArithmetic(tr) => Preserves(s[r.parent].context, r.context, tr)
Descends(options, b, r) ==
  r.context # Unknown =>
    /\ VerifiedContext(r.context) /\ WellBound(r.context)
    /\ ~options.arithmetic => /\ Alike("real", b, r.context)
                              /\ NothingNumeric(r.transforms) => Alike("exact", b, r.context)

Meant(options, b, s) ==
  /\ \A i \in 1 .. Len(s) : Descends(options, b, s[i])
  /\ \A i \in 2 .. Len(s) : Child(options, s, s[i])

MInv ==
  WellBound(base) =>
    /\ phase \in {"baseline", "depth"} => Proposals(request.options, transforms)
    /\ phase \in {"depth", "select", "done"} => Meant(request.options, base, candidates)

LEMMA UnexpandedProposals == ASSUME NEW options PROVE Proposals(options, Unexpanded)
  BY NoElements, OneProposal DEF Unexpanded

LEMMA MeantAppend ==
  ASSUME NEW options, NEW b, NEW s, IsSeq(s), Meant(options, b, s), NEW r,
         Descends(options, b, r), Child(options, s, r)
  PROVE  Meant(options, b, Append(s, r))
<1> DEFINE e == Append(s, r)
           n == Len(s)
<1>1. n \in Nat
  BY DEF IsSeq
<1>2. Len(e) = n + 1 /\ e[n + 1] = r /\ \A i \in 1 .. n : e[i] = s[i]
  BY <1>1, Appended
<1> HIDE DEF e
<1>3. ASSUME NEW i \in 1 .. n + 1 PROVE Descends(options, b, e[i])
  <2>1. i \in 1 .. n \/ i = n + 1
    BY <1>1
  <2>2. QED
    BY <1>2, <2>1 DEF Meant
<1>4. ASSUME NEW i \in 2 .. n + 1 PROVE Child(options, e, e[i])
  <2>1. (i \in 2 .. n /\ i \in 1 .. n) \/ i = n + 1
    BY <1>1
  <2>2. Child(options, s, e[i])
    BY <1>2, <2>1 DEF Meant
  <2>3. e[i].parent \in 1 .. n
    BY <2>2 DEF Child
  <2>4. e[i].parent \in 1 .. n + 1 /\ e[e[i].parent] = s[e[i].parent]
    BY <1>1, <1>2, <2>3
  <2>5. QED
    BY <1>2, <2>2, <2>4 DEF Child
<1>5. QED
  BY <1>2, <1>3, <1>4 DEF Meant, e

(* The parent that is expanded is verified and bound.                      *)
LEMMA ParentMeant ==
  ASSUME SInv, MInv, WellBound(base), phase = "depth", beam # <<>>
  PROVE  LET parent == beam[1]
         IN  /\ parent \in 1 .. Len(candidates) /\ candidates[parent].context = contexts[parent]
             /\ IsSeq(candidates[parent].transforms)
             /\ candidates[parent].context # Unknown
             /\ VerifiedContext(contexts[parent]) /\ WellBound(contexts[parent])
             /\ Descends(request.options, base, candidates[parent])
<1> DEFINE parent == beam[1]
<1>1. parent \in DOMAIN contexts
  <2>1. IsSeq(beam) /\ \A j \in 1 .. Len(beam) : beam[j] \in DOMAIN contexts
    BY DEF SInv, Among
  <2>2. Len(beam) >= 1 /\ Len(beam) \in Nat
    BY <2>1, TailSeq DEF IsSeq
  <2>3. QED
    BY <2>1, <2>2
<1> HIDE DEF parent
<1>2. /\ parent \in 1 .. Len(candidates) /\ candidates[parent].context = contexts[parent]
      /\ candidates[parent].context # Unknown
  BY <1>1 DEF SInv, Retained
<1>3. Descends(request.options, base, candidates[parent])
  BY <1>2 DEF MInv, Meant
<1>4. IsSeq(candidates[parent].transforms)
  BY <1>2 DEF SInv, Sound, CandidateSound
<1>5. QED
  BY <1>2, <1>3, <1>4 DEF Descends, parent

(* A transform that was tried, on a parent p.                              *)
LEMMA TriedMeant ==
  ASSUME NEW options, NEW b, NEW s, NEW k \in 1 .. Len(s), NEW p, p = s[k].context,
         VerifiedContext(p), WellBound(p), p # Unknown, IsSeq(s[k].transforms),
         Descends(options, b, s[k]),
         NEW tr, IsSeq(tr.operations), FoldsArithmetic(tr) => options.arithmetic,
         NEW d, d = Unknown \/ (d = Apply(tr, p) /\ VerifiedContext(d)),
         NEW r, r.parent = k, r.context = d, r.transforms = Append(s[k].transforms, tr)
  PROVE  Descends(options, b, r) /\ Child(options, s, r)
<1> DEFINE q == s[k].transforms
<1>1. Last(r.transforms) = tr /\ DOMAIN q \subseteq DOMAIN r.transforms
      /\ Len(q) + 1 \in DOMAIN r.transforms /\ r.transforms[Len(q) + 1] = tr
      /\ \A i \in DOMAIN q : r.transforms[i] = q[i]
  <2>1. Len(q) \in Nat /\ DOMAIN q = 1 .. Len(q)
    BY SeqIs DEF IsSeq
  <2>2. /\ IsSeq(Append(q, tr)) /\ Len(Append(q, tr)) = Len(q) + 1
        /\ Append(q, tr)[Len(q) + 1] = tr
        /\ \A i \in 1 .. Len(q) : Append(q, tr)[i] = q[i]
    BY Appended
  <2>3. DOMAIN Append(q, tr) = 1 .. Len(q) + 1
    BY <2>2, SeqIs
  <2>4. QED
    BY <2>1, <2>2, <2>3 DEF Last
<1>2. CASE d = Unknown
  BY <1>1, <1>2 DEF Descends, Child
<1>3. CASE d # Unknown
  <2>1. d = Apply(tr, p) /\ VerifiedContext(d)
    BY <1>3
  <2>2. WellBound(d)
    <3>1. Sane(Apply(tr, p))
      BY ApplyKeeps DEF Fields
    <3>2. QED
      BY <2>1, <3>1 DEF Sane
  <2>3. ~FoldsArithmetic(tr) => Preserves(p, d, tr)
    BY <2>1, TransformsPreserveMeaning DEF FoldsArithmetic
  <2>4. Child(options, s, r)
    BY <1>1, <2>3 DEF Child
  <2>5. ~options.arithmetic => Alike("real", b, d)
    <3>1. SUFFICES ASSUME ~options.arithmetic PROVE Alike("real", b, d)
      OBVIOUS
    <3>2. Alike("real", b, p)
      BY <3>1 DEF Descends
    <3>3. Preserves(p, d, tr)
      BY <2>3, <3>1
    <3>4. QED
      BY <3>2, <3>3 DEF Preserves, Alike
  <2>6. ~options.arithmetic /\ NothingNumeric(r.transforms) => Alike("exact", b, d)
    <3>1. SUFFICES ASSUME ~options.arithmetic, NothingNumeric(r.transforms) PROVE Alike("exact", b, d)
      OBVIOUS
    <3>2. NothingNumeric(q) /\ tr.kind \notin Numeric
      BY <1>1, <3>1 DEF NothingNumeric
    <3>3. Alike("exact", b, p)
      BY <3>1, <3>2 DEF Descends
    <3>4. Preserves(p, d, tr)
      BY <2>3, <3>1
    <3>5. QED
      BY <3>2, <3>3, <3>4 DEF Preserves, Alike
  <2>7. QED
    BY <2>1, <2>2, <2>4, <2>5, <2>6 DEF Descends
<1>4. QED
  BY <1>2, <1>3

LEMMA TailProposals ==
  ASSUME NEW options, NEW s, s # <<>>, Proposals(options, s)
  PROVE  /\ Proposals(options, Tail(s))
         /\ IsSeq(s[1].operations) /\ (FoldsArithmetic(s[1]) => options.arithmetic)
<1>1. /\ IsSeq(Tail(s)) /\ Len(s) >= 1 /\ Len(s) \in Nat /\ Len(Tail(s)) = Len(s) - 1
      /\ \A j \in 1 .. Len(s) - 1 : Tail(s)[j] = s[j + 1]
  BY TailSeq DEF Proposals, IsSeq
<1>2. DOMAIN s = 1 .. Len(s) /\ DOMAIN Tail(s) = 1 .. Len(s) - 1
  BY <1>1, SeqIs DEF Proposals
<1>3. \A j \in 1 .. Len(s) : s[j] \in ToSet(s)
  BY <1>2 DEF ToSet
<1>4. \A tr \in ToSet(Tail(s)) : tr \in ToSet(s)
  <2>1. ASSUME NEW tr \in ToSet(Tail(s)) PROVE tr \in ToSet(s)
    <3>1. PICK j \in 1 .. Len(s) - 1 : tr = Tail(s)[j]
      BY <1>2 DEF ToSet
    <3>2. tr = s[j + 1] /\ j + 1 \in 1 .. Len(s)
      BY <1>1, <3>1
    <3>3. QED
      BY <1>3, <3>2
  <2>2. QED
    BY <2>1
<1>5. s[1] \in ToSet(s)
  BY <1>1, <1>3
<1>6. QED
  BY <1>1, <1>4, <1>5 DEF Proposals

LEMMA BaselineMeant == ASSUME SInv, MInv, Baseline PROVE MInv'
<1>1. PICK o \in Outcomes(base) :
        /\ candidates' = <<Record(1, <<>>, base, o)>>
        /\ phase' = IF o.verdict = "accepted" THEN IF MaxDepth = 0 THEN "select" ELSE "depth"
                    ELSE "failed"
  BY DEF Baseline
<1>2. request' = request /\ base' = base /\ transforms' = transforms /\ phase = "baseline"
  BY DEF Baseline, base
<1> DEFINE r == Record(1, <<>>, base, o)
<1>3. r.context = base
  BY DEF Record
<1>4. Len(candidates') = 1 /\ candidates'[1] = r
  BY <1>1, SingleSeq
<1> HIDE DEF r
<1>5. SUFFICES ASSUME WellBound(base), phase' \in {"depth", "select", "done"}
               PROVE  Meant(request.options, base, candidates')
  BY <1>1, <1>2 DEF MInv
<1>6. VerifiedContext(base)
  BY <1>1, <1>5, AcceptedOutcome
<1>7. Descends(request.options, base, r)
  BY <1>3, <1>5, <1>6 DEF Descends, Alike
<1>8. (\A i \in 1 .. 1 : i = 1) /\ 2 .. 1 = {}
  OBVIOUS
<1>9. QED
  BY <1>4, <1>7, <1>8 DEF Meant

LEMMA ExpandMeant == ASSUME SInv, MInv, Expand PROVE MInv'
<1>1. /\ request' = request /\ base' = base /\ phase' = phase /\ candidates' = candidates
      /\ phase = "depth" /\ beam # <<>> /\ request \in Requests
      /\ transforms' = Discover(contexts[beam[1]], request.options)
  BY DEF Expand, Searching, base, SInv
<1>2. SUFFICES ASSUME WellBound(base) PROVE Proposals(request.options, transforms')
  BY <1>1 DEF MInv
<1>3. Sane(contexts[beam[1]])
  BY <1>1, <1>2, ParentMeant, VerifiedSane
<1>4. /\ IsSeq(request.options.precisions) /\ IsSeq(request.options.prefetch_distances)
      /\ request.options.max_precision_candidates \in Nat
  <2>1. /\ request.options.precisions \in Seq({F32, BF16, F16})
        /\ request.options.prefetch_distances \in Seq(Nat)
        /\ request.options.max_precision_candidates \in Nat
    BY <1>1, RequestsAssumption
  <2>2. \A S, s : s \in Seq(S) => IsSeq(s)
    BY DEF IsSeq
  <2>3. QED
    BY <2>1, <2>2
<1>5. QED
  BY <1>1, <1>3, <1>4, DiscoverProposes

LEMMA TryMeant == ASSUME SInv, MInv, Try PROVE MInv'
<1> DEFINE parent == beam[1]
           tr == transforms[1]
           p == contexts[parent]
           c == Apply(tr, p)
           sequence == Sequence(parent, tr)
           d == IF VerifiedContext(c) THEN c ELSE Unknown
<1>1. /\ request' = request /\ base' = base /\ phase' = phase /\ phase = "depth" /\ beam # <<>>
      /\ transforms # <<>> /\ transforms' = Tail(transforms)
  BY DEF Try, Searching, base
<1>2. \/ candidates' = candidates
      \/ \E o, e : /\ e = Unknown \/ (e = c /\ VerifiedContext(e))
                   /\ candidates' = Append(candidates, Record(parent, sequence, e, o))
  BY DEF Try, Add
<1>3. SUFFICES ASSUME WellBound(base)
               PROVE  /\ Proposals(request.options, Tail(transforms))
                      /\ Meant(request.options, base, candidates')
  BY <1>1 DEF MInv
<1>4. /\ Proposals(request.options, Tail(transforms))
      /\ IsSeq(tr.operations) /\ (FoldsArithmetic(tr) => request.options.arithmetic)
  BY <1>1, <1>3, TailProposals DEF MInv
<1>5. Meant(request.options, base, candidates) /\ IsSeq(candidates)
  BY <1>1, <1>3 DEF MInv, SInv, Sound
<1>6. /\ parent \in 1 .. Len(candidates) /\ p = candidates[parent].context /\ p # Unknown
      /\ IsSeq(candidates[parent].transforms) /\ VerifiedContext(p) /\ WellBound(p)
      /\ Descends(request.options, base, candidates[parent])
  BY <1>1, <1>3, ParentMeant
<1>7. CASE candidates' = candidates
  BY <1>4, <1>5, <1>7
<1>8. ASSUME NEW o, NEW e, e = Unknown \/ (e = c /\ VerifiedContext(e)),
             candidates' = Append(candidates, Record(parent, sequence, e, o))
      PROVE  Meant(request.options, base, candidates')
  <2> DEFINE r == Record(parent, sequence, e, o)
  <2>1. r.parent = parent /\ r.context = e /\ r.transforms = Append(candidates[parent].transforms, tr)
    BY DEF Record, Sequence
  <2> HIDE DEF r, parent, tr, p
  <2>2. Descends(request.options, base, r) /\ Child(request.options, candidates, r)
    BY <1>4, <1>6, <1>8, <2>1, TriedMeant
  <2>3. Meant(request.options, base, Append(candidates, r))
    BY <1>5, <2>2, MeantAppend
  <2>4. QED
    BY <1>8, <2>3 DEF r
<1>9. QED
  BY <1>2, <1>4, <1>7, <1>8

LEMMA MeantKept ==
  ASSUME MInv, request' = request, candidates' = candidates,
         phase' \in {"baseline", "depth"} => transforms' = transforms \/ transforms' = Unexpanded,
         phase' \in {"baseline", "depth"} => phase \in {"baseline", "depth"},
         phase' \in {"depth", "select", "done"} => phase \in {"depth", "select", "done"}
  PROVE  MInv'
<1>1. base' = base
  BY DEF base
<1>2. QED
  BY <1>1, UnexpandedProposals DEF MInv

LEMMA InitMeant == Init => MInv
  BY UnexpandedProposals DEF Init, MInv

LEMMA StepMeant == Inv /\ MInv /\ [Next]_vars => MInv'
<1> SUFFICES ASSUME SInv, MInv, [Next]_vars PROVE MInv'
  BY DEF Inv
<1>1. CASE Baseline
  BY <1>1, BaselineMeant
<1>2. CASE Expand
  BY <1>2, ExpandMeant
<1>3. CASE Try
  BY <1>3, TryMeant
<1>4. CASE NextParent
  BY <1>4, MeantKept DEF NextParent, Searching
<1>5. CASE EndDepth
  <2>1. /\ request' = request /\ candidates' = candidates /\ transforms' = transforms
        /\ phase = "depth" /\ phase' \in {"depth", "select"}
    BY <1>5 DEF EndDepth
  <2>2. QED
    BY <2>1, MeantKept
<1>6. CASE Select
  <2>1. /\ request' = request /\ candidates' = candidates /\ phase = "select"
        /\ phase' \in {"done", "failed"}
    BY <1>6 DEF Select
  <2>2. QED
    BY <2>1, MeantKept
<1>7. CASE Finished \/ UNCHANGED vars
  <2>1. UNCHANGED vars
    BY <1>7 DEF Finished
  <2>2. QED
    BY <2>1, MeantKept DEF vars
<1>8. QED
  BY <1>1, <1>2, <1>3, <1>4, <1>5, <1>6, <1>7 DEF Next

LEMMA MeantHolds == Spec => [](Inv /\ MInv)
<1>1. Init => Inv /\ MInv
  BY InitSound, InitMeant
<1>2. Inv /\ MInv /\ [Next]_vars => (Inv /\ MInv)'
  BY StepKeeps, StepMeant
<1>3. QED
  BY <1>1, <1>2, PTL DEF Spec

(* Every candidate computes what its parent computes, bit by bit unless    *)
(* its last transform is numeric, in the reals in any case: for every      *)
(* program whose inputs and constants are bound and apart, and every       *)
(* transform but a folding of arithmetic.                                  *)
ArithmeticFolded == FoldsArithmetic(Last(Last(candidates).transforms))

THEOREM RewritesPreserveMeaning ==
  Spec => [](WellBound(base) => MeaningPreserved \/ ArithmeticFolded)
<1>1. Inv /\ MInv => (WellBound(base) => MeaningPreserved \/ ArithmeticFolded)
  <2> DEFINE r == Last(candidates)
  <2> SUFFICES ASSUME SInv, MInv, WellBound(base), Tried, ~ArithmeticFolded, r.context # Unknown
               PROVE  Preserves(candidates[r.parent].context, r.context, Last(r.transforms))
    BY DEF Inv, MeaningPreserved
  <2>1. phase = "depth" /\ Len(candidates) \in 2 .. Len(candidates) /\ r = candidates[Len(candidates)]
    BY DEF Tried, SInv, Sound, IsSeq, Last
  <2> HIDE DEF r
  <2>2. Child(request.options, candidates, r)
    BY <2>1 DEF MInv, Meant
  <2>3. QED
    BY <2>2 DEF Child, ArithmeticFolded, r
<1>2. QED
  BY <1>1, MeantHolds, PTL

(* With the folding of arithmetic left out of the options, as it is by     *)
(* default, that holds of every candidate.                                 *)
THEOREM SearchesPreserveMeaning ==
  Spec => [](WellBound(base) /\ ~request.options.arithmetic => MeaningPreserved)
<1>1. Inv /\ MInv /\ (WellBound(base) => MeaningPreserved \/ ArithmeticFolded)
        => (WellBound(base) /\ ~request.options.arithmetic => MeaningPreserved)
  <2> DEFINE r == Last(candidates)
  <2> SUFFICES ASSUME SInv, MInv, WellBound(base), Tried, ~request.options.arithmetic
               PROVE  ~ArithmeticFolded
    BY DEF Inv, MeaningPreserved
  <2>1. phase = "depth" /\ Len(candidates) \in 2 .. Len(candidates) /\ r = candidates[Len(candidates)]
    BY DEF Tried, SInv, Sound, IsSeq, Last
  <2> HIDE DEF r
  <2>2. Child(request.options, candidates, r)
    BY <2>1 DEF MInv, Meant
  <2>3. QED
    BY <2>2 DEF Child, ArithmeticFolded, r
<1>2. QED
  BY <1>1, MeantHolds, RewritesPreserveMeaning, PTL

(* The program optimize returns computes what the one it was given         *)
(* computes: in the reals, and bit by bit if no transform of the plan is   *)
(* numeric.                                                                *)
WinnerComputesBase ==
  phase = "done" =>
    LET c == candidates[winner].context
    IN  /\ VerifiedContext(c) /\ Alike("real", base, c)
        /\ NothingNumeric(plan) => Alike("exact", base, c)

THEOREM OptimizedProgramsComputeTheSame ==
  Spec => [](WellBound(base) /\ ~request.options.arithmetic => WinnerComputesBase)
<1>1. Inv /\ MInv => (WellBound(base) /\ ~request.options.arithmetic => WinnerComputesBase)
  <2> SUFFICES ASSUME Inv, MInv, WellBound(base), ~request.options.arithmetic, phase = "done"
               PROVE  LET c == candidates[winner].context
                      IN  /\ VerifiedContext(c) /\ Alike("real", base, c)
                          /\ NothingNumeric(plan) => Alike("exact", base, c)
    BY DEF WinnerComputesBase
  <2> DEFINE w == candidates[winner]
  <2>1. winner \in 1 .. Len(candidates) /\ plan = w.transforms /\ Accepted(w)
    BY DEF Inv, SInv, Chosen, WinnerIsBest
  <2>2. w.context # Unknown
    BY <2>1 DEF Inv, SInv, Sound, CandidateSound
  <2>3. Descends(request.options, base, w)
    BY <2>1 DEF MInv, Meant
  <2>4. QED
    BY <2>1, <2>2, <2>3 DEF Descends
<1>2. QED
  BY <1>1, MeantHolds, PTL
=============================================================================
