-------------------------- MODULE ClosedFormProofs --------------------------
(***************************************************************************)
(* The plan in closed form, for every program and every argument: what its *)
(* folds compute step by step, where chains of aliases end, that tensors   *)
(* of one slot are in use one after the other, and that what the residency *)
(* planner admits keeps to its ceiling.  The proofs about plan_memory's    *)
(* loops and about prepared executions build on it.                        *)
(***************************************************************************)
EXTENDS Preparation, ResidencyPlan, FiniteSetTheorems, FunctionTheorems,
        WellFoundedInduction, TLAPS

-----------------------------------------------------------------------------
(* Numbers, and maxima and minima of finite sets.                          *)
LEMMA EveryNat ==
  ASSUME NEW T, 0 \in T, \A k \in Nat : k \in T => k + 1 \in T
  PROVE  \A k \in Nat : k \in T
<1> DEFINE W == Nat \ T
<1>1. SUFFICES ASSUME W # {} PROVE FALSE
  OBVIOUS
<1>2. PICK m \in W : \A k \in W : ~(<<k, m>> \in OpToRel(<, Nat))
  <2>1. W \subseteq Nat
    OBVIOUS
  <2> HIDE DEF W
  <2>2. QED
    BY <1>1, <2>1, WFMin, NatLessThanWellFounded
<1>3. m \in Nat /\ m # 0 /\ m \notin T /\ \A k \in W : ~(k < m)
  BY <1>2 DEF OpToRel
<1>4. m - 1 \in Nat /\ m - 1 < m /\ m = (m - 1) + 1
  BY <1>3
<1>5. m - 1 \in T
  BY <1>3, <1>4
<1>6. QED
  BY <1>3, <1>4, <1>5

LEMMA MaxIs ==
  ASSUME NEW S, S \subseteq Int, NEW m \in S, \A x \in S : x <= m
  PROVE  Max(S) = m
<1> DEFINE Top(x) == \A y \in S : x >= y
<1>1. m \in S /\ Top(m)
  OBVIOUS
<1>2. Max(S) = CHOOSE x \in S : Top(x)
  BY DEF Max
<1>3. Max(S) \in S /\ Top(Max(S))
  <2> HIDE DEF Top
  <2>1. QED
    BY <1>1, <1>2
<1>4. /\ Max(S) >= m /\ m >= Max(S)
      /\ Max(S) \in Int /\ m \in Int
  BY <1>1, <1>3
<1>5. QED
  BY <1>4

LEMMA MinIs ==
  ASSUME NEW S, S \subseteq Int, NEW m \in S, \A x \in S : m <= x
  PROVE  Min(S) = m
<1> DEFINE Least(x) == \A y \in S : x =< y
<1>1. m \in S /\ Least(m)
  OBVIOUS
<1>2. Min(S) = CHOOSE x \in S : Least(x)
  BY DEF Min
<1>3. Min(S) \in S /\ Least(Min(S))
  <2> HIDE DEF Least
  <2>1. QED
    BY <1>1, <1>2
<1>4. /\ Min(S) <= m /\ m <= Min(S)
      /\ Min(S) \in Int /\ m \in Int
  BY <1>1, <1>3
<1>5. QED
  BY <1>4


-----------------------------------------------------------------------------
(* Rounding up to a multiple of a returns a number that covers b.          *)
LEMMA RoundUp ==
  ASSUME NEW a \in Nat, a > 0, NEW b \in Nat
  PROVE  /\ ((b + a - 1) \div a) * a \in Nat
         /\ b <= ((b + a - 1) \div a) * a
<1>1. b + a - 1 \in Nat
  OBVIOUS
<1>2. ASSUME NEW n \in Nat
      PROVE  (n \div a) \in Nat /\ (n \div a) * a \in Nat /\ n - a < (n \div a) * a
  <2>1. (n \div a) \in Nat
    BY SMT
  <2>2. n - a < a * (n \div a)
    BY SMT
  <2>3. a * (n \div a) = (n \div a) * a
    BY <2>1
  <2>4. (n \div a) * a \in Nat
    BY <2>1, SMT
  <2>5. QED
    BY <2>1, <2>2, <2>3, <2>4
<1>3. QED
  BY <1>1, <1>2

(* align_up returns a number that covers its argument.                     *)
-----------------------------------------------------------------------------
(* The placements of the closed form, as a table on the sets of positions  *)
(* in its order: the plan after the first k placements is the entry of     *)
(* 1 .. k.                                                                 *)
Lives(r) == [t \in Planned(r) |-> Lifetime(r, t)]
Rounded(r, t) == ((r.program.bytes[t] + r.alignment - 1) \div r.alignment) * r.alignment
Nothing == [slots |-> <<>>, until |-> <<>>, slot |-> [t \in Tensors |-> 0]]
Queue(r) == Ordered(Lives(r))
Step(r, k, plan) ==
  PlaceNext(plan, Queue(r)[k], Lives(r)[Queue(r)[k]], Rounded(r, Queue(r)[k]))

Table(g, r, n) ==
  g = [s \in SUBSET (1 .. n) |->
         IF s = {} THEN Nothing
         ELSE Step(r, Max(s), g[s \ {Max(s)}])]
Steps(g, r, n) == \A k \in 0 .. n - 1 : g[1 .. k + 1] = Step(r, k + 1, g[1 .. k])

LEMMA TableExists ==
  ASSUME NEW r
  PROVE  \A n \in Nat : \E g : Table(g, r, n)
<1> DEFINE T == {n \in Nat : \E g : Table(g, r, n)}
<1>1. 0 \in T
  <2> DEFINE g == [s \in SUBSET (1 .. 0) |-> Nothing]
  <2>1. \A s \in SUBSET (1 .. 0) : s = {}
    OBVIOUS
  <2>2. Table(g, r, 0)
    BY <2>1 DEF Table
  <2>3. QED
    BY <2>2
<1>2. ASSUME NEW n \in Nat, n \in T PROVE n + 1 \in T
  <2>1. PICK g : Table(g, r, n)
    BY <1>2
  <2> DEFINE h == [s \in SUBSET (1 .. n + 1) |->
                     IF n + 1 \in s THEN Step(r, n + 1, g[s \ {n + 1}]) ELSE g[s]]
  <2>2. ASSUME NEW s \in SUBSET (1 .. n + 1)
        PROVE  h[s] = IF s = {} THEN Nothing
                      ELSE Step(r, Max(s), h[s \ {Max(s)}])
    <3>1. CASE n + 1 \in s
      <4>1. Max(s) = n + 1
        <5>1. s \subseteq Int /\ \A x \in s : x <= n + 1
          OBVIOUS
        <5>2. QED
          BY <3>1, <5>1, MaxIs
      <4>2. s \ {n + 1} \in SUBSET (1 .. n) /\ n + 1 \notin s \ {n + 1}
        OBVIOUS
      <4>3. h[s \ {n + 1}] = g[s \ {n + 1}]
        BY <4>2
      <4>4. QED
        BY <3>1, <4>1, <4>3
    <3>2. CASE n + 1 \notin s
      <4>1. s \in SUBSET (1 .. n) /\ h[s] = g[s]
        <5>1. s \subseteq 1 .. n
          BY <3>2
        <5>2. QED
          BY <3>2, <5>1
      <4>2. CASE s = {}
        BY <4>1, <4>2, <2>1 DEF Table
      <4>3. CASE s # {}
        <5>1. h[s \ {Max(s)}] = g[s \ {Max(s)}]
          <6> DEFINE u == s \ {Max(s)}
          <6>1. u \in SUBSET (1 .. n + 1) /\ n + 1 \notin u
            BY <3>2
          <6>2. h[u] = g[u]
            <7> HIDE DEF u
            <7>1. QED
              BY <6>1
          <6>3. QED
            BY <6>2
        <5>2. g[s] = Step(r, Max(s), g[s \ {Max(s)}])
          BY <2>1, <4>1, <4>3 DEF Table
        <5>3. QED
          BY <4>1, <4>3, <5>1, <5>2
      <4>4. QED
        BY <4>2, <4>3
    <3>3. QED
      BY <3>1, <3>2
  <2>3. Table(h, r, n + 1)
    <3>1. h = [s \in SUBSET (1 .. n + 1) |-> h[s]]
      OBVIOUS
    <3> HIDE DEF h
    <3>2. QED
      BY <2>2, <3>1 DEF Table
  <2>4. QED
    BY <2>3
<1>3. QED
  <2> HIDE DEF T
  <2>1. \A n \in Nat : n \in T
    BY <1>1, <1>2, EveryNat
  <2>2. QED
    BY <2>1 DEF T

LEMMA TableSteps ==
  ASSUME NEW r, NEW n \in Nat, NEW g, Table(g, r, n)
  PROVE  g[1 .. 0] = Nothing /\ Steps(g, r, n)
<1>1. 1 .. 0 = {} /\ {} \in SUBSET (1 .. n)
  OBVIOUS
<1>2. g[1 .. 0] = Nothing
  BY <1>1 DEF Table
<1>3. ASSUME NEW k \in 0 .. n - 1 PROVE g[1 .. k + 1] = Step(r, k + 1, g[1 .. k])
  <2>1. /\ 1 .. k + 1 \in SUBSET (1 .. n) /\ 1 .. k + 1 # {}
        /\ (1 .. k + 1) \ {k + 1} = 1 .. k
    <3>1. k \in Nat /\ k + 1 <= n
      OBVIOUS
    <3>2. 1 .. k + 1 \subseteq 1 .. n
      BY <3>1
    <3>3. k + 1 \in 1 .. k + 1
      BY <3>1
    <3>4. ASSUME NEW x PROVE x \in (1 .. k + 1) \ {k + 1} <=> x \in 1 .. k
      BY <3>1
    <3>5. (1 .. k + 1) \ {k + 1} = 1 .. k
      BY <3>4
    <3>6. QED
      BY <3>2, <3>3, <3>5
  <2>2. Max(1 .. k + 1) = k + 1
    <3>1. /\ 1 .. k + 1 \subseteq Int /\ k + 1 \in 1 .. k + 1
          /\ \A x \in 1 .. k + 1 : x <= k + 1
      OBVIOUS
    <3>2. QED
      BY <3>1, MaxIs
  <2>3. QED
    BY <2>1, <2>2 DEF Table
<1>4. QED
  BY <1>2, <1>3 DEF Steps

LEMMA PlanIs ==
  ASSUME NEW r
  PROVE  LET n == Cardinality(Planned(r))
         IN  /\ n \in Nat /\ DOMAIN Queue(r) = 1 .. n
             /\ \E g : Table(g, r, n) /\ Plan(r) = g[1 .. n]
<1> DEFINE S == Planned(r)
           n == Cardinality(S)
           Q == Queue(r)
           D == DOMAIN Q
           g == CHOOSE f : f = [s \in SUBSET D |->
                  IF s = {} THEN Nothing
                  ELSE PlaceNext(f[s \ {Max(s)}], Q[Max(s)],
                                           Lives(r)[Q[Max(s)]],
                                           Rounded(r, Q[Max(s)]))]
<1>1. n \in Nat
  <2>1. S \subseteq Tensors
    BY DEF Planned
  <2>2. IsFiniteSet(S)
    BY <2>1, FS_Subset, TensorsAssumption
  <2>3. QED
    BY <2>2, FS_CardinalityType
<1>2. D = 1 .. n
  <2>1. DOMAIN Lives(r) = S
    BY DEF Lives
  <2>2. \A life : DOMAIN Ordered(life) = 1 .. Cardinality(DOMAIN life)
    BY DEF Ordered, Cardinality
  <2>3. QED
    BY <2>1, <2>2 DEF Queue
<1>3. Plan(r) = g[D]
  BY DEF Plan, FoldLeft, MapThenFoldSet, Nothing, Queue, Lives, Rounded
<1>4. \A f : Table(f, r, n) <=>
             f = [s \in SUBSET D |->
                    IF s = {} THEN Nothing
                    ELSE PlaceNext(f[s \ {Max(s)}], Q[Max(s)],
                                             Lives(r)[Q[Max(s)]],
                                             Rounded(r, Q[Max(s)]))]
  <2> HIDE DEF n
  <2>1. QED
    BY <1>2 DEF Table, Step
<1>5. \E f : Table(f, r, n)
  BY <1>1, TableExists
<1>6. g = [s \in SUBSET D |->
             IF s = {} THEN Nothing
             ELSE PlaceNext(g[s \ {Max(s)}], Q[Max(s)],
                                      Lives(r)[Q[Max(s)]],
                                      Rounded(r, Q[Max(s)]))]
  <2> HIDE DEF D, Q, n
  <2>1. QED
    BY <1>4, <1>5
<1>7. Table(g, r, n)
  <2> HIDE DEF D, Q, n, g
  <2>1. QED
    BY <1>4, <1>6
<1>8. Plan(r) = g[1 .. n]
  BY <1>2, <1>3
<1> HIDE DEF g
<1>9. QED
  BY <1>1, <1>2, <1>7, <1>8

-----------------------------------------------------------------------------
(* The tensor an alias leads to.  Chains have no length here: o leads to r *)
(* when every set that contains r, and with a tensor all its aliases,      *)
(* contains o.                                                             *)
Closed(al, P) == \A v \in DOMAIN al : al[v] \in P => v \in P
Leads(al, o, r) == \A P \in SUBSET Tensors : r \in P /\ Closed(al, P) => o \in P
IsAliases(al) == al \in [DOMAIN al -> Tensors] /\ DOMAIN al \subseteq Tensors
Terminal(al, r) == r \in Tensors /\ r \notin DOMAIN al

(* A step along the chain, and a step back.                                *)
LEMMA LeadsOn ==
  ASSUME NEW al, IsAliases(al), NEW v \in DOMAIN al, NEW r, Terminal(al, r), Leads(al, v, r)
  PROVE  Leads(al, al[v], r)
<1> SUFFICES ASSUME NEW P \in SUBSET Tensors, r \in P, Closed(al, P), al[v] \notin P
    PROVE  FALSE
  BY DEF Leads
<1>1. r \in P \ {v} /\ P \ {v} \in SUBSET Tensors
  BY DEF Terminal
<1>2. Closed(al, P \ {v})
  BY DEF Closed
<1>3. v \in P \ {v}
  BY <1>1, <1>2 DEF Leads
<1>4. QED
  BY <1>3

LEMMA LeadsToNext ==
  ASSUME NEW al, NEW o, NEW v \in DOMAIN al, Leads(al, o, v)
  PROVE  Leads(al, o, al[v])
  BY DEF Leads, Closed

(* A chain ends in one tensor.                                             *)
LEMMA OneEnd ==
  ASSUME NEW al, IsAliases(al), NEW v, NEW r1, NEW r2,
         Terminal(al, r1), Terminal(al, r2), Leads(al, v, r1), Leads(al, v, r2)
  PROVE  r1 = r2
<1> DEFINE P == {x \in Tensors : \A r : Terminal(al, r) /\ Leads(al, x, r) => r = r1}
<1>1. r1 \in P
  <2> SUFFICES ASSUME NEW r, Terminal(al, r), Leads(al, r1, r), r # r1 PROVE FALSE
    BY DEF Terminal
  <2>1. Closed(al, Tensors \ {r1})
    BY DEF Closed, Terminal, IsAliases
  <2>2. r \in Tensors \ {r1}
    BY DEF Terminal
  <2>3. r1 \in Tensors \ {r1}
    BY <2>1, <2>2 DEF Leads
  <2>4. QED
    BY <2>3
<1>2. Closed(al, P)
  <2> SUFFICES ASSUME NEW x \in DOMAIN al, al[x] \in P PROVE x \in P
    BY DEF Closed
  <2> SUFFICES ASSUME NEW r, Terminal(al, r), Leads(al, x, r) PROVE r = r1
    BY DEF IsAliases
  <2>1. Leads(al, al[x], r)
    BY LeadsOn
  <2>2. QED
    BY <2>1
<1>3. P \in SUBSET Tensors
  OBVIOUS
<1> HIDE DEF P
<1>4. v \in P
  BY <1>1, <1>2, <1>3 DEF Leads
<1>5. QED
  BY <1>4 DEF P

(* Recorded ends of all chains are what the closed form computes.          *)
Ends(al, roots) ==
  \A o \in DOMAIN al : Terminal(al, roots[o]) /\ Leads(al, o, roots[o])

LEMMA RootIs ==
  ASSUME NEW al, IsAliases(al), NEW roots, Ends(al, roots)
  PROVE  \A t \in Tensors :
           Root(al, t) = IF t \in DOMAIN al THEN roots[t] ELSE t
<1> DEFINE Solves(f) == f = [u \in Tensors |-> IF u \in DOMAIN al THEN f[al[u]] ELSE u]
           root == CHOOSE f : Solves(f)
           R == [u \in Tensors |-> IF u \in DOMAIN al THEN roots[u] ELSE u]
<1>1. Solves(R)
  <2> SUFFICES ASSUME NEW u \in DOMAIN al PROVE roots[u] = R[al[u]]
    <3>1. \A u \in DOMAIN al : u \in Tensors /\ R[u] = roots[u]
      BY DEF IsAliases
    <3>2. R = [u \in Tensors |-> IF u \in DOMAIN al THEN R[al[u]] ELSE u]
      BY <3>1
    <3>3. QED
      BY <3>2
  <2>1. /\ al[u] \in Tensors /\ Terminal(al, roots[u]) /\ Leads(al, u, roots[u])
        /\ Leads(al, al[u], roots[u])
    BY LeadsOn DEF Ends, IsAliases
  <2>2. CASE al[u] \in DOMAIN al
    <3>1. Terminal(al, roots[al[u]]) /\ Leads(al, al[u], roots[al[u]])
      BY <2>2 DEF Ends
    <3>2. roots[al[u]] = roots[u]
      BY <2>1, <3>1, OneEnd
    <3>3. QED
      BY <2>1, <2>2, <3>2
  <2>3. CASE al[u] \notin DOMAIN al
    <3>1. Terminal(al, al[u]) /\ Leads(al, al[u], al[u])
      BY <2>1, <2>3 DEF Terminal, Leads
    <3>2. al[u] = roots[u]
      BY <2>1, <3>1, OneEnd
    <3>3. QED
      BY <2>1, <2>3, <3>2
  <2>4. QED
    BY <2>2, <2>3
<1>2. Solves(root)
  <2> HIDE DEF Solves
  <2>1. QED
    BY <1>1
<1>3. ASSUME NEW t \in Tensors PROVE root[t] = IF t \in DOMAIN al THEN roots[t] ELSE t
  <2> HIDE DEF root
  <2>1. \A u \in Tensors : root[u] = IF u \in DOMAIN al THEN root[al[u]] ELSE u
    BY <1>2
  <2>2. CASE t \in DOMAIN al
    <3> DEFINE P == {v \in Tensors : root[v] = root[roots[t]]}
    <3>1. Closed(al, P)
      BY <2>1 DEF Closed, IsAliases
    <3>2. roots[t] \in P /\ Leads(al, t, roots[t]) /\ roots[t] \notin DOMAIN al
      BY <2>2 DEF Ends, Terminal
    <3>3. t \in P
      BY <3>1, <3>2 DEF Leads
    <3>4. root[roots[t]] = roots[t]
      BY <2>1, <3>2
    <3>5. QED
      BY <2>2, <3>3, <3>4
  <2>3. CASE t \notin DOMAIN al
    BY <2>1, <2>3
  <2>4. QED
    BY <2>2, <2>3
<1>4. \A t \in Tensors : Root(al, t) = root[t]
  BY DEF Root
<1>5. QED
  BY <1>3, <1>4

-----------------------------------------------------------------------------
(* Sorting by rank: a finite set under a strict order has one element of   *)
(* each rank.                                                              *)
Under(S, B, t) == {u \in S \ {t} : <<u, t>> \in B}
StrictOrder(S, B) ==
  /\ \A t \in S : <<t, t>> \notin B
  /\ \A t, u \in S : t # u => <<t, u>> \in B \/ <<u, t>> \in B
  /\ \A t, u, v \in S : <<t, u>> \in B /\ <<u, v>> \in B => <<t, v>> \in B
ByRank(S, B) ==
  [k \in 1 .. Cardinality(S) |-> CHOOSE t \in S : Cardinality(Under(S, B, t)) = k - 1]

LEMMA RanksDiffer ==
  ASSUME NEW S, IsFiniteSet(S), NEW B, StrictOrder(S, B),
         NEW t \in S, NEW u \in S, <<t, u>> \in B
  PROVE  Cardinality(Under(S, B, t)) < Cardinality(Under(S, B, u))
<1> DEFINE A == Under(S, B, t)
           C == Under(S, B, u)
<1>1. A \cup {t} \subseteq C /\ t \notin A
  BY DEF StrictOrder, Under
<1>2. A \subseteq S /\ C \subseteq S
  BY DEF Under
<1> HIDE DEF A, C
<1>3. /\ IsFiniteSet(A) /\ IsFiniteSet(C) /\ IsFiniteSet(A \cup {t})
      /\ Cardinality(A) \in Nat /\ Cardinality(C) \in Nat
  BY <1>2, FS_Subset, FS_CardinalityType, FS_AddElement
<1>4. Cardinality(A \cup {t}) = Cardinality(A) + 1
  BY <1>1, <1>3, FS_AddElement
<1>5. Cardinality(A \cup {t}) <= Cardinality(C)
  BY <1>1, <1>3, FS_Subset
<1>6. QED
  BY <1>3, <1>4, <1>5 DEF A, C

LEMMA OneOfEachRank ==
  ASSUME NEW S, IsFiniteSet(S), NEW B, StrictOrder(S, B)
  PROVE  LET n == Cardinality(S)
             Q == ByRank(S, B)
         IN  /\ n \in Nat
             /\ \A k \in 1 .. n : Q[k] \in S
             /\ \A j, k \in 1 .. n : Q[j] = Q[k] => j = k
             /\ \A t \in S : \E k \in 1 .. n : Q[k] = t
<1> DEFINE n == Cardinality(S)
           rank(t) == Cardinality(Under(S, B, t))
           f == [t \in S |-> rank(t)]
           Q == ByRank(S, B)
<1>1. n \in Nat
  BY FS_CardinalityType
<1>2. ASSUME NEW t \in S PROVE rank(t) \in 0 .. n - 1
  <2>1. Under(S, B, t) \subseteq S \ {t}
    BY DEF Under
  <2>2. IsFiniteSet(S \ {t}) /\ Cardinality(S \ {t}) = n - 1
    BY FS_RemoveElement
  <2>3. /\ IsFiniteSet(Under(S, B, t))
        /\ Cardinality(Under(S, B, t)) <= n - 1
    BY <2>1, <2>2, FS_Subset
  <2>4. Cardinality(Under(S, B, t)) \in Nat
    BY <2>3, FS_CardinalityType
  <2>5. QED
    BY <1>1, <2>3, <2>4
<1>3. ASSUME NEW t \in S, NEW u \in S, rank(t) = rank(u) PROVE t = u
  <2>1. rank(t) \in Nat /\ rank(u) \in Nat
    BY <1>1, <1>2
  <2>2. ~(<<t, u>> \in B) /\ ~(<<u, t>> \in B)
    BY <1>3, <2>1, RanksDiffer
  <2>3. QED
    BY <2>2 DEF StrictOrder
<1> HIDE DEF rank
<1>4. f \in Injection(S, 0 .. n - 1)
  BY <1>2, <1>3, Zenon DEF Injection, IsInjective
<1>5. IsFiniteSet(0 .. n - 1) /\ Cardinality(0 .. n - 1) = n
  BY <1>1, FS_Interval
<1>6. f \in Surjection(S, 0 .. n - 1)
  <2> HIDE DEF f
  <2>1. QED
    BY <1>4, <1>5, FS_Injection
<1>7. \A k \in 0 .. n - 1 : \E t \in S : rank(t) = k
  BY <1>6 DEF Surjection
<1>8. ASSUME NEW k \in 1 .. n PROVE Q[k] \in S /\ rank(Q[k]) = k - 1
  <2>1. \E t \in S : rank(t) = k - 1
    BY <1>1, <1>7
  <2>2. Q[k] = CHOOSE t \in S : rank(t) = k - 1
    BY DEF ByRank, rank
  <2> HIDE DEF Q
  <2>3. QED
    BY <2>1, <2>2
<1> HIDE DEF Q
<1>9. ASSUME NEW j \in 1 .. n, NEW k \in 1 .. n, Q[j] = Q[k] PROVE j = k
  <2>1. j - 1 = k - 1
    BY <1>8, <1>9
  <2>2. QED
    BY <1>1, <2>1
<1>10. ASSUME NEW t \in S PROVE \E k \in 1 .. n : Q[k] = t
  <2>1. rank(t) + 1 \in 1 .. n /\ (rank(t) + 1) - 1 = rank(t)
    BY <1>1, <1>2
  <2>2. Q[rank(t) + 1] \in S /\ rank(Q[rank(t) + 1]) = rank(t)
    BY <1>8, <2>1
  <2>3. QED
    BY <1>3, <2>1, <2>2
<1>11. QED
  BY <1>1, <1>8, <1>9, <1>10 DEF Q

-----------------------------------------------------------------------------
(* Sums of bytes.                                                          *)
Numbered(f, t) == {t} \X (1 .. f[t])
Pairs(f, S) == UNION {Numbered(f, t) : t \in S}

LEMMA BytesArePairs ==
  ASSUME NEW f, NEW S PROVE BytesOf(f, S) = Cardinality(Pairs(f, S))
  BY DEF BytesOf, Cardinality, Pairs, Numbered

LEMMA PairsOf ==
  ASSUME NEW S, IsFiniteSet(S), NEW f, \A t \in S : f[t] \in Nat
  PROVE  IsFiniteSet(Pairs(f, S))
<1> DEFINE T == {Numbered(f, t) : t \in S}
           g == [t \in S |-> Numbered(f, t)]
<1>1. g \in Surjection(S, T)
  BY DEF Surjection
<1>2. IsFiniteSet(T)
  <2> HIDE DEF g, T
  <2>1. QED
    BY <1>1, FS_Surjection
<1>3. ASSUME NEW t \in S PROVE IsFiniteSet(Numbered(f, t))
  <2>1. IsFiniteSet({t}) /\ IsFiniteSet(1 .. f[t])
    <3>1. 1 \in Int /\ f[t] \in Int
      OBVIOUS
    <3>2. QED
      BY <3>1, FS_Singleton, FS_Interval
  <2>2. QED
    BY <2>1, FS_Product DEF Numbered
<1>4. \A P \in T : IsFiniteSet(P)
  BY <1>3
<1>5. IsFiniteSet(UNION T)
  <2> HIDE DEF T
  <2>1. QED
    BY <1>2, <1>4, FS_UNION
<1>6. QED
  BY <1>5 DEF Pairs

LEMMA SumTyped ==
  ASSUME NEW S, IsFiniteSet(S), NEW f, \A t \in S : f[t] \in Nat
  PROVE  BytesOf(f, S) \in Nat
  BY PairsOf, BytesArePairs, FS_CardinalityType

LEMMA SumSame ==
  ASSUME NEW S, NEW f, NEW g, \A t \in S : f[t] = g[t]
  PROVE  BytesOf(f, S) = BytesOf(g, S)
<1>1. Pairs(f, S) = Pairs(g, S)
  BY DEF Pairs, Numbered
<1>2. QED
  BY <1>1, BytesArePairs

LEMMA SumOfNone == ASSUME NEW f PROVE BytesOf(f, {}) = 0
<1>1. Pairs(f, {}) = {}
  BY DEF Pairs
<1>2. QED
  BY <1>1, BytesArePairs, FS_EmptySet

LEMMA SumAdds ==
  ASSUME NEW S, IsFiniteSet(S), NEW f, \A u \in S : f[u] \in Nat,
         NEW t, t \notin S, f[t] \in Nat
  PROVE  BytesOf(f, S \cup {t}) = BytesOf(f, S) + f[t]
<1> DEFINE P == Pairs(f, S)
           N == Numbered(f, t)
<1>1. Pairs(f, S \cup {t}) = P \cup N
  BY DEF Pairs
<1>2. P \cap N = {}
  BY DEF Pairs, Numbered
<1>3. IsFiniteSet(P)
  BY PairsOf
<1>4. IsFiniteSet(N) /\ Cardinality(N) = f[t]
  <2>1. /\ IsFiniteSet({t}) /\ Cardinality({t}) = 1
        /\ IsFiniteSet(1 .. f[t]) /\ Cardinality(1 .. f[t]) = f[t]
    <3>1. 1 \in Int /\ f[t] \in Int
      OBVIOUS
    <3>2. IsFiniteSet(1 .. f[t]) /\ Cardinality(1 .. f[t]) = f[t]
      BY <3>1, FS_Interval
    <3>3. QED
      BY <3>2, FS_Singleton
  <2>2. IsFiniteSet({t} \X (1 .. f[t])) /\ Cardinality({t} \X (1 .. f[t])) = 1 * f[t]
    <3> DEFINE A == {t}
               C == 1 .. f[t]
    <3>1. IsFiniteSet(A) /\ Cardinality(A) = 1 /\ IsFiniteSet(C) /\ Cardinality(C) = f[t]
      BY <2>1
    <3> HIDE DEF A, C
    <3>2. IsFiniteSet(A \X C) /\ Cardinality(A \X C) = Cardinality(A) * Cardinality(C)
      BY <3>1, FS_Product
    <3>3. QED
      BY <3>1, <3>2 DEF A, C
  <2>3. QED
    BY <2>2 DEF Numbered
<1> HIDE DEF P, N
<1>5. Cardinality(P \cup N) = Cardinality(P) + f[t]
  <2>1. Cardinality(P \cup N) = Cardinality(P) + Cardinality(N) - Cardinality(P \cap N)
    BY <1>3, <1>4, FS_Union
  <2>2. Cardinality(P \cap N) = 0 /\ Cardinality(P) \in Nat
    BY <1>2, <1>3, FS_EmptySet, FS_CardinalityType
  <2>3. QED
    BY <1>4, <2>1, <2>2
<1>6. QED
  BY <1>1, <1>5, BytesArePairs DEF P

-----------------------------------------------------------------------------
(* A plan of the closed form has slots of so many bytes, whatever was      *)
(* replaced in the request.                                                *)
LEMMA LeastOf ==
  ASSUME NEW S, S \subseteq Nat, S # {} PROVE \E m \in S : \A x \in S : m <= x
<1>1. PICK m \in S : \A k \in S : ~(<<k, m>> \in OpToRel(<, Nat))
  BY WFMin, NatLessThanWellFounded
<1>2. \A k \in S : ~(k < m)
  BY <1>1 DEF OpToRel
<1>3. QED
  BY <1>2

LEMMA EarliestTyped ==
  ASSUME NEW S, S \subseteq Nat PROVE Earliest(S) \in Int
<1>1. CASE S = {}
  BY <1>1 DEF Earliest
<1>2. CASE S # {}
  <2>1. PICK m \in S : \A x \in S : m <= x
    BY <1>2, LeastOf
  <2>2. S \subseteq Int
    OBVIOUS
  <2>3. Min(S) = m
    BY <2>1, <2>2, MinIs
  <2>4. QED
    BY <1>2, <2>3 DEF Earliest
<1>3. QED
  BY <1>1, <1>2

LEMMA NotNegative == ASSUME NEW x \in Int PROVE Max({0, x}) \in Int
<1>1. CASE x <= 0
  <2>1. /\ {0, x} \subseteq Int /\ 0 \in {0, x} /\ \A y \in {0, x} : y <= 0
    BY <1>1
  <2>2. QED
    BY <2>1, MaxIs
<1>2. CASE ~(x <= 0)
  <2>1. /\ {0, x} \subseteq Int /\ x \in {0, x} /\ \A y \in {0, x} : y <= x
    BY <1>2
  <2>2. QED
    BY <2>1, MaxIs
<1>3. QED
  BY <1>1, <1>2

WellAsked(r) == IsProgram(r.program) /\ r.alignment \in Nat /\ r.alignment > 0 /\ r.distance \in Nat

LEMMA LivesTyped ==
  ASSUME NEW r, WellAsked(r), NEW t \in Planned(r)
  PROVE  Lives(r)[t].first \in Int /\ Lives(r)[t].dedicated \in BOOLEAN
<1> DEFINE p == r.program
           reads == Consumers(p, t)
           writes == Producers(p, t)
<1>1. Lives(r)[t] = Lifetime(r, t)
  BY DEF Lives
<1>2. reads \subseteq Nat /\ writes \subseteq Nat
  <2>1. p.count \in Nat
    BY DEF WellAsked, IsProgram
  <2>2. 0 .. p.count - 1 \subseteq Nat
    BY <2>1
  <2>3. QED
    BY <2>2 DEF Consumers, Producers, Operations
<1> HIDE DEF reads, writes
<1>3. Earliest(reads) \in Int /\ Earliest(writes) \in Int
  BY <1>2, EarliestTyped
<1>4. /\ Max({0, Earliest(reads) - r.distance}) \in Int
      /\ Max({0, Earliest(writes)}) \in Int
  <2>1. Earliest(reads) - r.distance \in Int
    BY <1>3 DEF WellAsked
  <2>2. QED
    BY <1>3, <2>1, NotNegative
<1>5. Lifetime(r, t).first \in Int
  BY <1>4 DEF Lifetime, reads, writes
<1>6. Lifetime(r, t).dedicated \in BOOLEAN
  BY DEF Lifetime
<1>7. QED
  BY <1>1, <1>5, <1>6

LEMMA QueueIsPlanned ==
  ASSUME NEW r, WellAsked(r)
  PROVE  LET n == Cardinality(Planned(r))
         IN  /\ \A k \in 1 .. n : Queue(r)[k] \in Planned(r)
             /\ \A j, k \in 1 .. n : Queue(r)[j] = Queue(r)[k] => j = k
             /\ \A t \in Planned(r) : \E k \in 1 .. n : Queue(r)[k] = t
<1> DEFINE S == Planned(r)
           life == Lives(r)
           B == {z \in S \X S : PlacedBefore(life[z[1]], life[z[2]], z[1], z[2])}
<1>1. S \subseteq Tensors /\ S \subseteq Nat /\ IsFiniteSet(S)
  <2>1. S \subseteq Tensors
    BY DEF Planned
  <2>2. QED
    BY <2>1, TensorsAssumption, FS_Subset
<1>2. DOMAIN life = S
  BY DEF Lives
<1>3. \A t \in S : life[t].first \in Int /\ life[t].dedicated \in BOOLEAN
  BY LivesTyped
<1> HIDE DEF S, life
<1>4. \A t, u \in S : <<t, u>> \in B <=> PlacedBefore(life[t], life[u], t, u)
  OBVIOUS
<1> HIDE DEF B
<1>5. StrictOrder(S, B)
  <2>1. ASSUME NEW t \in S PROVE <<t, t>> \notin B
    BY <1>1, <1>3, <1>4 DEF PlacedBefore
  <2>2. ASSUME NEW t \in S, NEW u \in S, t # u PROVE <<t, u>> \in B \/ <<u, t>> \in B
    <3>1. t \in Nat /\ u \in Nat
      BY <1>1
    <3>2. CASE life[t].dedicated # life[u].dedicated
      BY <1>3, <1>4, <3>2 DEF PlacedBefore
    <3>3. CASE life[t].dedicated = life[u].dedicated
      BY <1>3, <1>4, <2>2, <3>1, <3>3 DEF PlacedBefore
    <3>4. QED
      BY <3>2, <3>3
  <2>3. ASSUME NEW t \in S, NEW u \in S, NEW v \in S, <<t, u>> \in B, <<u, v>> \in B
        PROVE  <<t, v>> \in B
    <3>1. t \in Nat /\ u \in Nat /\ v \in Nat
      BY <1>1
    <3>2. PlacedBefore(life[t], life[u], t, u) /\ PlacedBefore(life[u], life[v], u, v)
      BY <1>4, <2>3
    <3>3. PlacedBefore(life[t], life[v], t, v)
      <4>1. CASE life[t].dedicated = life[u].dedicated /\ life[u].dedicated = life[v].dedicated
        BY <1>3, <3>1, <3>2, <4>1 DEF PlacedBefore
      <4>2. CASE life[t].dedicated # life[u].dedicated
        BY <1>3, <3>2, <4>2 DEF PlacedBefore
      <4>3. CASE life[u].dedicated # life[v].dedicated
        BY <1>3, <3>2, <4>3 DEF PlacedBefore
      <4>4. QED
        BY <4>1, <4>2, <4>3
    <3>4. QED
      BY <1>4, <3>3
  <2>4. QED
    BY <2>1, <2>2, <2>3 DEF StrictOrder
<1>6. Queue(r) = ByRank(S, B)
  <2>1. \A t \in S : {u \in S \ {t} : PlacedBefore(life[u], life[t], u, t)} = Under(S, B, t)
    BY <1>4 DEF Under
  <2>2. Queue(r) = [k \in 1 .. Cardinality(S) |->
                      CHOOSE t \in S :
                        Cardinality({u \in S \ {t} : PlacedBefore(life[u], life[t], u, t)}) = k - 1]
    BY <1>2 DEF Queue, life, Ordered, Cardinality
  <2>3. QED
    BY <2>1, <2>2 DEF ByRank
<1>7. QED
  BY <1>1, <1>5, <1>6, OneOfEachRank DEF S

LEMMA SlotsTyped ==
  ASSUME NEW r, WellAsked(r)
  PROVE  Plan(r).slots \in Seq(Nat)
<1> DEFINE n == Cardinality(Planned(r))
<1>1. n \in Nat
  BY PlanIs
<1>2. PICK g : Table(g, r, n) /\ Plan(r) = g[1 .. n]
  BY PlanIs
<1> DEFINE T == {k \in Nat : k <= n => g[1 .. k].slots \in Seq(Nat)}
<1>3. g[1 .. 0].slots = <<>> /\ Steps(g, r, n)
  BY <1>1, <1>2, TableSteps DEF Nothing
<1> HIDE DEF n
<1>4. 0 \in T
  <2>1. <<>> \in Seq(Nat)
    OBVIOUS
  <2>2. QED
    BY <1>3, <2>1
<1>5. ASSUME NEW k \in Nat, k \in T PROVE k + 1 \in T
  <2>1. SUFFICES ASSUME k + 1 <= n PROVE g[1 .. k + 1].slots \in Seq(Nat)
    OBVIOUS
  <2>2. k \in 0 .. n - 1 /\ k + 1 \in 1 .. n /\ g[1 .. k].slots \in Seq(Nat)
    BY <1>1, <1>5, <2>1
  <2>3. g[1 .. k + 1] = Step(r, k + 1, g[1 .. k])
    BY <1>3, <2>2 DEF Steps
  <2>4. Queue(r)[k + 1] \in Tensors
    BY <2>2, QueueIsPlanned DEF n, Planned
  <2>5. Rounded(r, Queue(r)[k + 1]) \in Nat
    <3>1. r.program.bytes[Queue(r)[k + 1]] \in Nat
      BY <2>4, MaxU64Assumption DEF WellAsked, IsProgram
    <3>2. QED
      BY <3>1, RoundUp DEF Rounded, WellAsked
  <2>6. \/ Step(r, k + 1, g[1 .. k]).slots = Append(g[1 .. k].slots, Rounded(r, Queue(r)[k + 1]))
        \/ Step(r, k + 1, g[1 .. k]).slots = g[1 .. k].slots
    BY DEF Step, PlaceNext
  <2>7. \A s \in Seq(Nat), b \in Nat : Append(s, b) \in Seq(Nat)
    OBVIOUS
  <2>8. Append(g[1 .. k].slots, Rounded(r, Queue(r)[k + 1])) \in Seq(Nat)
    BY <2>2, <2>5, <2>7
  <2>9. QED
    BY <2>2, <2>3, <2>6, <2>8
<1>6. \A k \in Nat : k \in T
  <2> HIDE DEF T
  <2>1. QED
    BY <1>4, <1>5, EveryNat
<1>7. QED
  BY <1>1, <1>2, <1>6

-----------------------------------------------------------------------------
(* The decisions of plan_streamed_residency, as a table like the one of    *)
(* the placements.                                                         *)
Asks(q) == WellAsked(q) /\ q.maximum \in Int /\ q.fixed \in Nat /\ q.largest_first \in BOOLEAN
Among(q) == Candidates(q.program)
Storage(q) == [t \in Tensors |-> Align(q, q.program.bytes[t])]
Undecided(q) ==
  [selected |-> {}, decisions |-> <<>>, resident_bytes |-> 0,
   streamed_bytes |-> BytesOf(q.program.bytes, Among(q)),
   required |-> Baseline(q)]
Decide(q, k, plan) == Consider(q, plan, Order(q)[k])

Decisions(g, q, n) ==
  g = [s \in SUBSET (1 .. n) |->
         IF s = {} THEN Undecided(q)
         ELSE Decide(q, Max(s), g[s \ {Max(s)}])]

LEMMA DecisionsExist ==
  ASSUME NEW q
  PROVE  \A n \in Nat : \E g : Decisions(g, q, n)
<1> DEFINE T == {n \in Nat : \E g : Decisions(g, q, n)}
<1>1. 0 \in T
  <2> DEFINE g == [s \in SUBSET (1 .. 0) |-> Undecided(q)]
  <2>1. \A s \in SUBSET (1 .. 0) : s = {}
    OBVIOUS
  <2>2. Decisions(g, q, 0)
    BY <2>1 DEF Decisions
  <2>3. QED
    BY <2>2
<1>2. ASSUME NEW n \in Nat, n \in T PROVE n + 1 \in T
  <2>1. PICK g : Decisions(g, q, n)
    BY <1>2
  <2> DEFINE h == [s \in SUBSET (1 .. n + 1) |->
                     IF n + 1 \in s THEN Decide(q, n + 1, g[s \ {n + 1}]) ELSE g[s]]
  <2>2. ASSUME NEW s \in SUBSET (1 .. n + 1)
        PROVE  h[s] = IF s = {} THEN Undecided(q)
                      ELSE Decide(q, Max(s), h[s \ {Max(s)}])
    <3>1. CASE n + 1 \in s
      <4>1. Max(s) = n + 1
        <5>1. s \subseteq Int /\ \A x \in s : x <= n + 1
          OBVIOUS
        <5>2. QED
          BY <3>1, <5>1, MaxIs
      <4>2. s \ {n + 1} \in SUBSET (1 .. n) /\ n + 1 \notin s \ {n + 1}
        OBVIOUS
      <4>3. h[s \ {n + 1}] = g[s \ {n + 1}]
        BY <4>2
      <4>4. QED
        BY <3>1, <4>1, <4>3
    <3>2. CASE n + 1 \notin s
      <4>1. s \in SUBSET (1 .. n) /\ h[s] = g[s]
        <5>1. s \subseteq 1 .. n
          BY <3>2
        <5>2. QED
          BY <3>2, <5>1
      <4>2. CASE s = {}
        BY <4>1, <4>2, <2>1 DEF Decisions
      <4>3. CASE s # {}
        <5>1. h[s \ {Max(s)}] = g[s \ {Max(s)}]
          <6> DEFINE u == s \ {Max(s)}
          <6>1. u \in SUBSET (1 .. n + 1) /\ n + 1 \notin u
            BY <3>2
          <6>2. h[u] = g[u]
            <7> HIDE DEF u
            <7>1. QED
              BY <6>1
          <6>3. QED
            BY <6>2
        <5>2. g[s] = Decide(q, Max(s), g[s \ {Max(s)}])
          BY <2>1, <4>1, <4>3 DEF Decisions
        <5>3. QED
          BY <4>1, <4>3, <5>1, <5>2
      <4>4. QED
        BY <4>2, <4>3
    <3>3. QED
      BY <3>1, <3>2
  <2>3. Decisions(h, q, n + 1)
    <3>1. h = [s \in SUBSET (1 .. n + 1) |-> h[s]]
      OBVIOUS
    <3> HIDE DEF h
    <3>2. QED
      BY <2>2, <3>1 DEF Decisions
  <2>4. QED
    BY <2>3
<1>3. QED
  <2> HIDE DEF T
  <2>1. \A n \in Nat : n \in T
    BY <1>1, <1>2, EveryNat
  <2>2. QED
    BY <2>1 DEF T

LEMMA DecisionSteps ==
  ASSUME NEW q, NEW n \in Nat, NEW g, Decisions(g, q, n)
  PROVE  /\ g[1 .. 0] = Undecided(q)
         /\ \A k \in 0 .. n - 1 : g[1 .. k + 1] = Decide(q, k + 1, g[1 .. k])
<1>1. 1 .. 0 = {} /\ {} \in SUBSET (1 .. n)
  OBVIOUS
<1>2. g[1 .. 0] = Undecided(q)
  BY <1>1 DEF Decisions
<1>3. ASSUME NEW k \in 0 .. n - 1 PROVE g[1 .. k + 1] = Decide(q, k + 1, g[1 .. k])
  <2>1. /\ 1 .. k + 1 \in SUBSET (1 .. n) /\ 1 .. k + 1 # {}
        /\ (1 .. k + 1) \ {k + 1} = 1 .. k
    <3>1. k \in Nat /\ k + 1 <= n
      OBVIOUS
    <3>2. 1 .. k + 1 \subseteq 1 .. n
      BY <3>1
    <3>3. k + 1 \in 1 .. k + 1
      BY <3>1
    <3>4. ASSUME NEW x PROVE x \in (1 .. k + 1) \ {k + 1} <=> x \in 1 .. k
      BY <3>1
    <3>5. (1 .. k + 1) \ {k + 1} = 1 .. k
      BY <3>4
    <3>6. QED
      BY <3>2, <3>3, <3>5
  <2>2. Max(1 .. k + 1) = k + 1
    <3>1. /\ 1 .. k + 1 \subseteq Int /\ k + 1 \in 1 .. k + 1
          /\ \A x \in 1 .. k + 1 : x <= k + 1
      OBVIOUS
    <3>2. QED
      BY <3>1, MaxIs
  <2>3. QED
    BY <2>1, <2>2 DEF Decisions
<1>4. QED
  BY <1>2, <1>3

LEMMA ResidencyIs ==
  ASSUME NEW q
  PROVE  LET n == Cardinality(Among(q))
         IN  /\ n \in Nat
             /\ \E g : Decisions(g, q, n) /\ StreamedResidency(q) = g[1 .. n]
<1> DEFINE S == Among(q)
           n == Cardinality(S)
           Q == Order(q)
           D == DOMAIN Q
           g == CHOOSE f : f = [s \in SUBSET D |->
                  IF s = {} THEN Undecided(q)
                  ELSE Consider(q, f[s \ {Max(s)}], Q[Max(s)])]
<1>1. n \in Nat
  <2>1. S \subseteq Tensors
    BY DEF Among, Candidates
  <2>2. IsFiniteSet(S)
    BY <2>1, FS_Subset, TensorsAssumption
  <2>3. QED
    BY <2>2, FS_CardinalityType
<1>2. D = 1 .. n
  BY DEF Order, Cardinality, Among
<1>3. StreamedResidency(q) = g[D]
  BY DEF StreamedResidency, FoldLeft, MapThenFoldSet, Undecided, Among
<1>4. \A f : Decisions(f, q, n) <=>
             f = [s \in SUBSET D |->
                    IF s = {} THEN Undecided(q)
                    ELSE Consider(q, f[s \ {Max(s)}], Q[Max(s)])]
  <2> HIDE DEF n
  <2>1. QED
    BY <1>2 DEF Decisions, Decide
<1>5. \E f : Decisions(f, q, n)
  BY <1>1, DecisionsExist
<1>6. g = [s \in SUBSET D |->
             IF s = {} THEN Undecided(q)
             ELSE Consider(q, g[s \ {Max(s)}], Q[Max(s)])]
  <2> HIDE DEF D, Q, n
  <2>1. QED
    BY <1>4, <1>5
<1>7. Decisions(g, q, n)
  <2> HIDE DEF D, Q, n, g
  <2>1. QED
    BY <1>4, <1>6
<1>8. StreamedResidency(q) = g[1 .. n]
  BY <1>2, <1>3
<1> HIDE DEF g
<1>9. QED
  BY <1>1, <1>7, <1>8

-----------------------------------------------------------------------------
LEMMA AmongTyped ==
  ASSUME NEW q
  PROVE  /\ Among(q) \subseteq Tensors /\ Among(q) \subseteq Nat
         /\ \A S : S \subseteq Tensors => IsFiniteSet(S)
<1>1. Among(q) \subseteq Tensors
  BY DEF Among, Candidates
<1>2. QED
  BY <1>1, TensorsAssumption, FS_Subset

LEMMA SizesTyped ==
  ASSUME NEW q, Asks(q)
  PROVE  \A t \in Tensors : /\ q.program.bytes[t] \in Nat
                            /\ Storage(q)[t] \in Nat
                            /\ Align(q, q.program.bytes[t]) = Storage(q)[t]
<1> TAKE t \in Tensors
<1>1. q.program.bytes[t] \in Nat
  BY MaxU64Assumption DEF Asks, WellAsked, IsProgram
<1>2. Storage(q)[t] = Align(q, q.program.bytes[t])
  BY DEF Storage
<1>3. Align(q, q.program.bytes[t]) \in Nat
  BY <1>1, RoundUp DEF Align, Asks, WellAsked
<1>4. QED
  BY <1>1, <1>2, <1>3

LEMMA PlanBytesTyped ==
  ASSUME NEW q, Asks(q), NEW selected
  PROVE  PlanBytes(q, selected) \in Nat
<1> DEFINE r == [program |-> q.program, alignment |-> q.alignment, distance |-> q.distance,
                 excluded |-> {}, replaced |-> selected, persistent |-> {}, aliases |-> q.aliases]
           s == Plan(r).slots
<1>1. WellAsked(r)
  BY DEF Asks, WellAsked
<1>2. s \in Seq(Nat)
  <2> HIDE DEF r
  <2>1. QED
    BY <1>1, SlotsTyped
<1>3. PlanBytes(q, selected) = BytesOf(s, DOMAIN s)
  BY DEF PlanBytes
<1> HIDE DEF s
<1>4. Len(s) \in Nat /\ DOMAIN s = 1 .. Len(s) /\ \A i \in DOMAIN s : s[i] \in Nat
  BY <1>2
<1>5. IsFiniteSet(DOMAIN s)
  <2>1. 1 \in Int /\ Len(s) \in Int
    BY <1>4
  <2>2. QED
    BY <1>4, <2>1, FS_Interval
<1>6. QED
  BY <1>3, <1>4, <1>5, SumTyped

LEMMA OrderOfAll ==
  ASSUME NEW q, Asks(q)
  PROVE  LET n == Cardinality(Among(q))
             Q == Order(q)
         IN  /\ n \in Nat
             /\ \A k \in 1 .. n : Q[k] \in Among(q)
             /\ \A j, k \in 1 .. n : Q[j] = Q[k] => j = k
             /\ \A t \in Among(q) : \E k \in 1 .. n : Q[k] = t
<1> DEFINE S == Among(q)
           p == q.program
           first(t) == FirstConsumer(p, t)
           B == {z \in S \X S : Earlier(q, z[1], z[2])}
<1>1. S \subseteq Tensors /\ S \subseteq Nat /\ IsFiniteSet(S)
  BY AmongTyped
<1>2. \A t \in S : p.bytes[t] \in Nat
  BY <1>1, SizesTyped
<1>3. ASSUME NEW t \in S PROVE first(t) \in Int
  <2> DEFINE reads == Consumers(p, t)
  <2>1. reads \subseteq Nat
    <3>1. p.count \in Nat
      BY DEF Asks, WellAsked, IsProgram
    <3>2. 0 .. p.count - 1 \subseteq Nat
      BY <3>1
    <3>3. QED
      BY <3>2 DEF Consumers, Operations
  <2>2. Earliest(reads) \in Int
    <3> HIDE DEF reads
    <3>1. QED
      BY <2>1, EarliestTyped
  <2>3. QED
    BY <2>2, MaxU64Assumption DEF FirstConsumer, Earliest
<1>4. \A t, u \in S : <<t, u>> \in B <=>
        \/ q.largest_first /\ p.bytes[t] > p.bytes[u]
        \/ /\ q.largest_first => p.bytes[t] = p.bytes[u]
           /\ first(t) < first(u) \/ (first(t) = first(u) /\ t < u)
  BY DEF Earlier
<1>5. Order(q) = ByRank(S, B)
  <2>1. \A t \in S : {u \in S \ {t} : Earlier(q, u, t)} = Under(S, B, t)
    BY DEF Under
  <2>2. Order(q) = [k \in 1 .. Cardinality(S) |->
          CHOOSE t \in S : Cardinality({u \in S \ {t} : Earlier(q, u, t)}) = k - 1]
    BY DEF Order, Cardinality, Among
  <2> HIDE DEF S, B
  <2>3. QED
    BY <2>1, <2>2 DEF ByRank
<1>6. q.largest_first \in BOOLEAN
  BY DEF Asks
<1> HIDE DEF S, B, first, p
<1>7. StrictOrder(S, B)
  <2>1. ASSUME NEW t \in S PROVE <<t, t>> \notin B
    BY <1>1, <1>2, <1>3, <1>4
  <2>2. ASSUME NEW t \in S, NEW u \in S, t # u PROVE <<t, u>> \in B \/ <<u, t>> \in B
    <3>1. /\ t \in Nat /\ u \in Nat /\ p.bytes[t] \in Nat /\ p.bytes[u] \in Nat
          /\ first(t) \in Int /\ first(u) \in Int
      BY <1>1, <1>2, <1>3
    <3>2. CASE q.largest_first
      BY <1>4, <2>2, <3>1, <3>2
    <3>3. CASE ~q.largest_first
      BY <1>4, <2>2, <3>1, <3>3
    <3>4. QED
      BY <3>2, <3>3
  <2>3. ASSUME NEW t \in S, NEW u \in S, NEW v \in S, <<t, u>> \in B, <<u, v>> \in B
        PROVE  <<t, v>> \in B
    <3>1. /\ t \in Nat /\ u \in Nat /\ v \in Nat
          /\ p.bytes[t] \in Nat /\ p.bytes[u] \in Nat /\ p.bytes[v] \in Nat
          /\ first(t) \in Int /\ first(u) \in Int /\ first(v) \in Int
      BY <1>1, <1>2, <1>3
    <3>2. CASE q.largest_first
      BY <1>4, <2>3, <3>1, <3>2
    <3>3. CASE ~q.largest_first
      BY <1>4, <2>3, <3>1, <3>3
    <3>4. QED
      BY <3>2, <3>3
  <2>4. QED
    BY <2>1, <2>2, <2>3 DEF StrictOrder
<1>8. QED
  BY <1>1, <1>5, <1>7, OneOfEachRank DEF S

-----------------------------------------------------------------------------
(* What holds of the plan after the first k decisions.                     *)
Decision == [tensor : Tensors, resident : BOOLEAN, required : Int]
Need(q, S) == PlanBytes(q, S) + q.fixed + BytesOf(Storage(q), S)
Considered(q, k) == {Order(q)[j] : j \in 1 .. k}

Recorded(q, k, plan) ==
  /\ plan \in [selected : SUBSET Tensors, decisions : Seq(Decision), resident_bytes : Int,
               streamed_bytes : Int, required : Int]
  /\ plan.selected \subseteq Considered(q, k)
  /\ Len(plan.decisions) = k
  /\ \A j \in 1 .. k : plan.decisions[j].tensor = Order(q)[j]

Totals(q, plan) ==
  /\ plan.required = Need(q, plan.selected)
  /\ plan.resident_bytes = BytesOf(Storage(q), plan.selected)
  /\ plan.streamed_bytes = BytesOf(q.program.bytes, Among(q) \ plan.selected)

Declined(q, k, plan) ==
  \A j \in 1 .. k :
    LET t == Order(q)[j]
    IN  t \notin plan.selected =>
          Need(q, (Considered(q, j - 1) \cap plan.selected) \cup {t}) > q.maximum

Keeps(q, k, plan) ==
  Recorded(q, k, plan) /\ Totals(q, plan) /\ plan.required <= q.maximum /\ Declined(q, k, plan)

LEMMA NeedTyped ==
  ASSUME NEW q, Asks(q), NEW S, S \subseteq Tensors
  PROVE  /\ PlanBytes(q, S) \in Nat /\ BytesOf(Storage(q), S) \in Nat
         /\ Need(q, S) \in Int
<1>1. IsFiniteSet(S)
  BY AmongTyped
<1>2. BytesOf(Storage(q), S) \in Nat
  BY <1>1, SizesTyped, SumTyped
<1>3. PlanBytes(q, S) \in Nat
  BY PlanBytesTyped
<1>4. QED
  BY <1>2, <1>3 DEF Need, Asks

LEMMA UndecidedKeeps ==
  ASSUME NEW q, Asks(q), Plannable(q)
  PROVE  Keeps(q, 0, Undecided(q))
<1> DEFINE plan == Undecided(q)
<1>1. /\ plan.selected = {} /\ plan.decisions = <<>> /\ plan.resident_bytes = 0
      /\ plan.streamed_bytes = BytesOf(q.program.bytes, Among(q))
      /\ plan.required = Baseline(q)
  BY DEF Undecided
<1>2. BytesOf(Storage(q), {}) = 0
  BY SumOfNone
<1>3. Baseline(q) = Need(q, {}) /\ Need(q, {}) \in Int
  BY <1>2, NeedTyped DEF Baseline, Need, Asks
<1>4. Among(q) \ {} = Among(q)
  OBVIOUS
<1>5. BytesOf(q.program.bytes, Among(q)) \in Nat
  BY AmongTyped, SizesTyped, SumTyped
<1>6. plan \in [selected : SUBSET Tensors, decisions : Seq(Decision), resident_bytes : Int,
                streamed_bytes : Int, required : Int]
  <2>1. <<>> \in Seq(Decision)
    OBVIOUS
  <2>2. QED
    BY <1>3, <1>5, <2>1 DEF Undecided
<1>7. Recorded(q, 0, plan)
  <2>1. Len(<<>>) = 0 /\ 1 .. 0 = {}
    OBVIOUS
  <2>2. QED
    BY <1>1, <1>6, <2>1 DEF Recorded
<1>8. Totals(q, plan)
  BY <1>1, <1>2, <1>3, <1>4 DEF Totals
<1>9. plan.required <= q.maximum
  BY <1>1 DEF Plannable
<1>10. Declined(q, 0, plan)
  BY DEF Declined
<1>11. QED
  BY <1>7, <1>8, <1>9, <1>10 DEF Keeps

(* One more constant, wherever it goes.                                    *)
LEMMA DecidingKeeps ==
  ASSUME NEW q, Asks(q), NEW k \in 0 .. Cardinality(Among(q)) - 1,
         NEW plan, Keeps(q, k, plan)
  PROVE  Keeps(q, k + 1, Decide(q, k + 1, plan))
<1> DEFINE Q == Order(q)
           n == Cardinality(Among(q))
           t == Q[k + 1]
           sel == plan.selected
           req == Required(q, plan, t)
           new == Decide(q, k + 1, plan)
           entry == [tensor |-> t, resident |-> req <= q.maximum, required |-> req]
<1>1. /\ n \in Nat /\ k \in Nat /\ k + 1 \in 1 .. n
      /\ \A j \in 1 .. n : Q[j] \in Among(q)
      /\ \A i, j \in 1 .. n : Q[i] = Q[j] => i = j
  BY OrderOfAll
<1>2. /\ Among(q) \subseteq Tensors
      /\ \A S : S \subseteq Tensors => IsFiniteSet(S)
  BY AmongTyped
<1>3. t \in Among(q) /\ t \in Tensors
  BY <1>1, <1>2
<1>4. /\ q.program.bytes[t] \in Nat /\ Storage(q)[t] \in Nat
      /\ Align(q, q.program.bytes[t]) = Storage(q)[t]
      /\ \A u \in Tensors : q.program.bytes[u] \in Nat /\ Storage(q)[u] \in Nat
  BY <1>3, SizesTyped
<1>5. /\ sel \subseteq Tensors /\ sel \subseteq Considered(q, k)
      /\ plan.decisions \in Seq(Decision) /\ Len(plan.decisions) = k
      /\ \A j \in 1 .. k : plan.decisions[j].tensor = Q[j]
      /\ plan \in [selected : SUBSET Tensors, decisions : Seq(Decision), resident_bytes : Int,
                   streamed_bytes : Int, required : Int]
  BY DEF Keeps, Recorded
<1> HIDE DEF Q
<1>6. /\ \A j \in 1 .. k : j \in 1 .. n /\ j \in 1 .. k + 1 /\ j # k + 1
      /\ \A j \in 1 .. k + 1 : j \in 1 .. k \/ j = k + 1
      /\ (k + 1) - 1 = k
  BY <1>1
<1>7. \A j \in 1 .. k : Considered(q, j - 1) = {Q[i] : i \in 1 .. j - 1}
  BY DEF Considered, Q
<1>8. t \notin Considered(q, k)
  BY <1>1, <1>6 DEF Considered, Q
<1>9. t \notin sel /\ \A j \in 1 .. k : t \notin Considered(q, j - 1)
  <2>1. ASSUME NEW j \in 1 .. k PROVE Considered(q, j - 1) \subseteq Considered(q, k)
    <3>1. 1 .. j - 1 \subseteq 1 .. k
      BY <1>1
    <3>2. QED
      BY <3>1 DEF Considered
  <2>2. QED
    BY <1>5, <1>8, <2>1
<1>10. Considered(q, k) \subseteq Considered(q, k + 1) /\ t \in Considered(q, k + 1)
  BY <1>1, <1>6 DEF Considered, Q
<1>11. BytesOf(Storage(q), sel \cup {t})
         = BytesOf(Storage(q), sel) + Storage(q)[t]
  <2>1. IsFiniteSet(sel) /\ \A u \in sel : Storage(q)[u] \in Nat
    BY <1>2, <1>4, <1>5
  <2> HIDE DEF sel, t
  <2>2. QED
    BY <1>4, <1>9, <2>1, SumAdds
<1>12. /\ req = Need(q, sel \cup {t}) /\ req \in Int
       /\ plan.resident_bytes = BytesOf(Storage(q), sel)
       /\ plan.required = Need(q, sel)
       /\ plan.streamed_bytes = BytesOf(q.program.bytes, Among(q) \ sel)
  <2>1. plan.resident_bytes = BytesOf(Storage(q), sel)
    BY DEF Keeps, Totals
  <2>2. sel \cup {t} \subseteq Tensors
    BY <1>3, <1>5
  <2>3. req = PlanBytes(q, sel \cup {t}) + q.fixed + plan.resident_bytes + Storage(q)[t]
    BY <1>4 DEF Required
  <2>4. /\ PlanBytes(q, sel \cup {t}) \in Nat /\ Need(q, sel \cup {t}) \in Int
        /\ BytesOf(Storage(q), sel) \in Nat /\ q.fixed \in Nat
    BY <1>5, <2>2, NeedTyped DEF Asks
  <2> HIDE DEF req
  <2>5. req = Need(q, sel \cup {t})
    BY <1>4, <1>11, <2>1, <2>3, <2>4 DEF Need
  <2>6. QED
    BY <2>1, <2>4, <2>5 DEF Keeps, Totals
<1>13. entry \in Decision
  <2>1. (req <= q.maximum) \in BOOLEAN
    OBVIOUS
  <2> HIDE DEF req
  <2>2. QED
    BY <1>3, <1>12, <2>1 DEF Decision
<1>14. /\ Append(plan.decisions, entry) \in Seq(Decision)
       /\ Len(Append(plan.decisions, entry)) = k + 1
       /\ \A j \in 1 .. k : Append(plan.decisions, entry)[j] = plan.decisions[j]
       /\ Append(plan.decisions, entry)[k + 1] = entry
  <2> HIDE DEF entry
  <2>1. QED
    BY <1>1, <1>5, <1>13
<1>15. \A j \in 1 .. k + 1 : Append(plan.decisions, entry)[j].tensor = Q[j]
  <2>1. entry.tensor = t
    OBVIOUS
  <2> HIDE DEF entry
  <2>2. QED
    BY <1>5, <1>6, <1>14, <2>1
<1>16. CASE req > q.maximum
  <2>1. new = [plan EXCEPT !.decisions = Append(@, entry)]
    BY <1>16 DEF Decide, Consider, Q
  <2> HIDE DEF entry, new
  <2>2. /\ new.selected = sel /\ new.decisions = Append(plan.decisions, entry)
        /\ new.resident_bytes = plan.resident_bytes /\ new.streamed_bytes = plan.streamed_bytes
        /\ new.required = plan.required
        /\ new \in [selected : SUBSET Tensors, decisions : Seq(Decision), resident_bytes : Int,
                    streamed_bytes : Int, required : Int]
    BY <1>5, <1>14, <2>1
  <2>3. Recorded(q, k + 1, new)
    BY <1>5, <1>10, <1>14, <1>15, <2>2 DEF Recorded, Q
  <2>4. Totals(q, new) /\ new.required <= q.maximum
    BY <2>2 DEF Keeps, Totals
  <2>5. Declined(q, k + 1, new)
    <3>1. ASSUME NEW j \in 1 .. k + 1, Q[j] \notin sel
          PROVE  Need(q, (Considered(q, j - 1) \cap sel) \cup {Q[j]}) > q.maximum
      <4>1. CASE j \in 1 .. k
        BY <3>1, <4>1 DEF Keeps, Declined, Q
      <4>2. CASE j = k + 1
        <5>1. Considered(q, j - 1) \cap sel = sel
          BY <1>5, <1>6, <4>2
        <5>2. QED
          BY <1>12, <1>16, <4>2, <5>1
      <4>3. QED
        BY <1>6, <4>1, <4>2
    <3>2. QED
      BY <2>2, <3>1 DEF Declined, Q
  <2>6. QED
    BY <2>3, <2>4, <2>5 DEF Keeps, new
<1>17. CASE ~(req > q.maximum)
  <2>1. new = [[plan EXCEPT !.decisions = Append(@, entry)]
                 EXCEPT !.selected = @ \cup {t},
                        !.resident_bytes = @ + Storage(q)[t],
                        !.streamed_bytes = @ - q.program.bytes[t],
                        !.required = req]
    BY <1>4, <1>17 DEF Decide, Consider, Q
  <2> HIDE DEF entry, new, req
  <2>2. /\ new.selected = sel \cup {t} /\ new.decisions = Append(plan.decisions, entry)
        /\ new.resident_bytes = plan.resident_bytes + Storage(q)[t]
        /\ new.streamed_bytes = plan.streamed_bytes - q.program.bytes[t]
        /\ new.required = req
        /\ new \in [selected : SUBSET Tensors, decisions : Seq(Decision), resident_bytes : Int,
                    streamed_bytes : Int, required : Int]
    <3>1. plan = [selected |-> sel, decisions |-> plan.decisions,
                  resident_bytes |-> plan.resident_bytes,
                  streamed_bytes |-> plan.streamed_bytes, required |-> plan.required]
      BY <1>5
    <3>2. new = [selected |-> sel \cup {t}, decisions |-> Append(plan.decisions, entry),
                 resident_bytes |-> plan.resident_bytes + Storage(q)[t],
                 streamed_bytes |-> plan.streamed_bytes - q.program.bytes[t],
                 required |-> req]
      BY <2>1, <3>1
    <3>3. /\ plan.resident_bytes + Storage(q)[t] \in Int
          /\ plan.streamed_bytes - q.program.bytes[t] \in Int
          /\ sel \cup {t} \subseteq Tensors
      BY <1>3, <1>4, <1>5
    <3>4. QED
      BY <1>12, <1>14, <3>2, <3>3
  <2>3. Recorded(q, k + 1, new)
    BY <1>5, <1>10, <1>14, <1>15, <2>2 DEF Recorded, Q
  <2>4. Totals(q, new)
    <3> DEFINE rest == Among(q) \ (sel \cup {t})
    <3>1. Among(q) \ sel = rest \cup {t} /\ t \notin rest /\ rest \subseteq Tensors
      BY <1>2, <1>3, <1>9
    <3> HIDE DEF rest
    <3>2. BytesOf(q.program.bytes, rest \cup {t})
            = BytesOf(q.program.bytes, rest) + q.program.bytes[t]
      BY <1>2, <1>4, <3>1, SumAdds
    <3>3. BytesOf(q.program.bytes, rest) \in Nat
      BY <1>2, <1>4, <3>1, SumTyped
    <3>4. new.streamed_bytes = BytesOf(q.program.bytes, rest)
      <4>1. plan.streamed_bytes = BytesOf(q.program.bytes, rest \cup {t})
        BY <1>12, <3>1
      <4>2. QED
        BY <1>4, <2>2, <3>2, <3>3, <4>1
    <3>5. QED
      BY <1>11, <1>12, <2>2, <3>4 DEF Totals, rest
  <2>5. new.required <= q.maximum
    BY <1>12, <1>17, <2>2 DEF Asks
  <2>6. Declined(q, k + 1, new)
    <3>1. ASSUME NEW j \in 1 .. k + 1, Q[j] \notin sel \cup {t}
          PROVE  Need(q, (Considered(q, j - 1) \cap (sel \cup {t})) \cup {Q[j]}) > q.maximum
      <4>1. j \in 1 .. k /\ Q[j] \notin sel
        BY <1>6, <3>1
      <4>2. Considered(q, j - 1) \cap (sel \cup {t}) = Considered(q, j - 1) \cap sel
        BY <1>9, <4>1
      <4>3. QED
        BY <4>1, <4>2 DEF Keeps, Declined, Q
    <3>2. QED
      BY <2>2, <3>1 DEF Declined, Q
  <2>7. QED
    BY <2>3, <2>4, <2>5, <2>6 DEF Keeps, new
<1>18. QED
  BY <1>16, <1>17

LEMMA ResidencyKeeps ==
  ASSUME NEW q, Asks(q), Plannable(q)
  PROVE  Keeps(q, Cardinality(Among(q)), StreamedResidency(q))
<1> DEFINE n == Cardinality(Among(q))
<1>1. n \in Nat
  BY ResidencyIs
<1>2. PICK g : Decisions(g, q, n) /\ StreamedResidency(q) = g[1 .. n]
  BY ResidencyIs
<1> DEFINE T == {k \in Nat : k <= n => Keeps(q, k, g[1 .. k])}
<1>3. /\ g[1 .. 0] = Undecided(q)
      /\ \A k \in 0 .. n - 1 : g[1 .. k + 1] = Decide(q, k + 1, g[1 .. k])
  <2> HIDE DEF n
  <2>1. QED
    BY <1>1, <1>2, DecisionSteps
<1>4. 0 \in T
  <2>1. Keeps(q, 0, g[1 .. 0])
    BY <1>3, UndecidedKeeps
  <2>2. QED
    BY <2>1
<1>5. ASSUME NEW k \in Nat, k \in T PROVE k + 1 \in T
  <2>1. SUFFICES ASSUME k + 1 <= n PROVE Keeps(q, k + 1, g[1 .. k + 1])
    OBVIOUS
  <2>2. k \in 0 .. n - 1 /\ k <= n
    BY <1>1, <2>1
  <2>3. Keeps(q, k, g[1 .. k])
    BY <1>5, <2>2
  <2>4. QED
    BY <1>3, <2>2, <2>3, DecidingKeeps
<1>6. \A k \in Nat : k \in T
  <2> HIDE DEF T
  <2>1. QED
    BY <1>4, <1>5, EveryNat
<1>7. QED
  BY <1>1, <1>2, <1>6

LEMMA CeilingIsKept ==
  ASSUME NEW q, Asks(q), Plannable(q)
  PROVE  CeilingKept(q)
<1> DEFINE plan == StreamedResidency(q)
           n == Cardinality(Among(q))
           Q == Order(q)
           sel == plan.selected
           before(i) == {plan.decisions[j].tensor : j \in 1 .. i - 1} \cap sel
<1>1. Keeps(q, n, plan)
  BY ResidencyKeeps
<1>2. /\ n \in Nat
      /\ \A k \in 1 .. n : Q[k] \in Among(q)
      /\ \A t \in Among(q) : \E k \in 1 .. n : Q[k] = t
  BY OrderOfAll
<1> HIDE DEF plan, Q
<1>3. /\ sel \subseteq Tensors /\ plan.decisions \in Seq(Decision) /\ Len(plan.decisions) = n
      /\ \A j \in 1 .. n : plan.decisions[j].tensor = Q[j]
  BY <1>1 DEF Keeps, Recorded, Q
<1>4. DOMAIN plan.decisions = 1 .. n
  BY <1>3
<1>5. ASSUME NEW i \in 1 .. n PROVE before(i) = Considered(q, i - 1) \cap sel
  <2>1. \A j \in 1 .. i - 1 : plan.decisions[j].tensor = Q[j]
    BY <1>2, <1>3
  <2>2. {plan.decisions[j].tensor : j \in 1 .. i - 1} = {Q[j] : j \in 1 .. i - 1}
    BY <2>1
  <2>3. QED
    BY <2>2 DEF Considered, Q
<1>6. {plan.decisions[i].tensor : i \in DOMAIN plan.decisions} = Among(q)
  BY <1>2, <1>3, <1>4
<1>7. /\ plan.required = Need(q, sel) /\ plan.required <= q.maximum
      /\ plan.resident_bytes = BytesOf(Storage(q), sel)
      /\ plan.streamed_bytes = BytesOf(q.program.bytes, Among(q) \ sel)
  BY <1>1 DEF Keeps, Totals
<1>8. ASSUME NEW i \in DOMAIN plan.decisions, plan.decisions[i].tensor \in Among(q) \ sel
      PROVE  Need(q, before(i) \cup {plan.decisions[i].tensor}) > q.maximum
  <2>1. i \in 1 .. n /\ plan.decisions[i].tensor = Q[i] /\ Q[i] \notin sel
    BY <1>3, <1>4, <1>8
  <2>2. Need(q, (Considered(q, i - 1) \cap sel) \cup {Q[i]}) > q.maximum
    BY <1>1, <2>1 DEF Keeps, Declined, Q
  <2>3. QED
    BY <1>5, <2>1, <2>2
<1> HIDE DEF sel
<1>9. \A i \in DOMAIN plan.decisions :
        plan.decisions[i].tensor \in Among(q) \ sel =>
          PlanBytes(q, before(i) \cup {plan.decisions[i].tensor}) + q.fixed
            + BytesOf(Storage(q), before(i) \cup {plan.decisions[i].tensor}) > q.maximum
  BY <1>8 DEF Need
<1>10. QED
  BY <1>6, <1>7, <1>9 DEF CeilingKept, plan, sel, Storage, Among, Need

-----------------------------------------------------------------------------
(* Earliest and latest operation of a set of operations.                   *)
LEMMA LatestOf ==
  ASSUME NEW n \in Nat, NEW S, S \subseteq 0 .. n - 1, S # {}
  PROVE  \E m \in S : \A x \in S : x <= m
<1> DEFINE D == {n - x : x \in S}
<1>1. D \subseteq Nat /\ D # {}
  OBVIOUS
<1> HIDE DEF D
<1>2. PICK d \in D : \A y \in D : d <= y
  BY <1>1, LeastOf
<1>3. PICK m \in S : d = n - m
  BY <1>2 DEF D
<1>4. ASSUME NEW x \in S PROVE x <= m
  <2>1. n - x \in D
    BY DEF D
  <2>2. n - m <= n - x
    BY <1>2, <1>3, <2>1
  <2>3. x \in Int /\ m \in Int
    OBVIOUS
  <2>4. QED
    BY <2>2, <2>3
<1>5. QED
  BY <1>4

LEMMA Extremes ==
  ASSUME NEW n \in Nat, NEW S, S \subseteq 0 .. n - 1
  PROVE  /\ Earliest(S) \in -1 .. n - 1 /\ Latest(S) \in -1 .. n - 1
         /\ S = {} => Earliest(S) = -1 /\ Latest(S) = -1
         /\ S # {} => Earliest(S) \in S /\ Latest(S) \in S
         /\ \A x \in S : Earliest(S) <= x /\ x <= Latest(S)
<1>1. CASE S = {}
  BY <1>1 DEF Earliest, Latest
<1>2. CASE S # {}
  <2>1. S \subseteq Nat /\ S \subseteq Int
    OBVIOUS
  <2>2. PICK a \in S : \A x \in S : a <= x
    BY <1>2, <2>1, LeastOf
  <2>3. PICK b \in S : \A x \in S : x <= b
    BY <1>2, LatestOf
  <2>4. Earliest(S) = a
    BY <1>2, <2>1, <2>2, MinIs DEF Earliest
  <2>5. Latest(S) = b
    BY <1>2, <2>1, <2>3, MaxIs DEF Latest
  <2>6. QED
    BY <1>2, <2>2, <2>3, <2>4, <2>5
<1>3. QED
  BY <1>1, <1>2

LEMMA LargerOfTwo ==
  ASSUME NEW a \in Int, NEW b \in Int
  PROVE  /\ Max({a, b}) \in Int /\ Max({a, b}) >= a /\ Max({a, b}) >= b
         /\ Max({a, b}) = a \/ Max({a, b}) = b
<1>1. CASE a <= b
  <2>1. {a, b} \subseteq Int /\ b \in {a, b} /\ \A x \in {a, b} : x <= b
    BY <1>1
  <2>2. Max({a, b}) = b
    BY <2>1, MaxIs
  <2>3. QED
    BY <1>1, <2>2
<1>2. CASE ~(a <= b)
  <2>1. {a, b} \subseteq Int /\ a \in {a, b} /\ \A x \in {a, b} : x <= a
    BY <1>2
  <2>2. Max({a, b}) = a
    BY <2>1, MaxIs
  <2>3. QED
    BY <1>2, <2>2
<1>3. QED
  BY <1>1, <1>2

LEMMA LargerThanZero ==
  ASSUME NEW b \in Int
  PROVE  /\ Max({0, b}) \in Int /\ Max({0, b}) >= 0 /\ Max({0, b}) >= b
         /\ Max({0, b}) = 0 \/ Max({0, b}) = b
<1>1. CASE b <= 0
  <2>1. {0, b} \subseteq Int /\ 0 \in {0, b} /\ \A x \in {0, b} : x <= 0
    BY <1>1
  <2>2. Max({0, b}) = 0
    BY <2>1, MaxIs
  <2>3. QED
    BY <1>1, <2>2
<1>2. CASE ~(b <= 0)
  <2>1. {0, b} \subseteq Int /\ b \in {0, b} /\ \A x \in {0, b} : x <= b
    BY <1>2
  <2>2. Max({0, b}) = b
    BY <2>1, MaxIs
  <2>3. QED
    BY <1>2, <2>2
<1>3. QED
  BY <1>1, <1>2

(* A question about a verified program without views, and what the         *)
(* lifetime of a tensor in its plan covers.                                *)
Direct(r) == WellAsked(r) /\ Verified(r.program) /\ DOMAIN r.aliases = {}

LEMMA ProducerComesFirst ==
  ASSUME NEW p, IsProgram(p), Verified(p), NEW t \in Tensors, NEW i \in Producers(p, t)
  PROVE  /\ ~Bound(p, t) /\ ~HasRole(p, t, "Streamed")
         /\ Producers(p, t) = {i}
         /\ \A j \in Consumers(p, t) : i < j
<1>1. i \in Operations(p) /\ t \in p.outputs[i]
  BY DEF Producers
<1>2. ~Bound(p, t)
  BY <1>1 DEF Verified
<1>3. ~HasRole(p, t, "Streamed")
  BY <1>2 DEF Verified, Bound
<1>4. ASSUME NEW j \in Producers(p, t) PROVE j = i
  BY <1>1 DEF Producers, Verified
<1>5. ASSUME NEW j \in Consumers(p, t) PROVE i < j
  <2>1. j \in Operations(p) /\ t \in p.inputs[j]
    BY DEF Consumers
  <2>2. PICK k \in Operations(p) : k < j /\ t \in p.outputs[k]
    BY <1>2, <2>1 DEF Verified
  <2>3. k = i
    BY <1>4, <2>2 DEF Producers
  <2>4. QED
    BY <2>2, <2>3
<1>6. QED
  BY <1>2, <1>3, <1>4, <1>5

Covered(r, t) ==
  LET p == r.program
      l == Lifetime(r, t)
  IN  /\ l.first \in Nat /\ l.last \in Nat /\ l.first <= l.last /\ l.last < MaxU64
      /\ \A i \in Consumers(p, t) \cup Producers(p, t) : i <= l.last
      /\ HasRole(p, t, "Streamed") =>
           l.first = 0 \/ \A i \in Consumers(p, t) : l.first + r.distance <= i
      /\ ~Bound(p, t) => \A i \in Consumers(p, t) \cup Producers(p, t) : l.first <= i

LEMMA LifetimeIs ==
  ASSUME NEW r, Direct(r), NEW t \in Tensors
  PROVE  Covered(r, t)
<1> DEFINE p == r.program
           l == Lifetime(r, t)
           reads == Consumers(p, t)
           writes == Producers(p, t)
           own == IF HasRole(p, t, "Output") THEN p.count ELSE Max({l.first, Latest(reads)})
<1>1. IsProgram(p) /\ Verified(p) /\ p.count \in Nat /\ p.count < MaxU64 /\ r.distance \in Nat
  BY DEF Direct, WellAsked, IsProgram
<1>2. reads \subseteq 0 .. p.count - 1 /\ writes \subseteq 0 .. p.count - 1
  BY DEF Consumers, Producers, Operations
<1>3. l.last = Max({own})
  <2>1. {o \in DOMAIN r.aliases : Root(r.aliases, o) = t} = {}
    BY DEF Direct
  <2>2. {Latest(Consumers(p, o)) : o \in {}} = {} /\ {own} \cup {} = {own}
    OBVIOUS
  <2>3. QED
    BY <2>1, <2>2 DEF Lifetime
<1>4. l.first = IF HasRole(p, t, "Streamed") THEN Max({0, Earliest(reads) - r.distance})
                ELSE Max({0, Earliest(writes)})
  BY DEF Lifetime
<1>5. ASSUME NEW i \in writes
      PROVE  ~HasRole(p, t, "Streamed") /\ ~Bound(p, t) /\ writes = {i} /\ \A j \in reads : i < j
  BY <1>1, ProducerComesFirst
<1>6. ~Bound(p, t) /\ reads # {} => writes # {}
  BY <1>1 DEF Verified, Consumers, Producers
<1> HIDE DEF l, own, reads, writes, p
<1>7. /\ Earliest(reads) \in -1 .. p.count - 1 /\ Latest(reads) \in -1 .. p.count - 1
      /\ \A i \in reads : Earliest(reads) <= i /\ i <= Latest(reads)
      /\ Earliest(writes) \in -1 .. p.count - 1
      /\ \A i \in writes : Earliest(writes) = i
  <2>1. \A i \in writes : Earliest(writes) \in writes
    BY <1>1, <1>2, Extremes
  <2>2. \A i \in writes : Earliest(writes) = i
    BY <1>5, <2>1
  <2>3. QED
    BY <1>1, <1>2, <2>2, Extremes
<1>8. /\ l.first \in Nat /\ l.first <= p.count
      /\ HasRole(p, t, "Streamed") => l.first = 0 \/ l.first = Earliest(reads) - r.distance
      /\ ~HasRole(p, t, "Streamed") => \A i \in writes : l.first = i
  <2>1. CASE HasRole(p, t, "Streamed")
    <3> DEFINE d == Earliest(reads) - r.distance
    <3>1. d \in Int /\ d <= p.count /\ l.first = Max({0, d})
      BY <1>1, <1>4, <1>7, <2>1
    <3> HIDE DEF d
    <3>2. /\ Max({0, d}) \in Int /\ Max({0, d}) >= 0
          /\ Max({0, d}) = 0 \/ Max({0, d}) = d
      BY <3>1, LargerThanZero
    <3>3. QED
      BY <1>1, <2>1, <3>1, <3>2 DEF d
  <2>2. CASE ~HasRole(p, t, "Streamed")
    <3>1. l.first = Max({0, Earliest(writes)}) /\ Earliest(writes) \in Int
      BY <1>4, <1>7, <2>2
    <3> DEFINE e == Earliest(writes)
    <3>2. /\ l.first \in Int /\ l.first >= 0 /\ l.first >= e
          /\ l.first = 0 \/ l.first = e
      <4> HIDE DEF e
      <4>1. e \in Int /\ l.first = Max({0, e})
        BY <3>1 DEF e
      <4>2. /\ Max({0, e}) \in Int /\ Max({0, e}) >= 0 /\ Max({0, e}) >= e
            /\ Max({0, e}) = 0 \/ Max({0, e}) = e
        BY <4>1, LargerThanZero
      <4>3. QED
        BY <4>1, <4>2
    <3>3. ASSUME NEW i \in writes PROVE l.first = i
      BY <1>2, <1>7, <3>2
    <3>4. QED
      BY <1>1, <1>7, <2>2, <3>2, <3>3
  <2>3. QED
    BY <2>1, <2>2
<1>9. own \in Int /\ own >= l.first /\ own <= p.count /\ \A i \in reads : i <= own
  <2>1. CASE HasRole(p, t, "Output")
    BY <1>1, <1>2, <1>8, <2>1 DEF own
  <2>2. CASE ~HasRole(p, t, "Output")
    <3>1. own = Max({l.first, Latest(reads)}) /\ l.first \in Int /\ Latest(reads) \in Int
      BY <1>7, <1>8, <2>2 DEF own
    <3>2. /\ own \in Int /\ own >= l.first /\ own >= Latest(reads)
          /\ own = l.first \/ own = Latest(reads)
      BY <3>1, LargerOfTwo
    <3>3. \A i \in reads : i \in Int /\ i <= Latest(reads)
      BY <1>2, <1>7
    <3>4. QED
      BY <1>1, <1>7, <1>8, <3>1, <3>2, <3>3
  <2>3. QED
    BY <2>1, <2>2
<1>10. l.last = own
  <2>1. {own} \subseteq Int /\ own \in {own} /\ \A x \in {own} : x <= own
    BY <1>9
  <2>2. QED
    BY <1>3, <2>1, MaxIs
<1>11. \A i \in reads \cup writes : i <= l.last
  <2>1. ASSUME NEW i \in writes PROVE i <= l.last
    BY <1>1, <1>2, <1>5, <1>8, <1>9, <1>10
  <2>2. QED
    BY <1>9, <1>10, <2>1
<1>12. HasRole(p, t, "Streamed") => l.first = 0 \/ \A i \in reads : l.first + r.distance <= i
  BY <1>1, <1>2, <1>7, <1>8
<1>13. ~Bound(p, t) => \A i \in reads \cup writes : l.first <= i
  <2>1. SUFFICES ASSUME ~Bound(p, t), NEW i \in reads \cup writes PROVE l.first <= i
    OBVIOUS
  <2>2. PICK w \in writes : TRUE
    BY <1>6, <2>1
  <2>3. l.first = w /\ writes = {w} /\ \A j \in reads : w < j
    BY <1>5, <1>8
  <2>4. QED
    BY <1>2, <2>1, <2>3
<1>14. l.last \in Nat /\ l.last < MaxU64 /\ l.first <= l.last
  BY <1>1, <1>8, <1>9, <1>10, MaxU64Assumption
<1>15. QED
  BY <1>8, <1>11, <1>12, <1>13, <1>14 DEF Covered, l, reads, writes, p

Taken(r, k) == {Queue(r)[j] : j \in 1 .. k}

OneAfterOther(r, t, u) ==
  LET a == Lifetime(r, t)
      b == Lifetime(r, u)
  IN  /\ ~a.dedicated /\ ~b.dedicated
      /\ a.last < b.first \/ b.last < a.first

(* After k placements: who has a slot, what a slot's last use is, and that *)
(* tenants of one slot have it one after the other.                        *)
Tenants(r, k, plan) ==
  /\ plan.slot \in [Tensors -> Nat]
  /\ plan.slots \in Seq(Nat) /\ plan.until \in Seq(Nat) /\ Len(plan.until) = Len(plan.slots)
  /\ \A t \in Tensors : /\ plan.slot[t] <= Len(plan.slots)
                        /\ plan.slot[t] # 0 <=> t \in Taken(r, k)
  /\ \A t \in Taken(r, k) :
       /\ Lifetime(r, t).last <= plan.until[plan.slot[t]]
       /\ Lifetime(r, t).dedicated => plan.until[plan.slot[t]] = MaxU64
  /\ \A t, u \in Taken(r, k) :
       t # u /\ plan.slot[t] = plan.slot[u] => OneAfterOther(r, t, u)

LEMMA FitIsFree ==
  ASSUME NEW f \in Seq(Nat), NEW S, S \subseteq DOMAIN f, S # {}
  PROVE  LET best == CHOOSE s \in S : \A c \in S : f[s] < f[c] \/ (f[s] = f[c] /\ s <= c)
         IN  best \in S
<1> DEFINE Best(s) == \A c \in S : f[s] < f[c] \/ (f[s] = f[c] /\ s <= c)
           F == {f[s] : s \in S}
<1>1. S \subseteq Nat /\ F \subseteq Nat /\ F # {}
  OBVIOUS
<1> HIDE DEF F
<1>2. PICK m \in F : \A x \in F : m <= x
  BY <1>1, LeastOf
<1> DEFINE G == {s \in S : f[s] = m}
<1>3. G \subseteq Nat /\ G # {}
  BY <1>1, <1>2 DEF F
<1> HIDE DEF G
<1>4. PICK s \in G : \A c \in G : s <= c
  BY <1>3, LeastOf
<1>5. s \in S /\ f[s] = m
  BY <1>4 DEF G
<1>6. ASSUME NEW c \in S PROVE f[s] < f[c] \/ (f[s] = f[c] /\ s <= c)
  <2>1. m <= f[c] /\ f[c] \in Nat /\ m \in Nat
    BY <1>1, <1>2 DEF F
  <2>2. CASE f[c] = m
    BY <1>4, <1>5, <2>2 DEF G
  <2>3. CASE f[c] # m
    BY <1>5, <2>1, <2>3
  <2>4. QED
    BY <2>2, <2>3
<1>7. s \in S /\ Best(s)
  BY <1>5, <1>6
<1> HIDE DEF Best
<1>8. (CHOOSE x \in S : Best(x)) \in S
  BY <1>7
<1>9. QED
  BY <1>8 DEF Best

LEMMA PlacingKeepsTenants ==
  ASSUME NEW r, Direct(r), NEW k \in Nat, k + 1 <= Cardinality(Planned(r)),
         NEW plan, Tenants(r, k, plan)
  PROVE  Tenants(r, k + 1, Step(r, k + 1, plan))
<1> DEFINE t == Queue(r)[k + 1]
           l == Lifetime(r, t)
           b == Rounded(r, t)
           new == Step(r, k + 1, plan)
           free == {s \in DOMAIN plan.slots : /\ ~l.dedicated
                                              /\ plan.until[s] < l.first
                                              /\ plan.slots[s] >= b
                                              /\ plan.slots[s] < MaxU64}
           Best(s) == \A c \in free :
                 plan.slots[s] < plan.slots[c] \/ (plan.slots[s] = plan.slots[c] /\ s <= c)
           best == CHOOSE s \in free : Best(s)
           until == IF l.dedicated THEN MaxU64 ELSE l.last
           n == Cardinality(Planned(r))
<1>1. n \in Nat /\ k + 1 \in 1 .. n
  BY PlanIs
<1>2. t \in Planned(r) /\ t \in Tensors /\ Lives(r)[t] = l
  <2>1. \A j \in 1 .. n : Queue(r)[j] \in Planned(r)
    BY QueueIsPlanned DEF Direct
  <2>2. t \in Planned(r)
    BY <1>1, <2>1
  <2>3. QED
    BY <2>2 DEF Planned, Lives
<1>3. t \notin Taken(r, k) /\ Taken(r, k + 1) = Taken(r, k) \cup {t} /\ Taken(r, k) \subseteq Tensors
  <2>1. \A i, j \in 1 .. n : Queue(r)[i] = Queue(r)[j] => i = j
    BY QueueIsPlanned DEF Direct
  <2>2. \A j \in 1 .. n : Queue(r)[j] \in Tensors
    BY QueueIsPlanned DEF Direct, Planned
  <2>3. 1 .. k \subseteq 1 .. n /\ 1 .. k + 1 = (1 .. k) \cup {k + 1} /\ k + 1 \notin 1 .. k
    BY <1>1
  <2> HIDE DEF n
  <2>4. t \notin Taken(r, k)
    BY <1>1, <2>1, <2>3 DEF Taken
  <2>5. Taken(r, k + 1) = Taken(r, k) \cup {t}
    BY <2>3 DEF Taken
  <2>6. QED
    BY <2>2, <2>3, <2>4, <2>5 DEF Taken
<1>4. new = IF free = {}
      THEN [slots |-> Append(plan.slots, b), until |-> Append(plan.until, until),
            slot  |-> [plan.slot EXCEPT ![t] = Len(plan.slots) + 1]]
      ELSE [slots |-> plan.slots, until |-> [plan.until EXCEPT ![best] = until],
            slot  |-> [plan.slot EXCEPT ![t] = best]]
  BY <1>2 DEF Step, PlaceNext
<1>5. /\ l.first \in Nat /\ l.last \in Nat /\ l.first <= l.last /\ l.last < MaxU64
      /\ MaxU64 \in Nat /\ until \in Nat /\ l.last <= until /\ l.dedicated \in BOOLEAN
  <2>1. Covered(r, t) /\ l.dedicated \in BOOLEAN
    <3>1. l.dedicated \in BOOLEAN
      BY DEF Lifetime
    <3>2. QED
      BY <1>2, <3>1, LifetimeIs
  <2>2. QED
    BY <2>1, MaxU64Assumption DEF Covered
<1>6. b \in Nat
  BY <1>2, RoundUp, MaxU64Assumption DEF Rounded, Direct, WellAsked, IsProgram
<1>7. \A u \in Taken(r, k) : /\ plan.slot[u] \in 1 .. Len(plan.slots)
                             /\ Lifetime(r, u).last \in Nat /\ Lifetime(r, u).first \in Nat
  BY <1>3, LifetimeIs DEF Tenants, Covered
<1>8. CASE free = {}
  <2> DEFINE m == Len(plan.slots) + 1
  <2>1. new = [slots |-> Append(plan.slots, b), until |-> Append(plan.until, until),
               slot  |-> [plan.slot EXCEPT ![t] = m]]
    BY <1>4, <1>8
  <2> HIDE DEF new, free, until, l, b, t
  <2>2. /\ plan.slot \in [Tensors -> Nat] /\ plan.slots \in Seq(Nat) /\ plan.until \in Seq(Nat)
        /\ Len(plan.until) = Len(plan.slots)
    BY DEF Tenants
  <2>3. /\ new.slots \in Seq(Nat) /\ new.until \in Seq(Nat)
        /\ Len(new.slots) = m /\ Len(new.until) = m /\ m \in Nat
        /\ new.until[m] = until
        /\ \A s \in 1 .. Len(plan.slots) : new.until[s] = plan.until[s]
    BY <1>5, <1>6, <2>1, <2>2
  <2>4. new.slot \in [Tensors -> Nat] /\ new.slot[t] = m
        /\ \A u \in Tensors \ {t} : new.slot[u] = plan.slot[u]
    BY <1>2, <2>1, <2>2, <2>3
  <2>5. \A u \in Tensors : /\ new.slot[u] <= Len(new.slots)
                           /\ new.slot[u] # 0 <=> u \in Taken(r, k + 1)
    BY <1>3, <2>2, <2>3, <2>4 DEF Tenants
  <2>6. \A u \in Taken(r, k + 1) :
          /\ Lifetime(r, u).last <= new.until[new.slot[u]]
          /\ Lifetime(r, u).dedicated => new.until[new.slot[u]] = MaxU64
    <3>1. ASSUME NEW u \in Taken(r, k)
          PROVE /\ Lifetime(r, u).last <= new.until[new.slot[u]]
                /\ Lifetime(r, u).dedicated => new.until[new.slot[u]] = MaxU64
      <4>1. new.slot[u] = plan.slot[u] /\ plan.slot[u] \in 1 .. Len(plan.slots)
        BY <1>3, <1>7, <2>4
      <4>2. new.until[new.slot[u]] = plan.until[plan.slot[u]]
        <5> HIDE DEF m
        <5>1. \A s \in 1 .. Len(plan.slots) : new.until[s] = plan.until[s]
          BY <2>3
        <5>2. QED
          BY <4>1, <5>1
      <4>3. QED
        BY <4>2 DEF Tenants
    <3>2. /\ Lifetime(r, t).last <= new.until[new.slot[t]]
          /\ Lifetime(r, t).dedicated => new.until[new.slot[t]] = MaxU64
      BY <1>5, <2>3, <2>4 DEF l, until
    <3>3. QED
      BY <1>3, <3>1, <3>2
  <2>7. \A u, v \in Taken(r, k + 1) :
          u # v /\ new.slot[u] = new.slot[v] => OneAfterOther(r, u, v)
    <3>1. \A u \in Taken(r, k) : new.slot[u] # m /\ new.slot[u] = plan.slot[u]
      <4>1. SUFFICES ASSUME NEW u \in Taken(r, k)
                     PROVE  new.slot[u] # m /\ new.slot[u] = plan.slot[u]
        OBVIOUS
      <4>2. new.slot[u] = plan.slot[u] /\ plan.slot[u] \in 1 .. Len(plan.slots)
        BY <1>3, <1>7, <2>4
      <4>3. Len(plan.slots) \in Nat
        BY <2>2
      <4>4. QED
        BY <4>2, <4>3
    <3>2. QED
      BY <1>3, <2>4, <3>1 DEF Tenants
  <2>8. QED
    BY <2>3, <2>4, <2>5, <2>6, <2>7 DEF Tenants, new
<1>9. CASE free # {}
  <2>1. new = [slots |-> plan.slots, until |-> [plan.until EXCEPT ![best] = until],
               slot  |-> [plan.slot EXCEPT ![t] = best]]
    BY <1>4, <1>9
  <2>2. /\ plan.slot \in [Tensors -> Nat] /\ plan.slots \in Seq(Nat) /\ plan.until \in Seq(Nat)
        /\ Len(plan.until) = Len(plan.slots) /\ DOMAIN plan.slots = 1 .. Len(plan.slots)
    BY DEF Tenants
  <2>3. best \in free
    <3>1. free \subseteq DOMAIN plan.slots /\ plan.slots \in Seq(Nat)
      BY <2>2
    <3> HIDE DEF free
    <3>2. QED
      BY <1>9, <3>1, FitIsFree
  <2>4. best \in 1 .. Len(plan.slots) /\ ~l.dedicated /\ plan.until[best] < l.first
    BY <2>2, <2>3
  <2>5. until = l.last
    BY <2>4
  <2> HIDE DEF new, free, until, l, b, t, best
  <2>6. /\ new.slots = plan.slots /\ new.until \in Seq(Nat) /\ Len(new.until) = Len(plan.until)
        /\ new.until[best] = until
        /\ \A s \in 1 .. Len(plan.slots) : s # best => new.until[s] = plan.until[s]
    BY <1>5, <2>1, <2>2, <2>4
  <2>7. new.slot \in [Tensors -> Nat] /\ new.slot[t] = best
        /\ \A u \in Tensors \ {t} : new.slot[u] = plan.slot[u]
    BY <1>2, <2>1, <2>2, <2>4
  <2>8. \A u \in Tensors : /\ new.slot[u] <= Len(new.slots)
                           /\ new.slot[u] # 0 <=> u \in Taken(r, k + 1)
    BY <1>3, <2>2, <2>4, <2>6, <2>7 DEF Tenants
  <2>9. \A u \in Taken(r, k) : plan.slot[u] = best =>
          /\ ~Lifetime(r, u).dedicated /\ Lifetime(r, u).last < l.first
    <3>1. SUFFICES ASSUME NEW u \in Taken(r, k), plan.slot[u] = best
                   PROVE  ~Lifetime(r, u).dedicated /\ Lifetime(r, u).last < l.first
      OBVIOUS
    <3>2. /\ Lifetime(r, u).last <= plan.until[best]
          /\ Lifetime(r, u).dedicated => plan.until[best] = MaxU64
      BY <3>1 DEF Tenants
    <3>3. plan.until[best] \in Nat
      BY <2>2, <2>4
    <3>4. QED
      BY <1>5, <1>7, <2>4, <3>2, <3>3
  <2>10. \A u \in Taken(r, k + 1) :
          /\ Lifetime(r, u).last <= new.until[new.slot[u]]
          /\ Lifetime(r, u).dedicated => new.until[new.slot[u]] = MaxU64
    <3>1. ASSUME NEW u \in Taken(r, k), plan.slot[u] # best
          PROVE /\ Lifetime(r, u).last <= new.until[new.slot[u]]
                /\ Lifetime(r, u).dedicated => new.until[new.slot[u]] = MaxU64
      <4>1. new.slot[u] = plan.slot[u] /\ plan.slot[u] \in 1 .. Len(plan.slots)
        BY <1>3, <1>7, <2>7
      <4>2. new.until[new.slot[u]] = plan.until[plan.slot[u]]
        BY <2>6, <3>1, <4>1
      <4>3. QED
        BY <4>2 DEF Tenants
    <3>2. ASSUME NEW u \in Taken(r, k), plan.slot[u] = best
          PROVE /\ Lifetime(r, u).last <= new.until[new.slot[u]]
                /\ Lifetime(r, u).dedicated => new.until[new.slot[u]] = MaxU64
      <4>1. new.slot[u] = best
        BY <1>3, <2>7, <3>2
      <4>2. ~Lifetime(r, u).dedicated /\ Lifetime(r, u).last < l.first
        BY <2>9, <3>2
      <4>3. QED
        BY <1>5, <1>7, <2>5, <2>6, <4>1, <4>2
    <3>3. /\ Lifetime(r, t).last <= new.until[new.slot[t]]
          /\ ~Lifetime(r, t).dedicated
      BY <1>5, <2>4, <2>5, <2>6, <2>7 DEF l
    <3>4. QED
      BY <1>3, <3>1, <3>2, <3>3
  <2>11. \A u \in Taken(r, k) : new.slot[u] = best => OneAfterOther(r, u, t) /\ OneAfterOther(r, t, u)
    <3>1. SUFFICES ASSUME NEW u \in Taken(r, k), new.slot[u] = best
                   PROVE  OneAfterOther(r, u, t) /\ OneAfterOther(r, t, u)
      OBVIOUS
    <3>2. plan.slot[u] = best
      BY <1>3, <2>7, <3>1
    <3>3. ~Lifetime(r, u).dedicated /\ Lifetime(r, u).last < l.first /\ ~l.dedicated
      BY <2>4, <2>9, <3>2
    <3>4. QED
      BY <3>3 DEF OneAfterOther, l
  <2>12. \A u, v \in Taken(r, k + 1) :
          u # v /\ new.slot[u] = new.slot[v] => OneAfterOther(r, u, v)
    <3>1. \A u, v \in Taken(r, k) : u # v /\ new.slot[u] = new.slot[v] => OneAfterOther(r, u, v)
      <4>1. \A u \in Taken(r, k) : new.slot[u] = plan.slot[u]
        BY <1>3, <2>7
      <4>2. QED
        BY <4>1 DEF Tenants
    <3>2. QED
      BY <1>3, <2>7, <2>11, <3>1
  <2>13. QED
    BY <2>2, <2>6, <2>7, <2>8, <2>10, <2>12 DEF Tenants, new
<1>10. QED
  BY <1>8, <1>9

(* Tensors of a plan: exactly those to plan have a slot, and those of one  *)
(* slot have it one after the other.                                       *)
LEMMA SlotsTakenInTurn ==
  ASSUME NEW r, Direct(r)
  PROVE  /\ Plan(r).slot \in [Tensors -> Nat]
         /\ \A t \in Tensors : Plan(r).slot[t] # 0 <=> t \in Planned(r)
         /\ \A t, u \in Planned(r) :
              t # u /\ Plan(r).slot[t] = Plan(r).slot[u] => OneAfterOther(r, t, u)
<1> DEFINE n == Cardinality(Planned(r))
<1>1. n \in Nat
  BY PlanIs
<1>2. PICK g : Table(g, r, n) /\ Plan(r) = g[1 .. n]
  BY PlanIs
<1> DEFINE T == {k \in Nat : k <= n => Tenants(r, k, g[1 .. k])}
<1>3. g[1 .. 0] = Nothing /\ Steps(g, r, n)
  BY <1>1, <1>2, TableSteps
<1>4. 0 \in T
  <2>1. 1 .. 0 = {} /\ Taken(r, 0) = {}
    BY DEF Taken
  <2>2. Tenants(r, 0, Nothing)
    BY <2>1 DEF Tenants, Nothing
  <2>3. QED
    BY <1>3, <2>2
<1>5. ASSUME NEW k \in Nat, k \in T PROVE k + 1 \in T
  <2>1. SUFFICES ASSUME k + 1 <= n PROVE Tenants(r, k + 1, g[1 .. k + 1])
    OBVIOUS
  <2> HIDE DEF n
  <2>2. k \in 0 .. n - 1 /\ Tenants(r, k, g[1 .. k])
    BY <1>1, <1>5, <2>1
  <2>3. g[1 .. k + 1] = Step(r, k + 1, g[1 .. k])
    BY <1>3, <2>2 DEF Steps
  <2>4. QED
    BY <2>1, <2>2, <2>3, PlacingKeepsTenants DEF n
<1>6. \A k \in Nat : k \in T
  <2> HIDE DEF T
  <2>1. QED
    BY <1>4, <1>5, EveryNat
<1>7. Tenants(r, n, Plan(r))
  BY <1>1, <1>2, <1>6
<1>8. Taken(r, n) = Planned(r)
  BY QueueIsPlanned DEF Taken, Direct
<1>9. QED
  BY <1>7, <1>8 DEF Tenants

-----------------------------------------------------------------------------
(* What preparation makes of a program as it is written.                   *)
Uses(o, t) == Consumers(o.program, t) \cup Producers(o.program, t)

LEMMA RequestIs ==
  ASSUME NEW o, AsWritten(o)
  PROVE  /\ Direct(Request(o)) /\ Request(o).program = o.program
         /\ Request(o).distance = IF o.overlap THEN o.depth ELSE 0
         /\ Planned(Request(o)) = Tensors \ o.resident
         /\ Request(o).persistent = {}
         /\ Aliases(o) = [t \in {} |-> t]
<1> DEFINE r == Request(o)
<1>1. o.views = {} /\ o.fuse = {} /\ o.absorb = {} /\ o.region = {}
  BY DEF AsWritten
<1>2. {Result(o.program, i) : i \in o.views} = {}
  BY <1>1
<1>3. Aliases(o) = [t \in {} |-> t] /\ DOMAIN Aliases(o) = {}
  BY <1>2 DEF Aliases
<1>4. r.excluded = {} /\ r.persistent = {} /\ DOMAIN r.aliases = {} /\ r.replaced = o.resident
  BY <1>1, <1>3 DEF Request
<1>5. r.program = o.program /\ r.alignment = 1 /\ r.distance = IF o.overlap THEN o.depth ELSE 0
  BY DEF Request
<1>6. Planned(r) = Tensors \ o.resident
  BY <1>4 DEF Planned
<1>7. WellAsked(r) /\ Verified(r.program)
  BY <1>5 DEF AsWritten, Accepted, WellAsked
<1>8. QED
  BY <1>3, <1>4, <1>5, <1>6, <1>7 DEF Direct

LEMMA RootIsItself ==
  ASSUME NEW o, AsWritten(o), NEW t \in Tensors
  PROVE  Root(Aliases(o), t) = t
<1> DEFINE al == [u \in {} |-> u]
<1>1. Aliases(o) = al
  BY RequestIs
<1>2. IsAliases(al) /\ Ends(al, al)
  BY DEF IsAliases, Ends
<1>3. t \notin DOMAIN al
  OBVIOUS
<1> HIDE DEF al
<1>4. QED
  BY <1>1, <1>2, <1>3, RootIs

(* The fields of the prepared execution.                                   *)
LEMMA PreparedFields ==
  ASSUME NEW o, AsWritten(o)
  PROVE  LET x == Prepared(o)
             p == o.program
         IN  /\ x.program = p /\ x.depth = o.depth /\ x.overlap = o.overlap /\ o.depth > 0
             /\ x.resident = o.resident /\ x.lazy = IF o.lazy THEN o.resident ELSE {}
             /\ x.region = {} /\ x.crossing = {} /\ DOMAIN x.width = {} /\ x.followups = {}
             /\ x.skipped = {}
             /\ x.launch = [i \in Operations(p) |->
                  [reads |-> p.inputs[i], writes |-> p.outputs[i], performs |-> {i}]]
             /\ x.root = [t \in Tensors |-> t]
             /\ x.place = [t \in Tensors |->
                  IF t \in o.resident THEN <<"own", t>> ELSE <<"slot", Plan(Request(o)).slot[t]>>]
             /\ x.first = [t \in Tensors |-> FirstUse(o, t)]
             /\ x.release = [t \in Tensors |-> OverwriteWait(o, Plan(Request(o)), t)]
<1> DEFINE p == o.program
<1>1. o.views = {} /\ o.fuse = {} /\ o.absorb = {} /\ o.region = {} /\ o.groups = {}
  BY DEF AsWritten
<1>2. Skipped(o) = {}
  BY <1>1 DEF Skipped
<1>3. ASSUME NEW i \in Operations(p)
      PROVE  Launch(o, i) = [reads |-> p.inputs[i], writes |-> p.outputs[i], performs |-> {i}]
  <2>1. {v \in o.views : Root(Aliases(o), Result(p, v)) \in p.outputs[i]} = {}
    BY <1>1
  <2>2. {i} \cup {} = {i}
    OBVIOUS
  <2>3. i \notin o.absorb /\ i \notin o.fuse
    BY <1>1
  <2>4. QED
    BY <2>1, <2>2, <2>3 DEF Launch
<1>4. ASSUME NEW t \in Tensors
      PROVE  Place(o, Plan(Request(o)), t) =
               IF t \in o.resident THEN <<"own", t>> ELSE <<"slot", Plan(Request(o)).slot[t]>>
  BY RootIsItself DEF Place
<1>5. o.depth > 0
  BY DEF AsWritten, Accepted
<1>6. {Min(G) : G \in o.groups} = {} /\ UNION {G \ {Min(G)} : G \in o.groups} = {}
  BY <1>1
<1>7. /\ DOMAIN Prepared(o).width = {} /\ Prepared(o).followups = {} /\ Prepared(o).skipped = {}
      /\ Prepared(o).region = {} /\ Prepared(o).crossing = {}
  BY <1>1, <1>2, <1>6 DEF Prepared
<1>8. /\ Prepared(o).launch = [i \in Operations(p) |->
           [reads |-> p.inputs[i], writes |-> p.outputs[i], performs |-> {i}]]
      /\ Prepared(o).place = [t \in Tensors |->
           IF t \in o.resident THEN <<"own", t>> ELSE <<"slot", Plan(Request(o)).slot[t]>>]
      /\ Prepared(o).root = [t \in Tensors |-> t]
  BY <1>3, <1>4, RootIsItself DEF Prepared
<1>9. /\ Prepared(o).program = p /\ Prepared(o).depth = o.depth /\ Prepared(o).overlap = o.overlap
      /\ Prepared(o).resident = o.resident
      /\ Prepared(o).lazy = IF o.lazy THEN o.resident ELSE {}
      /\ Prepared(o).first = [t \in Tensors |-> FirstUse(o, t)]
      /\ Prepared(o).release = [t \in Tensors |-> OverwriteWait(o, Plan(Request(o)), t)]
  BY DEF Prepared
<1>10. QED
  BY <1>5, <1>7, <1>8, <1>9

(* What brings a streamed constant, and when.                              *)
LEMMA FirstUseIs ==
  ASSUME NEW o, AsWritten(o), NEW t \in Tensors
  PROVE  /\ FirstUse(o, t) \in Operations(o.program) \cup {-1}
         /\ FirstUse(o, t) # -1 =>
              /\ HasRole(o.program, t, "Streamed")
              /\ t \in o.resident => o.lazy
              /\ FirstUse(o, t) \in Consumers(o.program, t)
         /\ HasRole(o.program, t, "Streamed") /\ (t \in o.resident => o.lazy) =>
              \A i \in Consumers(o.program, t) : FirstUse(o, t) # -1 /\ FirstUse(o, t) <= i
<1> DEFINE p == o.program
           reads == Consumers(p, t)
           brought == HasRole(p, t, "Streamed") /\ (t \in o.resident => o.lazy)
<1>1. p.count \in Nat /\ reads \subseteq 0 .. p.count - 1 /\ Operations(p) = 0 .. p.count - 1
  BY DEF AsWritten, IsProgram, Consumers, Operations
<1>2. FirstUse(o, t) = IF brought THEN Earliest(reads) ELSE -1
  BY DEF FirstUse, None
<1>3. /\ Earliest(reads) \in -1 .. p.count - 1
      /\ reads = {} => Earliest(reads) = -1
      /\ reads # {} => Earliest(reads) \in reads
      /\ \A i \in reads : Earliest(reads) <= i
  <2> HIDE DEF reads
  <2>1. QED
    BY <1>1, Extremes
<1> HIDE DEF reads, brought
<1>4. FirstUse(o, t) \in Operations(p) \cup {-1}
  BY <1>1, <1>2, <1>3
<1>5. FirstUse(o, t) # -1 => brought /\ FirstUse(o, t) \in reads
  BY <1>2, <1>3
<1>6. brought => \A i \in reads : FirstUse(o, t) # -1 /\ FirstUse(o, t) <= i
  <2>1. SUFFICES ASSUME brought, NEW i \in reads PROVE FirstUse(o, t) # -1 /\ FirstUse(o, t) <= i
    OBVIOUS
  <2>2. FirstUse(o, t) = Earliest(reads) /\ Earliest(reads) \in reads
    BY <1>2, <1>3, <2>1
  <2>3. Earliest(reads) \in 0 .. p.count - 1
    BY <1>1, <2>2
  <2>4. QED
    BY <1>3, <2>2, <2>3
<1>7. QED
  BY <1>4, <1>5, <1>6 DEF reads, brought

(* Sharing a slot: t is over before u begins.                              *)
Over(o, t, u) ==
  LET x == Prepared(o)
  IN  /\ \A i \in Uses(o, t) : /\ x.first[u] # -1 => i <= x.release[u]
                               /\ \A j \in Uses(o, u) : i < j
      /\ x.first[t] # -1 => /\ \A j \in Uses(o, u) : x.first[t] < j
                            /\ x.first[u] # -1 => x.first[t] < x.first[u]

Shared(o, t, u) ==
  LET slot == Plan(Request(o)).slot
  IN  t # u /\ slot[t] = slot[u] /\ t \notin o.resident /\ u \notin o.resident

LEMMA OneOwner ==
  ASSUME NEW o, AsWritten(o), NEW t \in Tensors, NEW u \in Tensors, Shared(o, t, u)
  PROVE  OneAfterOther(Request(o), t, u)
  BY RequestIs, SlotsTakenInTurn DEF Shared

(* Whoever shares a slot is neither bound before the run nor an output.    *)
Passing(p, t) ==
  /\ ~HasRole(p, t, "Output") /\ ~HasRole(p, t, "Input")
  /\ Bound(p, t) => HasRole(p, t, "Streamed")

LEMMA Sharers ==
  ASSUME NEW o, AsWritten(o), NEW t \in Tensors, ~Lifetime(Request(o), t).dedicated
  PROVE  Passing(o.program, t)
<1>1. Request(o).program = o.program
  BY RequestIs
<1>2. QED
  BY <1>1 DEF Lifetime, Bound, Passing

LEMMA UsesCovered ==
  ASSUME NEW o, AsWritten(o), NEW t \in Tensors, ~Lifetime(Request(o), t).dedicated
  PROVE  LET l == Lifetime(Request(o), t)
         IN  /\ l.first \in Nat /\ l.last \in Nat
             /\ Uses(o, t) \subseteq Operations(o.program)
             /\ \A i \in Uses(o, t) : l.first <= i /\ i <= l.last
<1> DEFINE r == Request(o)
           p == o.program
           l == Lifetime(r, t)
<1>1. Direct(r) /\ r.program = p /\ r.distance \in Nat /\ IsProgram(p) /\ Verified(p)
  BY RequestIs DEF Direct, WellAsked
<1>2. Covered(r, t)
  BY <1>1, LifetimeIs
<1>3. Uses(o, t) \subseteq Operations(p) /\ Operations(p) \subseteq Nat
  BY <1>1 DEF Uses, Consumers, Producers, Operations, IsProgram
<1>4. \A i \in Uses(o, t) : i <= l.last
  BY <1>1, <1>2 DEF Covered, Uses
<1>5. ASSUME NEW i \in Uses(o, t) PROVE l.first <= i
  <2>1. CASE ~Bound(p, t)
    BY <1>1, <1>2, <2>1 DEF Covered, Uses
  <2>2. CASE Bound(p, t)
    <3>1. HasRole(p, t, "Streamed")
      BY <2>2, Sharers DEF Passing
    <3>2. i \in Consumers(p, t)
      BY <1>1, <2>2, ProducerComesFirst DEF Uses
    <3>3. l.first = 0 \/ l.first + r.distance <= i
      BY <1>1, <1>2, <3>1, <3>2 DEF Covered
    <3>4. l.first \in Nat /\ i \in Nat
      BY <1>2, <1>3 DEF Covered
    <3>5. QED
      BY <1>1, <3>3, <3>4
  <2>3. QED
    BY <2>1, <2>2
<1>6. QED
  BY <1>2, <1>3, <1>4, <1>5 DEF Covered

(* The release of a constant's slot: the last end of its other tenants     *)
(* before the constant's first use; its prefetch can be issued after it.   *)
LEMMA ReleaseIs ==
  ASSUME NEW o, AsWritten(o), NEW u \in Tensors, FirstUse(o, u) # -1
  PROVE  LET e == OverwriteWait(o, Plan(Request(o)), u)
         IN  /\ e \in Int
             /\ u \in o.resident => e = -1
             /\ e # -1 => e + (IF o.overlap THEN o.depth ELSE 1) <= FirstUse(o, u)
             /\ \A t \in Tensors :
                  Shared(o, t, u) /\ Lifetime(Request(o), t).last < Lifetime(Request(o), u).first =>
                    Lifetime(Request(o), t).last <= e
<1> DEFINE r == Request(o)
           p == o.program
           slot == Plan(r).slot
           e == OverwriteWait(o, Plan(r), u)
           first == FirstUse(o, u)
           mates == {t \in Tensors \ {u} : slot[t] # 0 /\ slot[t] = slot[u]}
           ends == {Lifetime(r, t).last : t \in mates}
           before == {x \in ends : x < first}
           last(t) == Lifetime(r, t).last
<1>1. /\ Direct(r) /\ r.program = p /\ p.count \in Nat /\ o.depth \in Nat
      /\ r.distance = IF o.overlap THEN o.depth ELSE 0
  BY RequestIs DEF Direct, WellAsked, AsWritten, IsProgram
<1>2. first \in 0 .. p.count - 1 /\ first \in Consumers(p, u) /\ HasRole(p, u, "Streamed")
  BY FirstUseIs DEF Operations
<1>3. e = IF u \in o.resident THEN -1 ELSE Latest(before)
  BY DEF OverwriteWait, None
<1>4. before \subseteq 0 .. p.count - 1
  <2>1. \A t \in Tensors : Lifetime(r, t).last \in Nat
    BY <1>1, LifetimeIs DEF Covered
  <2>2. QED
    BY <1>1, <1>2, <2>1
<1> HIDE DEF before
<1>5. /\ Latest(before) \in -1 .. p.count - 1
      /\ Latest(before) # -1 => Latest(before) \in before
      /\ \A x \in before : x <= Latest(before)
  BY <1>1, <1>4, Extremes
<1>6. /\ \A t \in Tensors : slot[t] # 0 <=> t \notin o.resident
      /\ slot \in [Tensors -> Nat]
  BY <1>1, RequestIs, SlotsTakenInTurn
<1>7. ASSUME u \notin o.resident, NEW t \in mates, last(t) < first
      PROVE  last(t) + (IF o.overlap THEN o.depth ELSE 1) <= first
  <2>1. t \in Tensors /\ u \in Tensors /\ Shared(o, t, u)
    BY <1>6, <1>7 DEF Shared
  <2>2. OneAfterOther(r, t, u)
    BY <2>1, OneOwner
  <2>3. Covered(r, t) /\ Covered(r, u)
    BY <1>1, <2>1, LifetimeIs
  <2>4. /\ Lifetime(r, t).last < Lifetime(r, u).first \/ Lifetime(r, u).last < Lifetime(r, t).first
        /\ Lifetime(r, t).last \in Nat /\ Lifetime(r, t).first \in Nat
        /\ Lifetime(r, u).last \in Nat /\ Lifetime(r, u).first \in Nat
        /\ Lifetime(r, t).first <= Lifetime(r, t).last
    BY <2>2, <2>3 DEF OneAfterOther, Covered
  <2>5. first <= Lifetime(r, u).last
    BY <1>1, <1>2, <2>3 DEF Covered
  <2>6. Lifetime(r, u).first = 0 \/ Lifetime(r, u).first + r.distance <= first
    BY <1>1, <1>2, <2>3 DEF Covered
  <2>7. Lifetime(r, t).last < Lifetime(r, u).first
    BY <1>2, <1>7, <2>4, <2>5
  <2>8. last(t) < Lifetime(r, u).first /\ Lifetime(r, u).first + r.distance <= first
    BY <2>4, <2>6, <2>7
  <2>9. QED
    BY <1>1, <1>2, <1>7, <2>4, <2>8
<1>8. e # -1 => e + (IF o.overlap THEN o.depth ELSE 1) <= first
  <2>1. SUFFICES ASSUME e # -1 PROVE e + (IF o.overlap THEN o.depth ELSE 1) <= first
    OBVIOUS
  <2>2. u \notin o.resident /\ e \in before
    BY <1>3, <1>5, <2>1
  <2>3. PICK t \in mates : e = last(t) /\ last(t) < first
    BY <2>2 DEF before
  <2>4. QED
    BY <1>7, <2>2, <2>3
<1>9. ASSUME NEW t \in Tensors, Shared(o, t, u), last(t) < Lifetime(r, u).first
      PROVE  last(t) <= e
  <2>1. t \in mates /\ u \notin o.resident
    BY <1>6, <1>9 DEF Shared
  <2>2. Covered(r, u) /\ Covered(r, t)
    BY <1>1, LifetimeIs
  <2>3. Lifetime(r, u).first <= first
    <3>1. Lifetime(r, u).first = 0 \/ Lifetime(r, u).first + r.distance <= first
      BY <1>1, <1>2, <2>2 DEF Covered
    <3>2. QED
      BY <1>1, <1>2, <2>2, <3>1 DEF Covered
  <2>4. last(t) < first
    BY <1>2, <1>9, <2>2, <2>3 DEF Covered
  <2>5. last(t) \in before
    BY <2>1, <2>4 DEF before
  <2>6. QED
    BY <1>3, <1>5, <2>1, <2>5
<1>10. e \in Int /\ (u \in o.resident => e = -1)
  BY <1>3, <1>5
<1>11. QED
  BY <1>8, <1>9, <1>10

(* Two tensors of one slot: whatever uses the one is over when the other   *)
(* is brought or written.                                                  *)
LEMMA SharedInTurn ==
  ASSUME NEW o, AsWritten(o), NEW t \in Tensors, NEW u \in Tensors, Shared(o, t, u)
  PROVE  /\ Over(o, t, u) \/ Over(o, u, t)
         /\ Passing(o.program, t) /\ Passing(o.program, u)
<1> DEFINE r == Request(o)
           x == Prepared(o)
<1>1. OneAfterOther(r, t, u)
  BY OneOwner
<1>2. ~Lifetime(r, t).dedicated /\ ~Lifetime(r, u).dedicated
  BY <1>1 DEF OneAfterOther
<1>3. ASSUME NEW a \in Tensors, NEW b \in Tensors, Shared(o, a, b),
             ~Lifetime(r, a).dedicated, ~Lifetime(r, b).dedicated,
             Lifetime(r, a).last < Lifetime(r, b).first
      PROVE  Over(o, a, b)
  <2>1. /\ x.first[a] = FirstUse(o, a) /\ x.first[b] = FirstUse(o, b)
        /\ x.release[b] = OverwriteWait(o, Plan(r), b)
    <3>1. /\ x.first = [v \in Tensors |-> FirstUse(o, v)]
          /\ x.release = [v \in Tensors |-> OverwriteWait(o, Plan(r), v)]
      BY PreparedFields
    <3> HIDE DEF x
    <3>2. QED
      BY <3>1
  <2>2. /\ Lifetime(r, a).last \in Nat /\ Lifetime(r, b).first \in Nat
        /\ \A i \in Uses(o, a) : i \in Int /\ i <= Lifetime(r, a).last
        /\ \A j \in Uses(o, b) : j \in Int /\ Lifetime(r, b).first <= j
    <3>1. Operations(o.program) \subseteq Int
      BY DEF Operations, AsWritten, IsProgram
    <3>2. QED
      BY <1>3, <3>1, UsesCovered
  <2>3. \A i \in Uses(o, a), j \in Uses(o, b) : i < j
    BY <1>3, <2>2
  <2>4. FirstUse(o, b) # -1 => \A i \in Uses(o, a) : i <= OverwriteWait(o, Plan(r), b)
    <3>1. SUFFICES ASSUME FirstUse(o, b) # -1, NEW i \in Uses(o, a)
                   PROVE  i <= OverwriteWait(o, Plan(r), b)
      OBVIOUS
    <3>2. /\ OverwriteWait(o, Plan(r), b) \in Int
          /\ Lifetime(r, a).last <= OverwriteWait(o, Plan(r), b)
      BY <1>3, <3>1, ReleaseIs
    <3>3. QED
      BY <2>2, <3>2
  <2>5. \A v \in {a, b} : FirstUse(o, v) # -1 => FirstUse(o, v) \in Uses(o, v)
    BY FirstUseIs DEF Uses
  <2>6. QED
    BY <2>1, <2>3, <2>4, <2>5 DEF Over
<1>4. CASE Lifetime(r, t).last < Lifetime(r, u).first
  <2>1. Over(o, t, u)
    BY <1>2, <1>3, <1>4
  <2>2. QED
    BY <1>2, <2>1, Sharers
<1>5. CASE Lifetime(r, u).last < Lifetime(r, t).first
  <2>1. Shared(o, u, t)
    BY DEF Shared
  <2>2. Over(o, u, t)
    BY <1>2, <1>3, <1>5, <2>1
  <2>3. QED
    BY <1>2, <2>2, Sharers
<1>6. QED
  BY <1>1, <1>4, <1>5 DEF OneAfterOther
=============================================================================
