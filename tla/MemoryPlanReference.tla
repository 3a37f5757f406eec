------------------------ MODULE MemoryPlanReference ------------------------
(***************************************************************************)
(* plan_memory as one function of its arguments: what the step-by-step     *)
(* planner of MemoryPlan computes for arguments it accepts.  Modules that  *)
(* run programs take their device storage from here.                       *)
(***************************************************************************)
EXTENDS DiffIR, Sequences, SequencesExt

Earliest(S) == IF S = {} THEN -1 ELSE Min(S)
Latest(S)   == IF S = {} THEN -1 ELSE Max(S)

(* The tensor at the end of a chain of aliases.                            *)
Root(al, t) ==
  LET root[u \in Tensors] == IF u \in DOMAIN al THEN root[al[u]] ELSE u
  IN  root[t]

Planned(r) == {t \in Tensors : t \notin r.excluded \cup r.replaced \cup DOMAIN r.aliases}

(* The operations during which a tensor's storage is in use.               *)
Lifetime(r, t) ==
  LET p     == r.program
      reads == Consumers(p, t)
      first == IF HasRole(p, t, "Streamed")
               THEN Max({0, Earliest(reads) - r.distance})
               ELSE Max({0, Earliest(Producers(p, t))})
      views == {o \in DOMAIN r.aliases : Root(r.aliases, o) = t}
      own   == IF HasRole(p, t, "Output") THEN p.count
               ELSE Max({first, Latest(reads)})
  IN  [first |-> first,
       last  |-> Max({own} \cup {Latest(Consumers(p, o)) : o \in views}),
       dedicated |-> \/ HasRole(p, t, "Input") \/ HasRole(p, t, "Output")
                     \/ HasRole(p, t, "Constant") /\ ~HasRole(p, t, "Streamed")
                     \/ t \in r.persistent]

PlacedBefore(a, b, t, u) ==
  IF a.dedicated # b.dedicated THEN a.dedicated
  ELSE IF a.first # b.first THEN a.first < b.first ELSE t < u

(* Dedicated storage first, then by first operation, then by id.           *)
Ordered(life) ==
  LET S == DOMAIN life
      earlier(t) == {u \in S \ {t} : PlacedBefore(life[u], life[t], u, t)}
  IN  [k \in 1 .. Cardinality(S) |->
         CHOOSE t \in S : Cardinality(earlier(t)) = k - 1]

(* Smallest slot that is free before the tensor's lifetime begins and big  *)
(* enough for it, the lowest such slot among equals; a new slot otherwise. *)
(* The search starts from the largest size there is and never takes it.    *)
PlaceNext(plan, t, life, bytes) ==
  LET free  == {s \in DOMAIN plan.slots : /\ ~life.dedicated
                                          /\ plan.until[s] < life.first
                                          /\ plan.slots[s] >= bytes
                                          /\ plan.slots[s] < MaxU64}
      best  == CHOOSE s \in free : \A c \in free :
                 plan.slots[s] < plan.slots[c] \/ (plan.slots[s] = plan.slots[c] /\ s <= c)
      until == IF life.dedicated THEN MaxU64 ELSE life.last
  IN  IF free = {}
      THEN [slots |-> Append(plan.slots, bytes), until |-> Append(plan.until, until),
            slot  |-> [plan.slot EXCEPT ![t] = Len(plan.slots) + 1]]
      ELSE [slots |-> plan.slots, until |-> [plan.until EXCEPT ![best] = until],
            slot  |-> [plan.slot EXCEPT ![t] = best]]

Plan(r) ==
  LET life == [t \in Planned(r) |-> Lifetime(r, t)]
      bytes(t) == ((r.program.bytes[t] + r.alignment - 1) \div r.alignment) * r.alignment
  IN  FoldLeft(LAMBDA plan, t : PlaceNext(plan, t, life[t], bytes(t)),
               [slots |-> <<>>, until |-> <<>>, slot |-> [t \in Tensors |-> 0]],
               Ordered(life))
=============================================================================
