---------------------------- MODULE Preparation ----------------------------
(***************************************************************************)
(* CudaPreparedExecution's constructor: which executions of a program it   *)
(* accepts, and what an accepted one fixes for all later runs.  Lowerings  *)
(* that move work between operations (a bias absorbed by the Linear before *)
(* it, a Linear fused with its SwiGlu, reshapes that become views), the    *)
(* constants promoted to storage of their own, the groups of Linears sent  *)
(* to parallel streams and the region whose results are cached all end in  *)
(* the arguments of plan_memory and in the record Prepared.                *)
(*                                                                         *)
(* Programs carry two more fields here, opcode and first (the first input  *)
(* of an operation).  Bytes are counted in units of 256, the alignment     *)
(* plan_memory is called with.                                             *)
(***************************************************************************)
EXTENDS MemoryPlanReference

None == -1
Only(S) == CHOOSE x \in S : TRUE

IsLinear(p, i) == p.opcode[i] = "Linear" /\ Cardinality(p.inputs[i]) = 2
Result(p, i)   == Only(p.outputs[i])
Second(p, i)   == Only(p.inputs[i] \ {p.first[i]})

-----------------------------------------------------------------------------
(* find_fused_linear_swiglu_plans: one exclusive SwiGlu consumer.          *)
CanFuse(p, i) ==
  /\ IsLinear(p, i)
  /\ \E j \in Operations(p) : /\ Consumers(p, Result(p, i)) = {j}
                              /\ p.opcode[j] = "SwiGlu"
                              /\ p.first[j] = Result(p, i)

SwiGluOf(p, i) == Only(Consumers(p, Result(p, i)))

OwnsSlot(p, t) ==
  \/ HasRole(p, t, "Input") \/ HasRole(p, t, "Output")
  \/ HasRole(p, t, "Constant") /\ ~HasRole(p, t, "Streamed")

(* find_absorbed_linear_bias_plans: the BiasAdd follows immediately, and   *)
(* writing its output one operation early overwrites nothing still read.   *)
SafeToReadEarly(p, i, t) ==
  \/ OwnsSlot(p, t)
  \/ Latest(Consumers(p, t)) >= i + 1
  \/ /\ \A u \in Tensors : ~HasRole(p, u, "Streamed")
     /\ OwnsSlot(p, Result(p, i + 1)) \/ p.bytes[t] < p.bytes[Result(p, i + 1)]

CanAbsorb(p, i) ==
  /\ IsLinear(p, i)
  /\ i + 1 < p.count
  /\ p.opcode[i + 1] = "BiasAdd" /\ p.first[i + 1] = Result(p, i)
  /\ Consumers(p, Result(p, i)) = {i + 1} /\ Internal(p, Result(p, i))
  /\ \A t \in p.inputs[i] \cup {Second(p, i + 1)} : SafeToReadEarly(p, i, t)

CanAlias(p, i) ==
  /\ p.opcode[i] = "Reshape"
  /\ Cardinality(p.inputs[i]) = 1 /\ Cardinality(p.outputs[i]) = 1
  /\ Internal(p, Result(p, i))
  /\ p.bytes[Result(p, i)] = p.bytes[p.first[i]]

(* Contiguous unfused Linears of one activation with resident weights.     *)
CanGroup(o, G) ==
  LET p == o.program IN
  /\ Cardinality(G) >= 2
  /\ G = Min(G) .. Max(G)
  /\ \A i \in G : /\ IsLinear(p, i) /\ i \notin o.fuse
                  /\ p.first[i] = p.first[Min(G)]
                  /\ HasRole(p, Second(p, i), "Constant")
                  /\ HasRole(p, Second(p, i), "Streamed") => Second(p, i) \in o.resident

(* find_repeated_invariant_plan: the internal results of the region that   *)
(* operations outside it read, and the rules for a region.                 *)
Crossing(o) ==
  {t \in Tensors : /\ Producers(o.program, t) \cap o.region # {}
                   /\ Internal(o.program, t)
                   /\ ~Consumers(o.program, t) \subseteq o.region}

CanCache(o) ==
  LET p == o.program IN
  /\ \A i \in o.region : \A t \in p.inputs[i] :
       /\ Producers(p, t) \subseteq o.region
       /\ Producers(p, t) = {} => Bound(p, t)
       /\ HasRole(p, t, "Streamed") => Consumers(p, t) \subseteq o.region
  /\ Crossing(o) # {}

-----------------------------------------------------------------------------
Skipped(o) ==
  o.views \cup {SwiGluOf(o.program, i) : i \in o.fuse} \cup {i + 1 : i \in o.absorb}

Aliases(o) ==
  LET viewOf(t) == CHOOSE i \in o.views : Result(o.program, i) = t
  IN  [t \in {Result(o.program, i) : i \in o.views} |-> o.program.first[viewOf(t)]]

Request(o) ==
  [program    |-> o.program,
   alignment  |-> 1,
   distance   |-> IF o.overlap THEN o.depth ELSE 0,
   excluded   |-> {Result(o.program, i) : i \in o.views \cup o.fuse \cup o.absorb},
   replaced   |-> o.resident,
   persistent |-> IF o.region = {} THEN {} ELSE Crossing(o),
   aliases    |-> Aliases(o)]

(* Everything the constructor fails on.                                    *)
Accepted(o) ==
  LET p == o.program IN
  /\ Verified(p)
  /\ o.depth > 0 /\ o.staging >= 2 /\ o.staging >= o.depth + 1
  /\ \A i \in o.fuse : CanFuse(p, i)
  /\ \A i \in o.absorb : CanAbsorb(p, i)
  /\ \A i \in o.views : CanAlias(p, i)
  /\ \A t \in o.resident : HasRole(p, t, "Streamed")
  /\ \A G \in o.groups : CanGroup(o, G)
  /\ \A G, H \in o.groups : G # H => G \cap H = {}
  /\ o.region # {} => CanCache(o)
  /\ \A t \in Request(o).excluded : ~Bound(p, t) /\ ~HasRole(p, t, "Output")

(* A program executed as it is written: nothing is lowered, grouped or     *)
(* cached, and no constant that streams is an output.                      *)
AsWritten(o) ==
  /\ IsProgram(o.program) /\ o.depth \in Nat /\ o.overlap \in BOOLEAN /\ o.lazy \in BOOLEAN
  /\ o.resident \subseteq Tensors
  /\ Accepted(o)
  /\ o.views = {} /\ o.fuse = {} /\ o.absorb = {} /\ o.groups = {} /\ o.region = {}
  /\ \A t \in Tensors :
       HasRole(o.program, t, "Streamed") /\ HasRole(o.program, t, "Output") =>
         t \in o.resident /\ ~o.lazy

(* What the launch at an operation reads, writes and completes.            *)
Launch(o, i) ==
  LET p == o.program
      from == CASE i \in o.absorb -> p.inputs[i] \cup {Second(p, i + 1)}
                [] OTHER -> p.inputs[i]
      to   == CASE i \in o.absorb -> p.outputs[i + 1]
                [] i \in o.fuse   -> p.outputs[SwiGluOf(p, i)]
                [] OTHER -> p.outputs[i]
      own  == CASE i \in o.absorb -> {i, i + 1}
                [] i \in o.fuse   -> {i, SwiGluOf(p, i)}
                [] OTHER -> {i}
  IN  [reads |-> from, writes |-> to,
       performs |-> own \cup {v \in o.views : Root(Aliases(o), Result(p, v)) \in to}]

(* StreamedPrefetcher's constructor: the operation whose prefetch brings a *)
(* streamed constant, and the one whose completion frees the slot for it.  *)
FirstUse(o, t) ==
  IF /\ HasRole(o.program, t, "Streamed")
     /\ t \in o.resident => o.lazy
  THEN Earliest(Consumers(o.program, t)) ELSE None

OverwriteWait(o, plan, t) ==
  LET mates == {u \in Tensors \ {t} : plan.slot[u] # 0 /\ plan.slot[u] = plan.slot[t]}
      ends  == {Lifetime(Request(o), u).last : u \in mates}
  IN  IF t \in o.resident THEN None
      ELSE Latest({e \in ends : e < FirstUse(o, t)})

(* Device storage: a slot of the plan, or storage of its own for a promoted*)
(* constant; a view is bound to the storage of its root.                   *)
Place(o, plan, t) ==
  LET root == Root(Aliases(o), t)
  IN  IF root \in o.resident THEN <<"own", root>> ELSE <<"slot", plan.slot[root]>>

Prepared(o) ==
  LET plan == Plan(Request(o)) IN
  [program    |-> o.program,
   depth      |-> o.depth,
   staging    |-> o.staging,
   overlap    |-> o.overlap,
   resident   |-> o.resident,
   lazy       |-> IF o.lazy THEN o.resident ELSE {},
   region     |-> o.region,
   crossing   |-> IF o.region = {} THEN {} ELSE Crossing(o),
   width      |-> [i \in {Min(G) : G \in o.groups} |->
                     Cardinality(CHOOSE G \in o.groups : Min(G) = i)],
   followups  |-> UNION {G \ {Min(G)} : G \in o.groups},
   skipped    |-> Skipped(o),
   launch     |-> [i \in Operations(o.program) |-> Launch(o, i)],
   place      |-> [t \in Tensors |-> Place(o, plan, t)],
   root       |-> [t \in Tensors |-> Root(Aliases(o), t)],
   first      |-> [t \in Tensors |-> FirstUse(o, t)],
   release    |-> [t \in Tensors |-> OverwriteWait(o, plan, t)],
   iterations |-> o.iterations]
=============================================================================
