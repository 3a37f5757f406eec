------------------------------- MODULE DiffIR -------------------------------
(***************************************************************************)
(* The part of a DiffIR program the planners and the executor read: which  *)
(* tensors each operation consumes and produces, the role flags and the    *)
(* byte count of every tensor.  Operations are named by their position in  *)
(* Program::operations, 0 .. count-1, the index the runtime uses.          *)
(***************************************************************************)
EXTENDS Integers, FiniteSets

CONSTANTS
  Tensors,   (* Tensor ids; naturals, because the planner orders by id.    *)
  MaxU64     (* std::numeric_limits<std::uint64_t>::max().                 *)

ASSUME TensorsAssumption == Tensors \subseteq Nat /\ IsFiniteSet(Tensors)
ASSUME MaxU64Assumption  == MaxU64 \in Nat

(* TensorRole flags.  TensorRole::Internal is the value without flags.     *)
Roles == {"Input", "Output", "Constant", "Streamed"}

Operations(p) == 0 .. p.count - 1

IsProgram(p) ==
  /\ p.count \in Nat
  /\ p.count < MaxU64
  /\ p.inputs  \in [Operations(p) -> SUBSET Tensors]
  /\ p.outputs \in [Operations(p) -> SUBSET Tensors]
  /\ p.roles \in [Tensors -> SUBSET Roles]
  /\ p.bytes \in [Tensors -> 0 .. MaxU64]

HasRole(p, t, role) == role \in p.roles[t]
Internal(p, t)      == p.roles[t] = {}
Bound(p, t)         == HasRole(p, t, "Input") \/ HasRole(p, t, "Constant")

Consumers(p, t) == {i \in Operations(p) : t \in p.inputs[i]}
Producers(p, t) == {i \in Operations(p) : t \in p.outputs[i]}

(* ir::verify: every input is bound or was produced by an earlier          *)
(* operation, a tensor has one writer, and that writer is not overwriting  *)
(* bound storage.                                                          *)
Verified(p) ==
  /\ \A t \in Tensors : HasRole(p, t, "Streamed") => HasRole(p, t, "Constant")
  /\ \A i \in Operations(p) : \A t \in p.inputs[i] :
        Bound(p, t) \/ \E j \in Operations(p) : j < i /\ t \in p.outputs[j]
  /\ \A i, j \in Operations(p) : i # j => p.outputs[i] \cap p.outputs[j] = {}
  /\ \A i \in Operations(p) : \A t \in p.outputs[i] : ~Bound(p, t)
  /\ \A t \in Tensors :
        HasRole(p, t, "Output") => Bound(p, t) \/ Producers(p, t) # {}
=============================================================================
