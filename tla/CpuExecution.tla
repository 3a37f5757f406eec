---------------------------- MODULE CpuExecution ----------------------------
(***************************************************************************)
(* runtime/cpu_executor.cpp around its kernels: CpuExecutor::prepare       *)
(* verifies a program, CpuPreparedExecution::run takes its inputs and      *)
(* executes its operations.  A program here is one operation and then,     *)
(* where training/autodiff.cpp can differentiate it, the operations that   *)
(* compute the gradients of its operands from the gradient of its result.  *)
(* Tensors of a program are numbered: operands, results, gradient, and the *)
(* log-sum-exp an attention computes again.                                *)
(***************************************************************************)
EXTENDS KernelIdentities

CONSTANTS
  Handed,          \* what is handed to the verifier: a family of sets of operations
  IndexValues      \* what the integer inputs may hold

VARIABLES
  operation,       \* the operation of the program
  stage,           \* how far it is
  bound,           \* bound[k][i]: element i of its integer input k
  backward,        \* the operations its gradients take, once differentiated
  executed         \* the kernels that ran: their operation and their stores

vars == <<operation, stage, bound, backward, executed>>

Stages == {"handed", "refused", "prepared", "bound", "failed", "executed",
           "not_differentiable", "differentiated", "finished"}

AD == INSTANCE Autodiff WITH Tensors <- {}, MaxU64 <- 0

-----------------------------------------------------------------------------
(* prepare: what verify() does not admit is never executed.                *)
Prepare ==
  /\ stage = "handed"
  /\ stage' = IF WellFormed(operation) /\ Admits(operation) THEN "prepared" ELSE "refused"
  /\ UNCHANGED <<operation, bound, backward, executed>>

(* validate_bound_inputs: any data of the declared type and shape.         *)
IntegerInputs(op) == {k \in Upto(Len(op.inputs)) : In(op, k).dtype = "I32"}
Bindings(op) ==
  LET elements == UNION {{<<k, i>> : i \in Upto(Size(In(op, k)))} : k \in IntegerInputs(op)}
  IN  {[k \in IntegerInputs(op) |-> [i \in Upto(Size(In(op, k))) |-> values[<<k, i>>]]] :
       values \in [elements -> IndexValues]}

Bind ==
  /\ stage = "prepared"
  /\ bound' \in Bindings(operation)
  /\ stage' = "bound"
  /\ UNCHANGED <<operation, backward, executed>>

(* execute_operation: a kernel that throws delivers nothing.               *)
Run(op, values) == [operation |-> op, stores |-> Kernel(op, values)]

Execute ==
  /\ stage = "bound"
  /\ IF Fails(operation, bound)
     THEN stage' = "failed" /\ UNCHANGED executed
     ELSE stage' = "executed" /\ executed' = <<Run(operation, bound)>>
  /\ UNCHANGED <<operation, bound, backward>>

-----------------------------------------------------------------------------
(* differentiate: what Autodiff emits for this operation, with the         *)
(* descriptors and the attributes that tell the kernels where to read.     *)
Gradient(op)   == Len(op.inputs) + Len(op.outputs) + 1
Recomputed(op) == Gradient(op) + 1
Described(op, t) ==
  IF t = Gradient(op) THEN Out(op, 0)
  ELSE IF t = Recomputed(op) THEN LogSumExp(In(op, 0))
  ELSE (op.inputs \o op.outputs)[t]

Kept(op, keys) == [key \in keys \cap DOMAIN op.attributes |-> op.attributes[key]]

(* A mutant forgets where a SwiGlu started.                                *)
Stamped_Mutant(op) ==
  CASE op.opcode = "Attention" -> [Causal |-> Attr(op, "Causal", FALSE)] @@ Kept(op, {"KvHeads"})
    [] op.opcode = "QkNormPartialRope" -> [RotaryDim |-> Attr(op, "RotaryDim", Dim(In(op, 0), 2))]
    [] op.opcode = "SwiGlu" -> [GateFirst |-> Attr(op, "GateFirst", FALSE)]
    [] OTHER -> NoAttributes
Stamped(op) ==
  CASE op.opcode = "Attention" -> [Causal |-> Attr(op, "Causal", FALSE)] @@ Kept(op, {"KvHeads"})
    [] op.opcode = "QkNormPartialRope" -> [RotaryDim |-> Attr(op, "RotaryDim", Dim(In(op, 0), 2))]
    [] op.opcode = "SwiGlu" -> [GateFirst |-> Attr(op, "GateFirst", FALSE)] @@ Kept(op, {"Start"})
    [] OTHER -> NoAttributes

(* The operation as Autodiff knows it.                                     *)
Numbered(op) ==
  LET operands == Len(op.inputs)
  IN  [op |-> op.opcode, id |-> 1, in |-> [k \in 1 .. operands |-> k],
       out |-> [k \in DOMAIN op.outputs |-> operands + k]]

Emission(op, opcode, in, out) ==
  LET described(tensors) == [k \in DOMAIN tensors |-> Described(op, tensors[k])]
  IN  Step(Op(opcode, described(in), described(out), Stamped(op)), in, out)

(* Every operand is a target, so that nothing depends on the rest of the   *)
(* program (the first argument of Rule).                                   *)
Emissions(op) ==
  LET o == Numbered(op)
      rules == AD!Rule(<<>>, o, Gradient(op), ToSet(o.in), Recomputed(op))
      recompute == IF op.opcode # "Attention" THEN <<>>
                   ELSE <<Emission(op, "AttentionLse", <<1, 2>>, <<Recomputed(op)>>)>>
  IN  recompute \o [k \in DOMAIN rules |-> Emission(op, rules[k].op, rules[k].in, rules[k].for)]

(* The grown program is verified; a shared vector is refused before.       *)
Supported(op) == op.opcode \in AD!Differentiable /\ ~SharedVector(op)
Differentiate ==
  /\ stage = "executed"
  /\ LET steps == IF Supported(operation) THEN Emissions(operation) ELSE <<>>
     IN  IF Supported(operation) /\ Legal(steps)
         THEN stage' = "differentiated" /\ backward' = steps
         ELSE stage' = "not_differentiable" /\ UNCHANGED backward
  /\ UNCHANGED <<operation, bound, executed>>

ExecuteBackward ==
  /\ stage = "differentiated"
  /\ stage' = "finished"
  /\ executed' = executed \o [k \in DOMAIN backward |-> Run(backward[k].operation, <<>>)]
  /\ UNCHANGED <<operation, bound, backward>>

-----------------------------------------------------------------------------
Init ==
  /\ \E family \in DOMAIN Handed : operation \in Handed[family]
  /\ stage = "handed" /\ bound = <<>> /\ backward = <<>> /\ executed = <<>>

Next == Prepare \/ Bind \/ Execute \/ Differentiate \/ ExecuteBackward

Spec == Init /\ [][Next]_vars

-----------------------------------------------------------------------------
(* Whatever verify() admits and whatever the integers are, no kernel reads *)
(* or writes outside of a tensor or of its scratch vector, and every       *)
(* element of every result gets one value: what the rules of verify.cpp    *)
(* demand, together with what the kernels check of data, is enough for the *)
(* indices the kernels compute without looking.                            *)
InsideOf(op, x) ==
  LET size == CASE x[1] = "in"  -> Size(In(op, x[2]))
                [] x[1] = "out" -> Size(Out(op, x[2]))
                [] OTHER        -> ScratchSize(op)
  IN  x[3] \in Upto(size)

ExecutesInside ==
  \A r \in ToSet(executed) :
     LET written == {s.to : s \in r.stores}
     IN  /\ \A x \in written \cup UNION {s.from : s \in r.stores} : InsideOf(r.operation, x)
         /\ written = {<<"out", x[1], x[2]>> :
                       x \in UNION {{k} \X Upto(Size(Out(r.operation, k))) : k \in Upto(Len(r.operation.outputs))}}
         /\ Cardinality(written) = Cardinality(r.stores)

(* A kernel moves and combines the elements that the operations it stands  *)
(* for would: padding inside or before a convolution, heads repeated or    *)
(* shared, rows sliced or addressed, operands quantized or not, packed     *)
(* projections taken apart before or after; and what is rearranged can be  *)
(* arranged back.                                                          *)
AgreesWithComposition == stage = "executed" => \A claim \in Claims(operation) : Holds(claim, bound)

(* The gradient of an operand reads the gradient of the result exactly     *)
(* where the result read the operand: autodiff.cpp and the backward        *)
(* kernels transpose what the forward kernels do, under the attributes the *)
(* forward operation carries (its groups of heads, its mask, its rotation, *)
(* the columns it starts at).                                              *)
ForwardReads(p) ==
  LET d == Depends(executed[1].stores)
  IN  {<<x, y>> \in Upto(Size(operation.inputs[p])) \X Upto(Size(Out(operation, 0))) :
         <<p - 1, x>> \in d[<<0, y>>]}

BackwardReads(p) ==
  LET passed == IF p \in ToSet(AD!Passed(Numbered(operation)))
                THEN {<<x, x>> : x \in Upto(Size(operation.inputs[p]))} ELSE {}
      reads(k, j) ==
        LET d == Depends(executed[k + 1].stores)
        IN  {<<x, y>> \in Upto(Size(operation.inputs[p])) \X Upto(Size(Out(operation, 0))) :
               \E i \in DOMAIN backward[k].in :
                  backward[k].in[i] = Gradient(operation) /\ <<i - 1, y>> \in d[<<j - 1, x>>]}
  IN  passed \cup UNION {UNION {reads(k, j) : j \in {i \in DOMAIN backward[k].out :
                                                     backward[k].out[i] = p}} :
                         k \in DOMAIN backward}

BackwardIsAdjoint ==
  stage = "finished" =>
    \A p \in AD!Varying(Numbered(operation)) : ForwardReads(p) = BackwardReads(p)
=============================================================================
