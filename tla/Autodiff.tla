------------------------------ MODULE Autodiff ------------------------------
(***************************************************************************)
(* training/autodiff.cpp: differentiate appends to a program the           *)
(* operations that compute the gradients of its loss.  A run of it is a    *)
(* record                                                                  *)
(*   c           the program grown so far (a context of Rewrite), with ok  *)
(*   pending     tensor -> contributions to its gradient, as they arrived: *)
(*               the consumer's operation id and the tensor that holds it  *)
(*   gradients   tensor -> the tensor of its gradient, once it was read    *)
(* Attributes (epsilon, scales, layouts) are copied and left out.          *)
(***************************************************************************)
EXTENDS Rewrite

(* Operations whose last operands get no gradient: the target of a loss,   *)
(* the tables of a rotation.                                               *)
Differentiable == {"MseLoss", "BiasAdd", "Linear", "SiLU", "Add", "Multiply", "RmsNorm",
                   "RmsNormModulate", "Attention", "QkNormPartialRope", "LayerNorm", "SwiGlu",
                   "ResidualGate", "Cast", "Fill"}

-----------------------------------------------------------------------------
(* The program grows by one operation with an output like each of these.   *)
Emit(c, op, in, primals) ==
  LET first == FreshTensor(c)
      out == [k \in DOMAIN primals |-> first + k - 1]
      declared == Declare(c, [k \in DOMAIN primals |-> Temporary(DType(c, primals[k]), Dims(c, primals[k]))])
  IN  [declared EXCEPT !.ops = Append(@, Operation(FreshOperation(c), op, in, out, PlainAttr))]
Emitted(c) == Last(c.ops).out

Accumulate(s, consumer, primal, tensor) ==
  [s EXCEPT !.pending[primal] = Append(@, [consumer |-> consumer, tensor |-> tensor])]

(* resolve: fold what is pending into the gradient, in ascending order of  *)
(* the consumers.  A mutant folds in the order of arrival.                 *)
FoldOrder_Mutant(contributions) == contributions
FoldOrder(contributions) ==
  SortSeq(contributions, LAMBDA a, b : \/ a.consumer < b.consumer
                                       \/ a.consumer = b.consumer /\ a.tensor < b.tensor)

Resolve(s, primal) ==
  LET add(d, contribution) ==
        IF primal \notin DOMAIN d.gradients
        THEN [d EXCEPT !.gradients = (primal :> contribution.tensor) @@ @]
        ELSE LET grown == Emit(d.c, "Add", <<d.gradients[primal], contribution.tensor>>, <<primal>>)
             IN  [d EXCEPT !.c = grown, !.gradients[primal] = Emitted(grown)[1]]
      contributions == IF primal \in DOMAIN s.pending THEN s.pending[primal] ELSE <<>>
  IN  FoldLeft(add, [s EXCEPT !.pending = (primal :> <<>>) @@ @], FoldOrder(contributions))

-----------------------------------------------------------------------------
(* The gradients an operation passes on as they are, and those it emits    *)
(* operations for: what they read and the primals their outputs are for.   *)
(* Nobody reads the gradient of a weight that is neither a target nor      *)
(* computed.  A mutant keeps the gradients of the targets only.            *)
Backward(op, in, for) == <<[op |-> op, in |-> in, for |-> for]>>

Passed(o) ==
  CASE o.op = "Add"                        -> o.in
    [] o.op \in {"BiasAdd", "ResidualGate"} -> <<o.in[1]>>
    [] OTHER                               -> <<>>

Wanted_Mutant(c, targets, w) == w \in targets
Wanted(c, targets, w) == w \in targets \/ Writes(c, w) # {}

Weighted(o) == Len(o.in) = 4              \* RmsNormModulate
ModulateInputs(o, g) ==
  IF Weighted(o) THEN <<g, o.in[1], o.in[2], o.in[3]>> ELSE <<g, o.in[1], o.in[2]>>
ModulatePrimals(o) ==
  IF Weighted(o) THEN <<o.in[1], o.in[3], o.in[4], o.in[2]>> ELSE o.in

Only(wanted, steps) == IF wanted THEN steps ELSE <<>>

NormRule(o, g, weight) ==
  IF o.op = "RmsNorm" THEN Backward("RmsNormBackward", <<g>> \o o.in, <<o.in[1]>> \o weight)
  ELSE IF o.op = "RmsNormModulate"
  THEN Backward("RmsNormModulateBackward", ModulateInputs(o, g), ModulatePrimals(o))
  ELSE <<>>

(* lse is the recomputed log-sum-exp of an attention.                      *)
BlockRule(o, g, weight, lse) ==
  LET in == o.in
  IN  CASE o.op = "Attention" ->
             Backward("AttentionBackward", <<g>> \o in \o <<o.out[1], lse>>, in)
        [] o.op = "QkNormPartialRope" ->
             Backward("QkNormPartialRopeBackward", <<g>> \o in, <<in[1]>> \o weight)
        [] o.op = "LayerNorm" -> Backward("LayerNormBackward", <<g, in[1], in[2]>>, in)
        [] o.op = "SwiGlu" -> Backward("SwiGluBackward", <<g, in[1]>>, <<in[1]>>)
        [] o.op = "ResidualGate" ->
             Backward("ResidualGateBackward", <<g, in[2], in[3]>>, <<in[2], in[3]>>)
        [] o.op = "Cast" -> Backward("Cast", <<g>>, <<in[1]>>)
        [] OTHER -> NormRule(o, g, weight)

Rule(c, o, g, targets, lse) ==
  LET in == o.in
      weight == Only(Wanted(c, targets, in[2]), <<in[2]>>)
  IN  CASE o.op = "MseLoss" -> Backward("MseLossBackward", <<in[1], in[2], g>>, <<in[1]>>)
        [] o.op = "BiasAdd" -> Backward("BiasBackward", <<g>>, <<in[2]>>)
        [] o.op = "Linear"  ->
             Backward("LinearBackwardInput", <<g, in[2]>>, <<in[1]>>) \o
             Only(weight # <<>>, Backward("LinearBackwardWeight", <<g, in[1]>>, weight)) \o
             Only(Len(in) = 3, Backward("BiasBackward", <<g>>, <<Last(in)>>))
        [] o.op = "SiLU" -> Backward("SiLUBackward", <<in[1], g>>, <<in[1]>>)
        [] o.op = "Multiply" -> Backward("Multiply", <<g, in[2]>>, <<in[1]>>) \o
                                Backward("Multiply", <<g, in[1]>>, <<in[2]>>)
        [] OTHER -> BlockRule(o, g, weight, lse)

(* Attention saves no statistics: they are computed again.                 *)
Recompute(c, o) ==
  IF o.op # "Attention" THEN c
  ELSE LET q == o.in[1]
           lse == FreshTensor(c)
       IN  [Declare(c, <<Temporary(F32, SubSeq(Dims(c, q), 1, 2))>>) EXCEPT
              !.ops = Append(@, Operation(FreshOperation(c), "AttentionLse",
                                          <<q, o.in[2]>>, <<lse>>, PlainAttr))]

Backpropagate(s, forward, o, g, targets) ==
  LET passed == FoldLeft(LAMBDA d, t : Accumulate(d, o.id, t, g), s, Passed(o))
      emit(d, r) ==
        LET grown == Emit(d.c, r.op, r.in, r.for)
        IN  FoldLeft(LAMBDA e, k : Accumulate(e, o.id, r.for[k], Emitted(grown)[k]),
                     [d EXCEPT !.c = grown], [k \in DOMAIN r.for |-> k])
  IN  FoldLeft(emit, [passed EXCEPT !.c = Recompute(@, o)],
               Rule(forward, o, g, targets, FreshTensor(s.c)))

(* One turn of the reverse loop.                                           *)
BackThrough(s, forward, o, targets) ==
  LET resolved == FoldLeft(Resolve, s, o.out)
      active == ToSet(o.out) \cap DOMAIN resolved.gradients
  IN  IF ~s.c.ok \/ active = {} THEN resolved
      ELSE IF Cardinality(active) > 1 \/ o.op \notin Differentiable
      THEN [s EXCEPT !.c = Illegal(@)]
      ELSE Backpropagate(resolved, forward, o,
                         resolved.gradients[CHOOSE t \in active : TRUE], targets)

Seeded(c, loss) ==
  LET seeded == Emit(c, "Fill", <<>>, <<loss>>)
  IN  [c |-> seeded, pending |-> [t \in Declared(c) |-> <<>>],
       gradients |-> (loss :> Emitted(seeded)[1])]

Deliver(s, t) ==
  LET d == Resolve(s, t)
  IN  IF ~s.c.ok \/ t \notin DOMAIN d.gradients THEN [s EXCEPT !.c = Illegal(@)]
      ELSE [d EXCEPT !.c.tensors[d.gradients[t]].roles = @ \cup {"Output"}]

(* Both the program that comes in and the one that goes out must verify.   *)
Checked(s) == IF s.c.ok /\ ~VerifiedContext(s.c) THEN [s EXCEPT !.c = Illegal(@)] ELSE s

Differentiate(c, loss, targets) ==
  LET backwards == FoldLeft(LAMBDA s, o : BackThrough(s, c, o, ToSet(targets)),
                            Seeded(c, loss), Reverse(c.ops))
  IN  IF /\ VerifiedContext(c) /\ targets # <<>> /\ ToSet(targets) \cup {loss} \subseteq Declared(c)
         /\ DType(c, loss) = F32 /\ Dims(c, loss) = <<1>>
      THEN Checked(FoldLeft(Deliver, backwards, targets))
      ELSE [backwards EXCEPT !.c = Illegal(@)]

-----------------------------------------------------------------------------
(* What it is compared with: the derivative, carried forward through the   *)
(* program next to the values, over one-element tensors and the integers   *)
(* modulo a prime.  There the linear operations are themselves; a cube     *)
(* stands for an activation, a square times the weight for a norm, the     *)
(* product q * k^2 * v for attention.                                      *)
Prime == 97
Times(a, b) == (a * b) % Prime
Plus(a, b)  == (a + b) % Prime
Minus(a, b) == (a + Prime - b) % Prime
Product(s)  == FoldLeft(Times, 1, s)

Dual(v, d) == [v |-> v, d |-> d]
DualPlus(a, b)  == Dual(Plus(a.v, b.v), Plus(a.d, b.d))
DualTimes(a, b) == Dual(Times(a.v, b.v), Plus(Times(a.v, b.d), Times(a.d, b.v)))
DualProduct(s)  == FoldLeft(DualTimes, Dual(1, 0), s)
Fixed(a)        == Dual(a.v, 0)
Square(a)       == DualTimes(a, a)

(* A forward operation; the gradient stops where the code says so.         *)
Function(op, a) ==
  CASE op \in {"Add", "BiasAdd"} -> DualPlus(a[1], a[2])
    [] op = "Multiply"    -> DualTimes(a[1], a[2])
    [] op = "Linear"      -> DualPlus(DualTimes(a[1], a[2]), IF Len(a) = 3 THEN a[3] ELSE Dual(0, 0))
    [] op = "MseLoss"     -> Square(DualPlus(a[1], Dual(Minus(0, a[2].v), 0)))
    [] op \in {"SiLU", "SwiGlu"} -> DualProduct(<<a[1], a[1], a[1]>>)
    [] op = "RmsNorm"     -> DualTimes(Square(a[1]), a[2])
    [] op = "LayerNorm"   -> DualPlus(DualTimes(Square(a[1]), a[2]), a[3])
    [] op = "QkNormPartialRope" -> DualProduct(<<Square(a[1]), a[2], Fixed(a[3]), Fixed(a[4])>>)
    [] op = "RmsNormModulate" ->
         LET n == Len(a)
             weight == IF n = 4 THEN a[2] ELSE Dual(1, 0)
         IN  DualPlus(DualProduct(<<Square(a[1]), weight, DualPlus(Dual(1, 0), a[n - 1])>>), a[n])
    [] op = "Attention"    -> DualProduct(<<a[1], a[2], a[2], a[3]>>)
    [] op = "ResidualGate" -> DualPlus(a[1], DualTimes(a[2], a[3]))
    [] op = "Cast"         -> a[1]
    [] op = "Fill"         -> Dual(1, 0)
    [] OTHER               -> Dual(0, 0)

(* The kernels of the operations that are emitted.                         *)
Kernel(op, a) ==
  CASE op = "MseLossBackward" -> << Product(<<2, Minus(a[1], a[2]), a[3]>>) >>
    [] op = "BiasBackward"    -> a
    [] op \in {"LinearBackwardInput", "LinearBackwardWeight"} -> << Product(a) >>
    [] op = "SiLUBackward"    -> << Product(<<3, a[1], a[1], a[2]>>) >>
    [] op = "SwiGluBackward"  -> << Product(<<3, a[1], a[2], a[2]>>) >>
    [] op = "RmsNormBackward" -> << Product(<<2>> \o a), Product(<<a[1], a[2], a[2]>>) >>
    [] op = "LayerNormBackward" ->
         << Product(<<2>> \o a), Product(<<a[1], a[2], a[2]>>), a[1] >>
    [] op = "QkNormPartialRopeBackward" ->
         << Product(<<2>> \o a), Product(<<a[1], a[2], a[2], a[4], a[5]>>) >>
    [] op = "RmsNormModulateBackward" ->
         LET n == Len(a)
             weight == IF n = 4 THEN a[3] ELSE 1
             square == Product(<<a[1], a[2], a[2]>>)
             scale  == Plus(1, a[n])
         IN  << Product(<<2, a[1], a[2], weight, scale>>), Times(square, weight), a[1],
                Times(square, scale) >>
    [] op = "AttentionBackward" ->
         << Product(<<a[1], a[3], a[3], a[4]>>), Product(<<2, a[1], a[2], a[3], a[4]>>),
            Product(<<a[1], a[2], a[3], a[3]>>) >>
    [] op = "ResidualGateBackward" -> << Times(a[1], a[3]), Times(a[1], a[2]) >>
    [] OTHER -> << Function(op, [k \in DOMAIN a |-> Dual(a[k], 0)]).v >>

Evaluate(c, leaves) ==
  LET step(values, o) ==
        LET results == Kernel(o.op, [k \in DOMAIN o.in |-> values[o.in[k]]])
        IN  [t \in ToSet(o.out) |-> results[CHOOSE k \in DOMAIN o.out : o.out[k] = t]] @@ values
  IN  FoldLeft(step, leaves, c.ops)

(* The derivative of the loss by t: t changes at the rate 1 by itself.     *)
Derivative(c, leaves, loss, t) ==
  LET rate(u, a) == IF u = t THEN Dual(a.v, 1) ELSE a
      step(values, o) ==
        LET a == Function(o.op, [k \in DOMAIN o.in |-> values[o.in[k]]])
        IN  [u \in ToSet(o.out) |-> rate(u, a)] @@ values
  IN  FoldLeft(step, [u \in DOMAIN leaves |-> rate(u, Dual(leaves[u], 0))], c.ops)[loss].d

(* The operands whose changes reach the output of o.                       *)
Varying(o) ==
  CASE o.op = "MseLoss"           -> {o.in[1]}
    [] o.op = "QkNormPartialRope" -> {o.in[1], o.in[2]}
    [] OTHER                      -> ToSet(o.in)
Reaching(c, loss) ==
  FoldLeft(LAMBDA S, o : IF ToSet(o.out) \cap S = {} THEN S ELSE S \cup Varying(o),
           {loss}, Reverse(c.ops))

(* Every topological order of the operations of a program.                 *)
Reorderings(c) ==
  LET ready(S, i) == \A t \in ToSet(c.ops[i].in) : Writes(c, t) \subseteq S
      extend(orders, i) ==
        UNION {{Append(q, j) : j \in {k \in Positions(c) \ ToSet(q) : ready(ToSet(q), k)}} :
               q \in orders}
  IN  {[c EXCEPT !.ops = [i \in DOMAIN @ |-> @[q[i]]]] :
       q \in FoldLeft(extend, {<<>>}, [i \in Positions(c) |-> i])}
=============================================================================
