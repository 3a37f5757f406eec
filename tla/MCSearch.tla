------------------------------ MODULE MCSearch ------------------------------
(***************************************************************************)
(* Instance of Search: small programs in which the rewrites meet and       *)
(* disable each other, each searched under options that reach them.        *)
(***************************************************************************)
EXTENDS Slice, Autodiff

MCTensors == 1 .. 44
MCMaxU64  == 1000

Tensor(dtype, dims, roles) == [dtype |-> dtype, roles |-> roles, dims |-> dims]
In(dims)     == Tensor(BF16, dims, {"Input"})
Weight(dims) == Tensor(BF16, dims, {"Constant"})
Stream(dims) == Tensor(BF16, dims, {"Constant", "Streamed"})
Tmp(dims)    == Tensor(BF16, dims, {})
Out(dims)    == Tensor(BF16, dims, {"Output"})
Wide(desc)   == [desc EXCEPT !.dtype = F32]

Op(id, op, in, out) == Operation(id, op, in, out, PlainAttr)

Context(tensors, ops) ==
  [ops |-> ops, tensors |-> tensors, distance |-> 1, ok |-> TRUE,
   bindings |-> [t \in {u \in DOMAIN tensors : tensors[u].roles \cap {"Input", "Constant"} # {}} |->
                   Leaf(IF "Input" \in tensors[t].roles THEN "sample" ELSE "weight", t)]]

(* A packed QKV projection, its parts and a bias per head.                 *)
Qkv == Context(
  << In(<<2, 2>>), Stream(<<6, 2>>), Tmp(<<2, 6>>), Tmp(<<2, 1, 2>>), Tmp(<<2, 1, 2>>),
     Tmp(<<2, 1, 2>>), Tmp(<<2, 1, 2>>), Out(<<2, 1, 2>>) >>,
  << Op(1, "Linear", <<1, 2>>, <<3>>), Op(2, "H3DeinterleaveQkv", <<3>>, <<4, 5, 6>>),
     Op(3, "Add", <<4, 5>>, <<7>>), Op(4, "Add", <<7, 6>>, <<8>>) >>)

(* The same projection twice, its bias added once; dead work.              *)
Biased == Context(
  << In(<<2, 2>>), Weight(<<2, 2>>), Weight(<<2>>), Tmp(<<2, 2>>), Tmp(<<2, 2>>),
     Tmp(<<2, 2>>), Tmp(<<2, 2>>), Out(<<2, 2>>) >>,
  << Op(1, "Linear", <<1, 2>>, <<4>>), Op(2, "Linear", <<1, 2>>, <<5>>),
     Op(3, "BiasAdd", <<4, 3>>, <<6>>), Op(4, "Add", <<1, 5>>, <<7>>),
     Op(5, "Add", <<6, 6>>, <<8>>) >>)

(* A bias computed after the Linear it belongs to, and one per head.       *)
Heads == Context(
  << In(<<2, 2>>), Weight(<<4, 2>>), Weight(<<2>>), Tmp(<<2, 4>>), Out(<<2, 4>>),
     Tmp(<<4>>), Tmp(<<2, 2, 2>>), Out(<<2, 2, 2>>), Weight(<<4>>) >>,
  << Op(1, "Linear", <<1, 2>>, <<4>>), Op(2, "Permute", <<9>>, <<6>>),
     Op(3, "BiasAdd", <<4, 6>>, <<5>>), Op(4, "Linear", <<1, 2>>, <<7>>),
     Op(5, "BiasAdd", <<7, 3>>, <<8>>) >>)

(* Casts of a constant, of an input and of a computed value, both ways.    *)
Casts == Context(
  << In(<<2, 2>>), Weight(<<2, 2>>), Wide(Tmp(<<2, 2>>)), Tmp(<<2, 2>>), Wide(In(<<2, 2>>)),
     Tmp(<<2, 2>>), Wide(Tmp(<<2, 2>>)), Tmp(<<2, 2>>), Tmp(<<2, 2>>), Out(<<2, 2>>) >>,
  << Op(1, "Cast", <<2>>, <<3>>), Op(2, "Cast", <<3>>, <<4>>), Op(3, "Cast", <<5>>, <<6>>),
     Op(4, "Linear", <<6, 4>>, <<8>>), Op(5, "Cast", <<8>>, <<7>>),
     Op(6, "Cast", <<7>>, <<9>>), Op(7, "Add", <<9, 1>>, <<10>>) >>)

(* A value read early and late; constants moved before use; a dead chain.  *)
Late == Context(
  << In(<<2, 2>>), Stream(<<2, 2>>), Tmp(<<2, 2>>), Tmp(<<2, 2>>), Tmp(<<2, 2>>),
     Tmp(<<2, 2>>), Tmp(<<2, 2>>), Out(<<2, 2>>), Tmp(<<2, 2>>), Tmp(<<2, 2>>) >>,
  << Op(1, "Permute", <<2>>, <<3>>), Op(2, "Permute", <<1>>, <<4>>),
     Op(3, "Permute", <<3>>, <<5>>), Op(4, "Add", <<4, 5>>, <<6>>),
     Op(5, "Linear", <<6, 3>>, <<7>>), Op(6, "Permute", <<7>>, <<9>>),
     Op(7, "Permute", <<9>>, <<10>>), Op(8, "Add", <<7, 4>>, <<8>>) >>)

(* F32 work another precision or implementation may take, and a value that *)
(* is rounded to BF16 on its way.                                          *)
Precise == Context(
  << Wide(In(<<2, 2>>)), Wide(Weight(<<2, 2>>)), Wide(Tmp(<<2, 2>>)), Wide(Out(<<2, 2>>)),
     Tmp(<<2, 2>>), Wide(Tmp(<<2, 2>>)) >>,
  << Op(1, "Linear", <<1, 2>>, <<3>>), Op(2, "Cast", <<3>>, <<5>>), Op(3, "Cast", <<5>>, <<6>>),
     Op(4, "Add", <<6, 6>>, <<4>>) >>)

(* Programs that are trained.  A frozen weight with a low-rank adapter that *)
(* reads the same value.                                                   *)
Sample  == Wide(In(<<1, 1>>))
Learned == Wide(Weight(<<1, 1>>))
Vector  == Wide(Weight(<<1>>))
Value1  == Wide(Tmp(<<1, 1>>))
Heads1  == Wide(Tmp(<<1, 1, 1>>))
Loss    == Wide(Out(<<1>>))

Adapter == Context(
  << Sample, Learned, Learned, Learned, Sample, Value1, Value1, Value1, Value1, Loss, Value1,
     Vector, Value1 >>,
  << Op(1, "SiLU", <<1>>, <<11>>), Op(2, "Linear", <<11, 2>>, <<6>>),
     Op(3, "Linear", <<11, 3>>, <<7>>), Op(4, "Linear", <<7, 4, 12>>, <<8>>),
     Op(5, "Add", <<6, 8>>, <<9>>), Op(6, "Add", <<9, 11>>, <<13>>),
     Op(7, "MseLoss", <<13, 5>>, <<10>>) >>)

(* An attention block with its gate.                                       *)
Block == Context(
  << Sample, Vector, Sample, Sample, Value1, Learned, Heads1, Vector, Learned, Learned, Heads1,
     Heads1, Learned, Value1, Sample, Value1, Sample, Loss >>,
  << Op(1, "RmsNormModulate", <<1, 2, 3, 4>>, <<5>>), Op(2, "Linear", <<5, 6>>, <<7>>),
     Op(3, "QkNormPartialRope", <<7, 8, 9, 10>>, <<11>>), Op(4, "Attention", <<11, 7, 7>>, <<12>>),
     Op(5, "Linear", <<12, 13>>, <<14>>), Op(6, "ResidualGate", <<1, 14, 15>>, <<16>>),
     Op(7, "MseLoss", <<16, 17>>, <<18>>) >>)

(* Mixed precision, a weight that is computed, a constant of the graph.    *)
Mixed == Context(
  << In(<<1, 1>>), Value1, Vector, Vector, Value1, Learned, Sample, Value1, Value1, Vector, Vector,
     Value1, Value1, Tmp(<<1, 1>>), In(<<1, 1>>), Loss, Value1, Value1, Value1 >>,
  << Op(1, "Cast", <<1>>, <<2>>), Op(2, "LayerNorm", <<2, 3, 4>>, <<5>>),
     Op(3, "Multiply", <<6, 7>>, <<8>>), Op(4, "Linear", <<5, 8>>, <<9>>),
     Op(5, "BiasAdd", <<9, 10>>, <<12>>), Op(6, "RmsNorm", <<12, 11>>, <<13>>),
     Op(7, "Fill", <<>>, <<17>>), Op(8, "Multiply", <<13, 17>>, <<18>>),
     Op(9, "SwiGlu", <<18>>, <<19>>), Op(10, "Cast", <<19>>, <<14>>),
     Op(11, "MseLoss", <<14, 15>>, <<16>>) >>)

(* Operations without a rule, one beside the path to the loss; one with    *)
(* two results that both reach it.                                         *)
Ruleless == Context(
  << Sample, Learned, Value1, Value1, Value1, Sample, Loss >>,
  << Op(1, "Linear", <<1, 2>>, <<3>>), Op(2, "Permute", <<3>>, <<4>>),
     Op(3, "Add", <<1, 3>>, <<5>>), Op(4, "MseLoss", <<5, 6>>, <<7>>) >>)
Permuted == [Ruleless EXCEPT !.ops[3].in = <<1, 4>>]
Halves == Context(
  << Wide(In(<<3, 1>>)), Value1, Value1, Value1, Value1, Sample, Loss >>,
  << Op(1, "H3DeinterleaveQkvWeight", <<1>>, <<2, 3, 4>>), Op(2, "Add", <<2, 3>>, <<5>>),
     Op(3, "MseLoss", <<5, 6>>, <<7>>) >>)

Train(c, loss, targets) == [c |-> c, loss |-> loss, targets |-> targets]
Trainings ==
  {Train(Adapter, 10, t) : t \in {<<3, 4, 12>>, <<1, 2, 3, 4>>, <<11, 10>>, <<3, 5>>, <<7, 3>>}} \cup
  {Train(Block, 18, t) : t \in {<<6, 13>>, <<1, 2, 3, 4, 8, 15>>, <<7, 12, 6>>, <<9>>}} \cup
  {Train(Mixed, 16, t) : t \in {<<3, 4, 6, 10>>, <<11, 1, 7>>, <<8, 17>>}} \cup
  {Train(c, 7, <<1>>) : c \in {Ruleless, Permuted, Halves}}

Options == [structural |-> TRUE, numeric |-> FALSE, memory |-> FALSE, arithmetic |-> FALSE,
            precisions |-> <<F32, BF16>>, max_precision_candidates |-> 2,
            prefetch_distances |-> <<1, 2>>]
NumericOnly == [Options EXCEPT !.structural = FALSE, !.numeric = TRUE]
MemoryOnly  == [Options EXCEPT !.structural = FALSE, !.memory = TRUE]
Both        == [Options EXCEPT !.numeric = TRUE]
Nothing     == [Options EXCEPT !.structural = FALSE]

Ask(c, options, objective) == [base |-> c, options |-> options, objective |-> objective]

MCRequests ==
  {Ask(c, Options, "memory") : c \in {Qkv, Biased, Heads, Casts, Late}} \cup
  {Ask(Late, MemoryOnly, "latency"), Ask(Precise, NumericOnly, "latency"),
   Ask(Precise, Both, "latency"), Ask(Biased, Both, "latency")} \cup
  {Ask(q.c, Nothing, "latency") : q \in Trainings}

(* The same with arithmetic folding allowed.                               *)
FoldingRequests == {Ask(Casts, [Options EXCEPT !.arithmetic = TRUE], "latency")}

(* What differentiate delivers for a program that is trained is the        *)
(* derivative of the loss: over every path, shared operands and frozen     *)
(* weights included, as a verified program whose gradients are declared    *)
(* like their primals; and it delivers unless a target has no path to the  *)
(* loss, or a path crosses an operation without a rule.                    *)
Leaves(c, k) == [t \in DOMAIN c.bindings |-> (t * t + k * t + 3) % Prime]
Trained == {[derived |-> Differentiate(q.c, q.loss, q.targets)] @@ q : q \in {r \in Trainings : r.c = base}}
Rules(c, loss) ==
  \A i \in Positions(c) :
    LET active == ToSet(c.ops[i].out) \cap Reaching(c, loss)
    IN  active # {} => c.ops[i].op \in Differentiable /\ Cardinality(active) = 1

GradientsAreDerivatives ==
  HandedIn =>
    \A r \in Trained :
      LET s == r.derived
          targets == ToSet(r.targets)
          alike(t, g) == DType(s.c, g) = DType(r.c, t) /\ Dims(s.c, g) = Dims(r.c, t)
      IN  /\ s.c.ok <=> Rules(r.c, r.loss) /\ targets \subseteq Reaching(r.c, r.loss)
          /\ s.c.ok => \A t \in targets : alike(t, s.gradients[t]) /\ Is(s.c, s.gradients[t], "Output")
          /\ s.c.ok => \A k \in {5, 8} :
               LET values == Evaluate(s.c, Leaves(r.c, k))
               IN  \A t \in targets :
                     values[s.gradients[t]] = Derivative(r.c, Leaves(r.c, k), r.loss, t)

(* The gradients are the same, bit by bit, for every topological order of  *)
(* the operations of the program (autodiff.cpp on multi-use gradients:     *)
(* "two topological orderings of the same forward program produce          *)
(* bit-identical gradients").                                              *)
Exact(r, s) == [t \in ToSet(r.targets) |-> Values(s.c, Given(s.c))[s.gradients[t]].exact]

GradientsIgnoreOrder ==
  HandedIn =>
    \A r \in Trained : r.derived.c.ok =>
      {Exact(r, Differentiate(d, r.loss, r.targets)) : d \in Reorderings(r.c)} = {Exact(r, r.derived)}
=============================================================================
