--------------------------- MODULE MCCpuExecution ---------------------------
(***************************************************************************)
(* Instance of CpuExecution: every opcode on small tensors, in the shapes  *)
(* its kernel treats differently, and what lies next to each of them: one  *)
(* extent or one numeric attribute more or less, or an attribute and an    *)
(* extent of a result one more, most of it to be refused.                  *)
(***************************************************************************)
EXTENDS CpuExecution

MCIndexValues == -2 .. 4

B(dims)  == Tensor("BF16", dims)
F(dims)  == Tensor("F32", dims)
I(dims)  == Tensor("I32", dims)
Byte(dims) == Tensor("I8", dims)
Fp8(dims)  == Tensor("FP8E4M3", dims)
Scale(dims) == Tensor("FP8E8M0", dims)
None == NoAttributes

(* Element by element.                                                     *)
Elementwise == LET m == B(<<2, 3>>)  f == F(<<2, 3>>) IN <<
  Op("Barrier", <<>>, <<>>, None),
  Op("Add", <<m, m>>, <<m>>, None), Op("Multiply", <<m, m>>, <<m>>, None),
  Op("Gelu", <<m>>, <<m>>, [Approximation |-> "Tanh"]), Op("Sigmoid", <<m>>, <<m>>, None),
  Op("Clamp", <<m>>, <<m>>, None), Op("SiLU", <<m>>, <<m>>, None),
  Op("Cast", <<m>>, <<f>>, None), Op("Fill", <<>>, <<m>>, None),
  Op("LinearBlend", <<m, m, F(<<1>>)>>, <<m>>, None),
  Op("FlowEulerStep", <<m, m, F(<<3>>), F(<<4>>)>>, <<m>>, [StepIndex |-> 2]),
  Op("EulerVelocityStep", <<m, m, F(<<1>>), F(<<1>>)>>, <<m>>, None),
  Op("SiLUBackward", <<m, m>>, <<m>>, None), Op("MseLoss", <<m, m>>, <<F(<<1>>)>>, None),
  Op("MseLossBackward", <<m, m, F(<<1>>)>>, <<m>>, None),
  Op("AdamWUpdate", <<m, m, f, f, I(<<1>>)>>, <<m, f, f>>, None) >>

(* Along the last axis, and rows that share a vector.                      *)
Rowwise == LET x == B(<<2, 2, 3>>)  v == B(<<3>>)  m == B(<<4, 2>>)  w == B(<<2>>)
              w2 == B(<<2, 2>>)  x6 == B(<<2, 2, 6>>) IN <<
  Op("AffineLastDim", <<x, v>>, <<x>>, None), Op("AffineLastDim", <<x, v, v>>, <<x>>, None),
  Op("BiasAdd", <<x, v>>, <<x>>, None), Op("BiasAdd", <<m, w>>, <<m>>, None),
  Op("BiasBackward", <<x>>, <<v>>, None), Op("BiasBackward", <<x>>, <<B(<<6>>)>>, None),
  Op("RmsNorm", <<x, v>>, <<x>>, None), Op("LayerNorm", <<x, v, v>>, <<x>>, None),
  Op("LayerNormModulate", <<x, v, v, B(<<2, 1, 3>>), B(<<2, 1, 3>>)>>, <<x>>, None),
  Op("RmsNormModulate", <<m, m, m>>, <<m>>, None), Op("RmsNormModulate", <<m, w, m, m>>, <<m>>, None),
  Op("RmsNormModulate", <<m, w, w2, B(<<2, 2>>)>>, <<m>>, [ModulationLayout |-> "SharedVectorDelta"]),
  Op("SwiGlu", <<x6>>, <<x>>, [GateFirst |-> TRUE]),
  Op("SwiGlu", <<B(<<2, 7>>)>>, <<B(<<2, 2>>)>>, [Start |-> 3, GateFirst |-> FALSE]),
  Op("ResidualGate", <<x, x, x>>, <<x>>, None), Op("ResidualGate", <<x, x, B(<<2, 1, 3>>)>>, <<x>>, None),
  Op("RmsNormBackward", <<x, x, v>>, <<x>>, None), Op("RmsNormBackward", <<x, x, v>>, <<x, v>>, None),
  Op("RmsNormModulateBackward", <<m, m, m>>, <<m, m, m>>, None),
  Op("RmsNormModulateBackward", <<m, m, w, m>>, <<m, m, m, w>>, None),
  Op("SwiGluBackward", <<B(<<2, 2>>), B(<<2, 7>>)>>, <<B(<<2, 7>>)>>, [Start |-> 3, GateFirst |-> TRUE]),
  Op("ResidualGateBackward", <<x, x, x>>, <<x, x>>, None),
  Op("LayerNormBackward", <<x, x, v>>, <<x, v, v>>, None),
  Op("ChannelRmsNorm", <<x, w>>, <<x>>, [Axis |-> 1]), Op("ChannelRmsNorm", <<x, v>>, <<x>>, [Axis |-> 2]),
  Op("GroupNorm", <<B(<<1, 4, 1, 2>>), B(<<4>>), B(<<4>>)>>, <<B(<<1, 4, 1, 2>>)>>, [Groups |-> 2]),
  Op("SnakeBeta", <<x, w, w>>, <<x>>, None) >>

(* Data that moves.                                                        *)
Moving == LET x == B(<<2, 3, 2>>)  m == B(<<3, 2>>)  v == B(<<1, 2, 2, 2, 4>>) IN <<
  Op("Reshape", <<x>>, <<B(<<4, 3>>)>>, None), Op("BroadcastTo", <<B(<<3, 1>>)>>, <<x>>, None),
  Op("Slice", <<x>>, <<B(<<2, 1, 2>>)>>, [Axis |-> 1, Start |-> 2]),
  Op("Permute", <<x>>, <<B(<<2, 2, 3>>)>>, [Permutation |-> <<2, 0, 1>>]),
  Op("Permute", <<x>>, <<B(<<3, 2, 2>>)>>, [Permutation |-> <<1, 0, 2>>]),
  Op("Concat", <<x, B(<<2, 1, 2>>), x>>, <<B(<<2, 7, 2>>)>>, [Axis |-> 1]),
  Op("Concat", <<m, B(<<3, 1>>)>>, <<B(<<3, 3>>)>>, [Axis |-> 1]),
  Op("Patchify3D", <<v>>, <<B(<<4, 8>>)>>, [PatchT |-> 2, PatchH |-> 1, PatchW |-> 2]),
  Op("Unpatchify3D", <<B(<<4, 8>>)>>, <<v>>, [PatchT |-> 1, PatchH |-> 2, PatchW |-> 2]),
  Op("GatherRows", <<m, I(<<2>>)>>, <<B(<<2, 2>>)>>, None),
  Op("IndexedUpdateRows", <<m, B(<<2, 2>>), I(<<3>>)>>, <<m>>, None),
  Op("SelectRowChunks", <<B(<<3, 4>>), I(<<2>>)>>, <<B(<<2, 2>>), B(<<2, 2>>)>>, None),
  Op("H3AdaLNSelect", <<B(<<1, 36>>), I(<<2>>)>>, [k \in 1 .. 6 |-> B(<<2, 2>>)], None),
  Op("H3DeinterleaveQkv", <<B(<<2, 12>>)>>, [k \in 1 .. 3 |-> B(<<2, 2, 2>>)], [Heads |-> 2, HeadDim |-> 2]),
  Op("H3DeinterleaveQkvWeight", <<B(<<12, 2>>)>>, [k \in 1 .. 3 |-> B(<<4, 2>>)], [Heads |-> 2, HeadDim |-> 2]),
  Op("PadConstant", <<B(<<1, 2, 2, 2>>)>>, <<B(<<1, 2, 3, 4>>)>>, [PadTop |-> 1, PadWest |-> 0, PadEast |-> 2]),
  Op("PadConstant", <<B(<<1, 1, 2, 2, 1>>)>>, <<B(<<1, 1, 5, 3, 1>>)>>, [PadFront |-> 2, PadBack |-> 1, PadBottom |-> 1]),
  Op("PadReflect", <<B(<<1, 2, 3, 3>>)>>, <<B(<<1, 2, 4, 7>>)>>, [PadTop |-> 1, PadWest |-> 2, PadEast |-> 2]),
  Op("PadReflect", <<B(<<1, 1, 3, 2, 2>>)>>, <<B(<<1, 1, 7, 2, 3>>)>>, [PadFront |-> 2, PadBack |-> 2, PadEast |-> 1]),
  Op("UpsampleNearest2d", <<B(<<1, 2, 1, 2>>)>>, <<B(<<1, 2, 2, 6>>)>>, [ScaleH |-> 2, ScaleW |-> 3]),
  Op("BooleanMaskToBias", <<Tensor("Bool", <<2, 3>>)>>, <<B(<<2, 1, 3, 3>>)>>, None),
  Op("BooleanMaskToBias", <<Tensor("Bool", <<2, 2, 2>>)>>, <<B(<<2, 1, 2, 2>>)>>, None) >>

(* Positions, rotations and attention.                                     *)
Rope(x, tables, attributes) == Op("QkNormPartialRope", <<x, Like(x, <<Back(x)>>), tables, tables>>, <<x>>, attributes)
Attend(q, k, attributes) == Op("Attention", <<q, k, k>>, <<q>>, attributes)
Sequences == LET q == B(<<2, 2, 2>>)  q4 == B(<<2, 2, 2, 2>>)  x == B(<<2, 2, 4>>) IN <<
  Op("SinusoidalTimestep", <<F(<<2>>)>>, <<F(<<2, 5>>)>>, [DownscaleFreqShift |-> 1]),
  Op("RotaryPosition", <<F(<<2, 2>>), F(<<3>>)>>, <<B(<<2, 12>>), B(<<2, 12>>)>>, None),
  Op("RotaryFrequency", <<F(<<2, 1, 2>>), I(<<1>>), I(<<1>>), I(<<2>>)>>, <<F(<<2, 1, 1>>), F(<<2, 1, 1>>)>>, None),
  Op("RotaryApply", <<B(<<2, 1, 2, 5>>), F(<<2, 1, 2>>), F(<<2, 1, 2>>)>>, <<B(<<2, 1, 2, 5>>)>>,
     [RotaryLayout |-> "Interleaved"]),
  Rope(x, B(<<2, 2>>), [RotaryDim |-> 2]), Rope(x, B(<<2, 2>>), [RotaryDim |-> 4]),
  Rope(x, F(<<3, 4>>), [RotaryDim |-> 4, Start |-> 1]),
  Rope(B(<<2, 2, 1, 6>>), B(<<2, 4, 2>>), [RotaryDim |-> 4, Start |-> 1]),
  Rope(B(<<2, 1, 6>>), F(<<1, 2, 2>>), [RotaryDim |-> 4, Implementation |-> 2, RotaryLayout |-> "Interleaved"]),
  Op("QkNormPartialRopeBackward", <<x, x, B(<<4>>), B(<<2, 1>>), B(<<2, 1>>)>>, <<x, B(<<4>>)>>, [RotaryDim |-> 2]),
  Attend(q, q, [Causal |-> TRUE]), Attend(q, B(<<2, 1, 2>>), [KvHeads |-> 1, Causal |-> FALSE]),
  Attend(B(<<2, 4, 1>>), B(<<2, 2, 1>>), [KvHeads |-> 2, Causal |-> TRUE]),
  Attend(q4, B(<<2, 2, 1, 2>>), [Implementation |-> 2, KvHeads |-> 1, Causal |-> TRUE]),
  Op("Attention", <<q4, q4, q4, B(<<2, 1, 2, 2>>)>>, <<q4>>, [Implementation |-> 2, Causal |-> FALSE]),
  Op("AttentionLse", <<B(<<2, 4, 1>>), B(<<2, 2, 1>>)>>, <<F(<<2, 4>>)>>, [KvHeads |-> 2, Causal |-> TRUE]),
  Op("AttentionBackward", <<q, q, B(<<2, 1, 2>>), B(<<2, 1, 2>>), q, F(<<2, 2>>)>>,
     <<q, B(<<2, 1, 2>>), B(<<2, 1, 2>>)>>, [KvHeads |-> 1, Causal |-> TRUE]) >>

(* Products, plain and of quantized operands.                              *)
Products == LET x == B(<<3, 2>>)  w == B(<<4, 2>>)  y == B(<<3, 4>>) IN <<
  Op("Linear", <<x, w>>, <<y>>, None), Op("Linear", <<x, w, B(<<4>>)>>, <<y>>, None),
  Op("Linear", <<B(<<2, 2, 2>>), B(<<3, 4>>)>>, <<B(<<2, 3>>)>>, None),
  Op("Linear", <<F(<<2, 3>>), F(<<4, 3>>)>>, <<F(<<2, 2, 2>>)>>, [Implementation |-> 2]),
  Op("LinearBackwardInput", <<y, w>>, <<x>>, None),
  Op("LinearBackwardInput", <<B(<<2, 2, 3>>), B(<<3, 2>>)>>, <<B(<<2, 2, 2>>)>>, None),
  Op("LinearBackwardWeight", <<y, x>>, <<w>>, None),
  Op("LinearBackwardWeight", <<B(<<2, 2, 3>>), B(<<2, 2, 2>>)>>, <<B(<<3, 2>>)>>, None),
  Op("QuantizeInt8Rows", <<B(<<2, 3>>)>>, <<Byte(<<2, 3>>), F(<<2>>)>>, None),
  Op("QuantizeInt8Rows", <<B(<<2, 3>>), B(<<2, 2>>), F(<<1>>)>>, <<Byte(<<2, 5>>), F(<<2>>)>>, None),
  Op("QuantizeInt8Rows", <<B(<<2, 2>>), B(<<2, 1>>), B(<<2, 2>>)>>,
     <<Byte(<<2, 5>>), F(<<2>>), Byte(<<2, 5>>), F(<<2>>)>>, None),
  Op("QuantizeInt8Rows", <<B(<<1, 256>>)>>, <<Byte(<<1, 256>>), F(<<1>>)>>, [Implementation |-> "H256ConvRot"]),
  Op("LinearInt8Scaled", <<Byte(<<2, 1, 3>>), Byte(<<4, 3>>), F(<<2>>), F(<<4>>)>>, <<B(<<2, 1, 4>>)>>, None),
  Op("LinearInt8WeightScaled", <<B(<<2, 3>>), Byte(<<4, 3>>), F(<<4>>)>>, <<B(<<2, 4>>)>>, None),
  Op("QuantizeFp8Rows", <<B(<<2, 3>>)>>, <<Fp8(<<2, 3>>), F(<<2>>)>>, None),
  Op("LinearFp8Scaled", <<Fp8(<<2, 3>>), Fp8(<<4, 3>>), F(<<2>>), F(<<4>>)>>, <<B(<<2, 4>>)>>, None),
  Op("QuantizeFp8Blocks32", <<B(<<129, 2>>)>>, <<Fp8(<<129, 2>>), Scale(<<256, 4>>)>>, None),
  Op("QuantizeFp8Blocks32", <<B(<<2, 130>>)>>, <<Fp8(<<2, 130>>), Scale(<<128, 8>>)>>, None),
  Op("LinearFp8BlockScaled", <<Fp8(<<34, 33>>), Fp8(<<2, 33>>), Scale(<<128, 4>>), Scale(<<128, 4>>)>>,
     <<B(<<34, 2>>)>>, None),
  Op("DequantizeInt8Blocks", <<Byte(<<2, 5>>), F(<<2, 3>>)>>, <<B(<<2, 5>>)>>, [BlockSize |-> 2]),
  Op("DequantizeInt4", <<Byte(<<2, 16>>), B(<<2, 2>>)>>, <<B(<<2, 32>>)>>, [GroupSize |-> 16]),
  Op("DequantizeInt4", <<Byte(<<1, 16>>), B(<<1, 2>>), Byte(<<1, 2>>), B(<<1, 2>>)>>, <<B(<<1, 32>>)>>, [GroupSize |-> 16]),
  Op("DequantizeInt5", <<Byte(<<2, 10>>), B(<<2, 1>>), B(<<16>>)>>, <<B(<<2, 16>>)>>, [GroupSize |-> 16]) >>

(* Convolutions.                                                           *)
Convolutions == LET x == B(<<1, 2, 4>>) IN <<
  Op("Conv1d", <<x, B(<<2, 2, 2>>), B(<<2>>)>>, <<B(<<1, 2, 5>>)>>, [PadLeft |-> 1, PadRight |-> 1]),
  Op("Conv1d", <<x, B(<<4, 1, 2>>)>>, <<B(<<1, 4, 2>>)>>,
     [PadLeft |-> 1, PadRight |-> 0, PadMode |-> 1, Groups |-> 2, Stride |-> 2, Dilation |-> 2]),
  Op("Conv1d", <<B(<<2, 2, 3>>), B(<<2, 2, 3>>), B(<<4>>)>>, <<B(<<2, 4, 5>>)>>,
     [Transposed |-> TRUE, Groups |-> 2, Stride |-> 2, TrimLeft |-> 1, TrimRight |-> 1]),
  Op("Conv1d", <<B(<<1, 4, 2>>), B(<<4, 1, 4>>)>>, <<B(<<1, 2, 4>>)>>,
     [Transposed |-> TRUE, Groups |-> 2, Stride |-> 2, TrimLeft |-> 2, TrimRight |-> 0]),
  Op("Conv1d", <<B(<<1, 1, 2>>), B(<<1, 2, 2>>)>>, <<B(<<1, 2, 7>>)>>,
     [Transposed |-> TRUE, PadMode |-> 1, PadLeft |-> 1, PadRight |-> 1, Stride |-> 2, TrimLeft |-> 1]),
  Op("Conv2d", <<B(<<2, 2, 3, 2>>), B(<<2, 2, 2, 2>>), B(<<2>>)>>, <<B(<<2, 2, 3, 3>>)>>,
     [PadTop |-> 1, PadWest |-> 1, PadEast |-> 1]),
  Op("Conv2d", <<B(<<1, 4, 3, 4>>), B(<<2, 2, 2, 2>>)>>, <<B(<<1, 2, 2, 3>>)>>,
     [Groups |-> 2, StrideH |-> 2, DilationW |-> 2, PadTop |-> 1, PadBottom |-> 1, PadWest |-> 1]),
  Op("Conv3d", <<B(<<1, 2, 2, 2, 3>>), B(<<2, 1, 2, 1, 2>>)>>, <<B(<<1, 2, 2, 2, 2>>)>>,
     [Groups |-> 2, PadFront |-> 1, StrideW |-> 2, PadEast |-> 1]) >>

-----------------------------------------------------------------------------
Seeds == Elementwise \o Rowwise \o Moving \o Sequences \o Products \o Convolutions

Numeric(op) ==
  DOMAIN op.attributes \ {"Approximation", "ModulationLayout", "GateFirst", "Permutation", "RotaryLayout",
                          "Causal", "Transposed", "Implementation"}
Around(n) == {n + 1} \cup (IF n = 0 THEN {} ELSE {n - 1})

Resized(tensors) ==
  UNION {UNION {{[tensors EXCEPT ![k].dims[a] = n] : n \in Around(tensors[k].dims[a])} :
                a \in DOMAIN tensors[k].dims} : k \in DOMAIN tensors}

Grown(op) ==
  UNION {UNION {{[op EXCEPT !.attributes[key] = @ + 1, !.outputs[k].dims[a] = @ + 1] :
                 a \in DOMAIN op.outputs[k].dims} : k \in DOMAIN op.outputs} : key \in Numeric(op)}

Near(op) ==
  {op} \cup {[op EXCEPT !.inputs = tensors] : tensors \in Resized(op.inputs)}
       \cup {[op EXCEPT !.outputs = tensors] : tensors \in Resized(op.outputs)}
       \cup UNION {{[op EXCEPT !.attributes[key] = n] : n \in Around(op.attributes[key])} :
                   key \in Numeric(op)}
       \cup Grown(op)

MCOperations == [i \in DOMAIN Seeds |-> Near(Seeds[i])]

(* A rotation of neighbours, which the gradient takes for one of halves.   *)
InterleavedOperations ==
  <<{Rope(B(<<1, 1, 4>>), B(<<1, 2>>), [RotaryDim |-> 4, Implementation |-> 2, RotaryLayout |-> "Interleaved"])}>>
=============================================================================
