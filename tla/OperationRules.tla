--------------------------- MODULE OperationRules ---------------------------
(***************************************************************************)
(* ir/verify.cpp: what verify() demands of one operation before a program  *)
(* may be executed, one definition per opcode.  An operation is a record   *)
(*   opcode            the name of its ir::Opcode                          *)
(*   inputs, outputs   the descriptors of its operands, in order           *)
(*   attributes        a function from the keys it carries to values       *)
(* and a descriptor is [dtype, dims].  Operands and axes are counted from  *)
(* zero, as in the source.  Left out: numeric attributes that no kernel    *)
(* uses as an index (epsilon, learning rates, reduction geometry), guards  *)
(* of products against 2^64, and the roles of the operands.                *)
(***************************************************************************)
EXTENDS Integers, Sequences, SequencesExt

Tensor(dtype, dims) == [dtype |-> dtype, dims |-> dims]

In(op, k)  == op.inputs[k + 1]
Out(op, k) == op.outputs[k + 1]
Has(op, key) == key \in DOMAIN op.attributes
Attr(op, key, default) == IF Has(op, key) THEN op.attributes[key] ELSE default

Rank(t)     == Len(t.dims)
Dim(t, a)   == t.dims[a + 1]
Back(t)     == Last(t.dims)
Count(dims) == FoldLeft(LAMBDA n, d : n * d, 1, dims)
Size(t)     == Count(t.dims)
Lines(t)    == Size(t) \div Back(t)       \* rows of the flattened tensor

Axes(t)    == 0 .. Rank(t) - 1
Tails(a, b) == SubSeq(a.dims, 2, Rank(a)) = SubSeq(b.dims, 2, Rank(b))
Leads(a, b) == Front(a.dims) = Front(b.dims)

Float(t)        == t.dtype \in {"F32", "BF16", "F16"}
Vector(dtype, n) == Tensor(dtype, <<n>>)
Scalar(dtype)    == Vector(dtype, 1)
Like(t, dims)    == Tensor(t.dtype, dims)
Ceil(n, m)       == (n + m - 1) \div m
Padded(n, m)     == Ceil(n, m) * m

Arity(op, inputs, outputs) == Len(op.inputs) = inputs /\ Len(op.outputs) = outputs
Arities(op, inputs, outputs) == Len(op.inputs) \in inputs /\ Len(op.outputs) \in outputs

-----------------------------------------------------------------------------
(* Element by element.                                                     *)
BarrierRule(op) == Arity(op, 0, 0)

ElementwiseRule(op) ==
  /\ Arity(op, 2, 1)
  /\ In(op, 1) = In(op, 0) /\ Out(op, 0) = In(op, 0) /\ Float(In(op, 0))

GeluRule(op) ==
  /\ Arity(op, 1, 1)
  /\ Out(op, 0) = In(op, 0) /\ Float(In(op, 0))
  /\ Attr(op, "Approximation", "none") \in {"Tanh", "ExactErf"}

SigmoidRule(op) == Arity(op, 1, 1) /\ Out(op, 0) = In(op, 0) /\ Float(In(op, 0))
ClampRule(op)   == Arity(op, 1, 1) /\ Out(op, 0) = In(op, 0) /\ Float(In(op, 0))
SiLURule(op)    == Arity(op, 1, 1) /\ Out(op, 0) = In(op, 0) /\ Float(In(op, 0))

CastRule(op) ==
  /\ Arity(op, 1, 1)
  /\ Float(In(op, 0)) /\ Float(Out(op, 0))
  /\ In(op, 0).dtype # Out(op, 0).dtype /\ In(op, 0).dims = Out(op, 0).dims

FillRule(op) == Arity(op, 0, 1) /\ Float(Out(op, 0))

LinearBlendRule(op) ==
  /\ Arity(op, 3, 1)
  /\ In(op, 1) = In(op, 0) /\ Out(op, 0) = In(op, 0)
  /\ Float(In(op, 0)) /\ In(op, 2) = Scalar("F32")

FlowEulerStepRule(op) ==
  /\ Arity(op, 4, 1)
  /\ In(op, 1) = In(op, 0) /\ Out(op, 0) = In(op, 0) /\ Float(In(op, 0))
  /\ In(op, 2) = Vector("F32", Dim(In(op, 2), 0))
  /\ In(op, 3) = Vector("F32", Dim(In(op, 2), 0) + 1)
  /\ Has(op, "StepIndex") /\ Attr(op, "StepIndex", 0) < Dim(In(op, 2), 0)

EulerVelocityStepRule(op) ==
  /\ Arity(op, 4, 1)
  /\ In(op, 1) = In(op, 0) /\ Out(op, 0) = In(op, 0) /\ Float(In(op, 0))
  /\ In(op, 2) = Scalar("F32") /\ In(op, 3) = Scalar("F32")

SiLUBackwardRule(op) ==
  /\ Arity(op, 2, 1)
  /\ In(op, 1) = In(op, 0) /\ Out(op, 0) = In(op, 0) /\ Float(In(op, 0))

MseLossRule(op) ==
  /\ Arity(op, 2, 1)
  /\ In(op, 1) = In(op, 0) /\ Float(In(op, 0)) /\ Out(op, 0) = Scalar("F32")

MseLossBackwardRule(op) ==
  /\ Arity(op, 3, 1)
  /\ In(op, 1) = In(op, 0) /\ Out(op, 0) = In(op, 0)
  /\ Float(In(op, 0)) /\ In(op, 2) = Scalar("F32")

(* Storage may be narrow, the moments are F32 always.                      *)
AdamWUpdateRule(op) ==
  LET parameter == In(op, 0)
      moment == Tensor("F32", parameter.dims)
  IN  /\ Arity(op, 5, 3)
      /\ {parameter.dtype, In(op, 1).dtype} \subseteq {"F32", "BF16"}
      /\ In(op, 1).dims = parameter.dims /\ Out(op, 0) = parameter
      /\ {In(op, 2), In(op, 3), Out(op, 1), Out(op, 2)} = {moment}
      /\ In(op, 4) = Scalar("I32")

-----------------------------------------------------------------------------
(* Along the last axis.                                                    *)
AffineLastDimRule(op) ==
  LET input == In(op, 0)
  IN  /\ Arities(op, {2, 3}, {1})
      /\ Out(op, 0) = input /\ Float(input)
      /\ \A k \in 1 .. Len(op.inputs) - 1 : In(op, k) = Like(input, <<Back(input)>>)

BiasAddRule(op) ==
  /\ Arity(op, 2, 1)
  /\ Out(op, 0) = In(op, 0) /\ Float(In(op, 0))
  /\ In(op, 1) = Like(In(op, 0), <<Back(In(op, 0))>>)

BiasBackwardRule(op) ==
  LET grad_output == In(op, 0)
      grad_bias == Out(op, 0)
  IN  /\ Arity(op, 1, 1)
      /\ Float(grad_output) /\ grad_bias.dtype = grad_output.dtype /\ Rank(grad_bias) = 1
      /\ Dim(grad_bias, 0) \in {Back(grad_output), Size(grad_output) \div Dim(grad_output, 0)}

RmsNormRule(op) ==
  LET input == In(op, 0)
      implementation == Attr(op, "Implementation", 1)
  IN  /\ Arity(op, 2, 1)
      /\ Out(op, 0) = input /\ Float(input) /\ In(op, 1) = Like(input, <<Back(input)>>)
      /\ \/ implementation = 1
         \/ implementation = 2 /\ input.dtype = "BF16" /\ Back(input) = 128

LayerNormRule(op) ==
  LET affine == Like(In(op, 0), <<Back(In(op, 0))>>)
  IN  /\ Arity(op, 3, 1)
      /\ Out(op, 0) = In(op, 0) /\ Float(In(op, 0))
      /\ In(op, 1) = affine /\ In(op, 2) = affine

(* Rows of scale and shift repeat over equally many rows of the input.     *)
LayerNormModulateRule(op) ==
  LET input == In(op, 0)
      scale == In(op, 3)
      affine == Like(input, <<Back(input)>>)
  IN  /\ Arity(op, 5, 1)
      /\ Out(op, 0) = input /\ Float(input)
      /\ In(op, 1) = affine /\ In(op, 2) = affine
      /\ scale.dtype = input.dtype /\ In(op, 4) = scale /\ Back(scale) = Back(input)
      /\ Lines(input) % Lines(scale) = 0

SharedVector(op) == Attr(op, "ModulationLayout", "ExplicitScaleShift") = "SharedVectorDelta"

RmsNormModulateRule(op) ==
  LET x == In(op, 0)
      hidden == Dim(x, 1)
      vector == In(op, 2)
  IN  /\ Arities(op, {3, 4}, {1})
      /\ Out(op, 0) = x /\ Float(x) /\ Rank(x) = 2
      /\ Len(op.inputs) = 4 => In(op, 1) = Like(x, <<hidden>>)
      /\ IF SharedVector(op)
         THEN /\ Len(op.inputs) = 4
              /\ vector.dtype = x.dtype /\ Rank(vector) = 2 /\ Dim(vector, 1) = hidden
              /\ Dim(x, 0) % Dim(vector, 0) = 0
              /\ In(op, 3) = Like(x, <<2, hidden>>)
         ELSE \A k \in Len(op.inputs) - 2 .. Len(op.inputs) - 1 : In(op, k) = x

SwiGluRule(op) ==
  LET input == In(op, 0)
      out == Out(op, 0)
  IN  /\ Arity(op, 1, 1)
      /\ Float(input) /\ out.dtype = input.dtype /\ Rank(out) = Rank(input)
      /\ Leads(input, out)
      /\ Attr(op, "Start", 0) + 2 * Back(out) <= Back(input)

ResidualGateRule(op) ==
  LET residual == In(op, 0)
      gate == In(op, 2)
  IN  /\ Arity(op, 3, 1)
      /\ In(op, 1) = residual /\ Out(op, 0) = residual /\ Float(residual)
      /\ gate.dtype = residual.dtype /\ Back(gate) = Back(residual)
      /\ Lines(residual) % Lines(gate) = 0

RmsNormBackwardRule(op) ==
  LET input == In(op, 1)
      weight == In(op, 2)
  IN  /\ Arities(op, {3}, {1, 2})
      /\ In(op, 0) = input /\ Out(op, 0) = input /\ Float(input)
      /\ weight = Like(input, <<Back(input)>>)
      /\ Len(op.outputs) = 2 => Out(op, 1) = weight

RmsNormModulateBackwardRule(op) ==
  LET x == In(op, 1)
      weighted == Len(op.inputs) = 4
      weight == Like(x, <<Dim(x, 1)>>)
  IN  /\ Arities(op, {3, 4}, {Len(op.inputs)})
      /\ Float(x) /\ Rank(x) = 2
      /\ {In(op, 0), In(op, IF weighted THEN 3 ELSE 2),
          Out(op, 0), Out(op, 1), Out(op, 2)} = {x}
      /\ weighted => In(op, 2) = weight /\ Out(op, 3) = weight

SwiGluBackwardRule(op) ==
  LET grad_output == In(op, 0)
      input == In(op, 1)
  IN  /\ Arity(op, 2, 1)
      /\ Out(op, 0) = input /\ Float(input)
      /\ grad_output.dtype = input.dtype /\ Rank(grad_output) = Rank(input)
      /\ Leads(input, grad_output)
      /\ Attr(op, "Start", 0) + 2 * Back(grad_output) <= Back(input)

ResidualGateBackwardRule(op) ==
  /\ Arity(op, 3, 2)
  /\ {In(op, 1), In(op, 2), Out(op, 0), Out(op, 1)} = {In(op, 0)} /\ Float(In(op, 0))

LayerNormBackwardRule(op) ==
  LET input == In(op, 1)
  IN  /\ Arity(op, 3, 3)
      /\ In(op, 0) = input /\ Out(op, 0) = input /\ Float(input)
      /\ {In(op, 2), Out(op, 1), Out(op, 2)} = {Like(input, <<Back(input)>>)}

-----------------------------------------------------------------------------
(* Data that moves.                                                        *)
ReshapeRule(op) ==
  /\ Arity(op, 1, 1)
  /\ Float(In(op, 0)) /\ Out(op, 0).dtype = In(op, 0).dtype /\ Size(Out(op, 0)) = Size(In(op, 0))

(* Axes are aligned at the last one.                                       *)
BroadcastToRule(op) ==
  LET input == In(op, 0)
      out == Out(op, 0)
      pad == Rank(out) - Rank(input)
  IN  /\ Arity(op, 1, 1)
      /\ Float(input) /\ out.dtype = input.dtype /\ pad >= 0
      /\ \A a \in Axes(input) : Dim(input, a) \in {1, Dim(out, pad + a)}

Elsewhere(a, b, axis) == \A k \in Axes(a) \ {axis} : Dim(a, k) = Dim(b, k)

SliceRule(op) ==
  LET input == In(op, 0)
      out == Out(op, 0)
      axis == Attr(op, "Axis", 0)
  IN  /\ Arity(op, 1, 1)
      /\ Float(input) /\ out.dtype = input.dtype /\ Rank(out) = Rank(input)
      /\ Has(op, "Axis") /\ Has(op, "Start") /\ axis < Rank(input)
      /\ Attr(op, "Start", 0) + Dim(out, axis) <= Dim(input, axis)
      /\ Elsewhere(input, out, axis)

(* Attributes Permutation0, Permutation1, ... are one sequence here.       *)
PermuteRule(op) ==
  LET input == In(op, 0)
      out == Out(op, 0)
      permutation == Attr(op, "Permutation", <<>>)
  IN  /\ Arity(op, 1, 1)
      /\ Float(input) /\ out.dtype = input.dtype /\ Rank(out) = Rank(input)
      /\ Len(permutation) >= Rank(out)
      /\ {permutation[a + 1] : a \in Axes(out)} = Axes(input)
      /\ \A a \in Axes(out) : Dim(out, a) = Dim(input, permutation[a + 1])

ConcatRule(op) ==
  LET first == In(op, 0)
      axis == Attr(op, "Axis", 0)
      joined == FoldLeft(LAMBDA n, t : n + Dim(t, axis), 0, op.inputs)
  IN  /\ Len(op.inputs) >= 2 /\ Len(op.outputs) = 1
      /\ Has(op, "Axis") /\ axis < Rank(first)
      /\ Float(first) /\ Out(op, 0).dtype = first.dtype
      /\ \A t \in ToSet(op.inputs) :
            t.dtype = first.dtype /\ Rank(t) = Rank(first) /\ Elsewhere(first, t, axis)
      /\ Out(op, 0).dims = [first.dims EXCEPT ![axis + 1] = joined]

(* [B,C,T,H,W] and the rows of its patches.                                *)
Patch(op) == <<Attr(op, "PatchT", 0), Attr(op, "PatchH", 0), Attr(op, "PatchW", 0)>>

PatchifyRule(op) ==
  LET volume == IF op.opcode = "Patchify3D" THEN In(op, 0) ELSE Out(op, 0)
      rows == IF op.opcode = "Patchify3D" THEN Out(op, 0) ELSE In(op, 0)
      columns == Dim(volume, 1) * Count(Patch(op))
  IN  /\ Arity(op, 1, 1)
      /\ Float(volume) /\ rows.dtype = volume.dtype /\ Rank(volume) = 5
      /\ 0 \notin ToSet(Patch(op))
      /\ \A k \in 1 .. 3 : volume.dims[k + 2] % Patch(op)[k] = 0
      /\ rows.dims = <<Size(volume) \div columns, columns>>

GatherRowsRule(op) ==
  LET input == In(op, 0)
      out == Out(op, 0)
  IN  /\ Arity(op, 2, 1)
      /\ Float(input) /\ Rank(input) >= 2 /\ In(op, 1) = Vector("I32", Dim(out, 0))
      /\ out.dtype = input.dtype /\ Rank(out) = Rank(input) /\ Tails(input, out)

IndexedUpdateRowsRule(op) ==
  LET base == In(op, 0)
      updates == In(op, 1)
  IN  /\ Arity(op, 3, 1)
      /\ Out(op, 0) = base /\ Float(base) /\ Rank(base) >= 2
      /\ updates.dtype = base.dtype /\ Rank(updates) = Rank(base) /\ Tails(base, updates)
      /\ In(op, 2) = Vector("I32", Dim(base, 0))

(* Rows of n chunks, one chunk per output.                                 *)
Chunked(op, n) ==
  LET values == In(op, 0)
      first == Out(op, 0)
  IN  /\ Float(values) /\ Rank(values) = 2
      /\ first.dtype = values.dtype /\ Rank(first) = 2
      /\ In(op, 1) = Vector("I32", Dim(first, 0))
      /\ Dim(values, 1) = n * Dim(first, 1)
      /\ ToSet(op.outputs) = {first}

SelectRowChunksRule(op) == Arities(op, {2}, 1 .. 8) /\ Chunked(op, Len(op.outputs))
H3AdaLNSelectRule(op)   == Arity(op, 2, 6) /\ Chunked(op, 18)

H3DeinterleaveQkvRule(op) ==
  LET packed == In(op, 0)
      q == Out(op, 0)
  IN  /\ Arity(op, 1, 3)
      /\ ToSet(op.outputs) = {q}
      /\ Float(packed) /\ q.dtype = packed.dtype /\ Rank(q) = 3
      /\ packed.dims = <<Dim(q, 0), 3 * Dim(q, 1) * Dim(q, 2)>>
      /\ Attr(op, "Heads", Dim(q, 1)) = Dim(q, 1) /\ Attr(op, "HeadDim", Dim(q, 2)) = Dim(q, 2)

H3DeinterleaveQkvWeightRule(op) ==
  LET packed == In(op, 0)
      q == Out(op, 0)
  IN  /\ Arity(op, 1, 3)
      /\ ToSet(op.outputs) = {q}
      /\ Float(packed) /\ q.dtype = packed.dtype /\ Rank(q) = 2
      /\ packed.dims = <<3 * Dim(q, 0), Dim(q, 1)>>
      /\ Dim(q, 0) = Attr(op, "Heads", 0) * Attr(op, "HeadDim", 0)

(* Depth, height and width; an image has no depth, or one of one.          *)
Extents(t) == 6 - Rank(t) .. 3
Before(op) == <<Attr(op, "PadFront", 0), Attr(op, "PadTop", 0), Attr(op, "PadWest", 0)>>
After(op)  == <<Attr(op, "PadBack", 0), Attr(op, "PadBottom", 0), Attr(op, "PadEast", 0)>>
Spatial(t) == LET last == SubSeq(t.dims, 3, Rank(t))
              IN  IF Rank(t) = 4 THEN <<1>> \o last ELSE last

Extended(op) ==
  LET input == In(op, 0)
      extended == [k \in 1 .. 3 |-> Before(op)[k] + Spatial(input)[k] + After(op)[k]]
  IN  /\ Arity(op, 1, 1)
      /\ Float(input) /\ Rank(input) \in {4, 5} /\ Rank(Out(op, 0)) = Rank(input)
      /\ Out(op, 0).dtype = input.dtype
      /\ Rank(input) = 4 => Before(op)[1] = 0 /\ After(op)[1] = 0
      /\ Out(op, 0).dims = SubSeq(input.dims, 1, 2) \o SubSeq(extended, 6 - Rank(input), 3)

PadConstantRule(op) == Extended(op)
(* A mutant lets the pad be as long as the extent it reflects.             *)
PadReflectRule_Mutant(op) ==
  /\ Extended(op)
  /\ \A k \in Extents(In(op, 0)) :
        Before(op)[k] <= Spatial(In(op, 0))[k] /\ After(op)[k] <= Spatial(In(op, 0))[k]
PadReflectRule(op) ==
  /\ Extended(op)
  /\ \A k \in Extents(In(op, 0)) :
        Before(op)[k] < Spatial(In(op, 0))[k] /\ After(op)[k] < Spatial(In(op, 0))[k]

UpsampleNearest2dRule(op) ==
  LET input == In(op, 0)
      scale_h == Attr(op, "ScaleH", 1)
      scale_w == Attr(op, "ScaleW", 1)
  IN  /\ Arity(op, 1, 1)
      /\ Float(input) /\ Rank(input) = 4 /\ scale_h > 0 /\ scale_w > 0
      /\ Out(op, 0) = Like(input, <<Dim(input, 0), Dim(input, 1), Dim(input, 2) * scale_h,
                                    Dim(input, 3) * scale_w>>)

BooleanMaskToBiasRule(op) ==
  LET mask == In(op, 0)
      length == Dim(mask, 1)
  IN  /\ Arity(op, 1, 1)
      /\ mask.dtype = "Bool" /\ Rank(mask) \in {2, 3} /\ Float(Out(op, 0))
      /\ Rank(mask) = 3 => Dim(mask, 2) = length
      /\ Out(op, 0).dims = <<Dim(mask, 0), 1, length, length>>

-----------------------------------------------------------------------------
(* Positions and rotations.                                                *)
SinusoidalTimestepRule(op) ==
  LET out == Out(op, 0)
  IN  /\ Arity(op, 1, 1)
      /\ In(op, 0) = Vector("F32", Dim(out, 0))
      /\ out.dtype = "F32" /\ Rank(out) = 2 /\ Dim(out, 1) >= 2
      /\ Dim(out, 1) \div 2 > Attr(op, "DownscaleFreqShift", 1)

RotaryPositionRule(op) ==
  LET positions == In(op, 0)
      inv_freq == In(op, 1)
      cosine == Out(op, 0)
  IN  /\ Arity(op, 2, 2)
      /\ positions.dtype = "F32" /\ Rank(positions) = 2
      /\ inv_freq = Vector("F32", Dim(inv_freq, 0))
      /\ Float(cosine) /\ Out(op, 1) = cosine
      /\ cosine.dims = <<Dim(positions, 0), 2 * Dim(positions, 1) * Dim(inv_freq, 0)>>

RotaryFrequencyRule(op) ==
  LET positions == In(op, 0)
      pairs == Dim(In(op, 1), 0)
      table == Tensor("F32", <<Dim(positions, 0), Dim(positions, 1), pairs>>)
  IN  /\ Arity(op, 4, 2)
      /\ positions.dtype = "F32" /\ Rank(positions) = 3
      /\ In(op, 1) = Vector("I32", pairs) /\ In(op, 2) = In(op, 1)
      /\ In(op, 3) = Vector("I32", Dim(positions, 2))
      /\ Out(op, 0) = table /\ Out(op, 1) = table

RotaryApplyRule(op) ==
  LET input == In(op, 0)
      cosine == In(op, 1)
  IN  /\ Arity(op, 3, 1)
      /\ Out(op, 0) = input /\ Float(input) /\ Rank(input) = 4
      /\ cosine.dtype = "F32" /\ Rank(cosine) = 3 /\ In(op, 2) = cosine
      /\ SubSeq(cosine.dims, 1, 2) = SubSeq(input.dims, 1, 2)
      /\ 2 * Dim(cosine, 2) <= Dim(input, 3)
      /\ Attr(op, "RotaryLayout", "Unspecified") = "Interleaved"

(* [S,H,D] or [B,S,H,D], and tables [S,W] or [B,S,W] of which the rows     *)
(* from Start are used; W is the rotated width or half of it.              *)
Outer(t, inner) == IF Rank(t) = inner + 1 THEN Dim(t, 0) ELSE 1
Sequence(t)     == Dim(t, Rank(t) - 3)
Heads(t)        == Dim(t, Rank(t) - 2)

Rotates(rotary, head_dim, width) ==
  /\ rotary \in 1 .. head_dim /\ rotary % 2 = 0
  /\ width = rotary \/ 2 * width = rotary

QkNormPartialRopeRule(op) ==
  LET input == In(op, 0)
      cos == In(op, 2)
      width == Back(cos)
  IN  /\ Arity(op, 4, 1)
      /\ Out(op, 0) = input /\ Float(input) /\ Rank(input) \in {3, 4}
      /\ In(op, 1) = Like(input, <<Back(input)>>)
      /\ cos.dtype \in {input.dtype, "F32"} /\ In(op, 3) = cos
      /\ IF Rank(input) = 4 THEN Rank(cos) = 3
         ELSE Rank(cos) = 2 \/ (Rank(cos) = 3 /\ Dim(cos, 0) = 1)
      /\ Attr(op, "Heads", Heads(input)) = Heads(input)
      /\ Attr(op, "HeadDim", Back(input)) = Back(input)
      /\ Outer(cos, 2) = Outer(input, 3)
      /\ Attr(op, "Start", 0) + Sequence(input) <= Dim(cos, Rank(cos) - 2)
      /\ Rotates(Attr(op, "RotaryDim", 2 * width), Back(input), width)

QkNormPartialRopeBackwardRule(op) ==
  LET input == In(op, 1)
      weight == In(op, 2)
      cos == In(op, 3)
  IN  /\ Arities(op, {5}, {1, 2})
      /\ In(op, 0) = input /\ Out(op, 0) = input /\ Float(input) /\ Rank(input) = 3
      /\ weight = Like(input, <<Dim(input, 2)>>)
      /\ cos.dtype = input.dtype /\ Rank(cos) = 2 /\ In(op, 4) = cos
      /\ Dim(cos, 0) = Dim(input, 0)
      /\ Rotates(Attr(op, "RotaryDim", Dim(input, 2)), Dim(input, 2), Dim(cos, 1))
      /\ Len(op.outputs) = 2 => Out(op, 1) = weight

-----------------------------------------------------------------------------
(* Products.  A matrix product flattens all axes but the first of its      *)
(* operands or, for the scaled ones, all axes but the last.                *)
Width(t) == Size(t) \div Dim(t, 0)

LinearRule(op) ==
  LET input == In(op, 0)
      weight == In(op, 1)
      out == Out(op, 0)
  IN  /\ Arities(op, {2, 3}, {1})
      /\ Float(input) /\ weight.dtype = input.dtype /\ out.dtype = input.dtype
      /\ weight.dims = <<Width(out), Width(input)>> /\ Dim(out, 0) = Dim(input, 0)
      /\ Len(op.inputs) = 3 => In(op, 2) = Like(input, <<Dim(weight, 0)>>)
      /\ Len(op.inputs) = 2 => Attr(op, "LinearBiasMode", "Epilogue") = "Epilogue"
      /\ Attr(op, "Implementation", 1) \in 1 .. 3
      /\ Attr(op, "Implementation", 1) = 2 => input.dtype = "F32"

(* weight [N,K] with an output [...,N] and an input [...,K].               *)
Linearly(output, input, weight) ==
  /\ Float(output) /\ input.dtype = output.dtype /\ weight.dtype = output.dtype
  /\ \/ Leads(output, input) /\ weight.dims = <<Back(output), Back(input)>>
     \/ Dim(output, 0) = Dim(input, 0) /\ weight.dims = <<Width(output), Width(input)>>

LinearBackwardInputRule(op)  == Arity(op, 2, 1) /\ Linearly(In(op, 0), Out(op, 0), In(op, 1))
LinearBackwardWeightRule(op) == Arity(op, 2, 1) /\ Linearly(In(op, 0), In(op, 1), Out(op, 0))

(* The parts of a row that is quantized, and the clip factor behind them.  *)
Parts(op) == IF Last(op.inputs).dtype = "F32" THEN Front(op.inputs) ELSE op.inputs
Rotated(op) == Attr(op, "Implementation", "Direct") # "Direct"
Combined(op) == FoldLeft(LAMBDA n, t : n + Back(t), 0, Parts(op))
TransformWidth(op) ==
  IF Attr(op, "Implementation", "Direct") \in {"H4096SignedConvRot", "H4096F32SignedConvRot"}
  THEN 4096 ELSE 256

QuantizeInt8RowsRule(op) ==
  LET input == In(op, 0)
      quantized == Out(op, 0)
      rows == Lines(input)
  IN  /\ Len(op.inputs) >= 1 /\ Len(op.outputs) \in {2, 4} /\ Parts(op) # <<>>
      /\ Last(op.inputs).dtype = "F32" => Last(op.inputs).dims = <<1>>
      /\ \A t \in ToSet(Parts(op)) : t.dtype = "BF16" /\ Lines(t) = rows
      /\ quantized.dtype = "I8" /\ Back(quantized) = Combined(op) /\ Lines(quantized) = rows
      /\ Out(op, 1) = Vector("F32", rows)
      /\ Len(op.outputs) = 4 => Out(op, 2) = quantized /\ Out(op, 3) = Out(op, 1)
      /\ Attr(op, "BlockSize", 256) = 256
      /\ Rotated(op) => Combined(op) % TransformWidth(op) = 0

(* [M,K] by [N,K].                                                         *)
ScaledProduct(op, dtypes) ==
  LET input == In(op, 0)
      weight == In(op, 1)
      out == Out(op, 0)
  IN  /\ <<input.dtype, weight.dtype>> = dtypes /\ out.dtype = "BF16"
      /\ Rank(weight) = 2 /\ Dim(weight, 1) = Back(input)
      /\ Size(out) = Lines(input) * Dim(weight, 0) /\ Back(out) = Dim(weight, 0)

LinearInt8ScaledRule(op) ==
  /\ Arity(op, 4, 1) /\ ScaledProduct(op, <<"I8", "I8">>)
  /\ In(op, 2) = Vector("F32", Lines(In(op, 0))) /\ In(op, 3) = Vector("F32", Dim(In(op, 1), 0))

LinearInt8WeightScaledRule(op) ==
  /\ Arity(op, 3, 1) /\ ScaledProduct(op, <<"BF16", "I8">>)
  /\ In(op, 2) = Vector("F32", Dim(In(op, 1), 0))

QuantizeFp8RowsRule(op) ==
  /\ Arity(op, 1, 2)
  /\ In(op, 0).dtype = "BF16" /\ Out(op, 0) = Tensor("FP8E4M3", In(op, 0).dims)
  /\ Out(op, 1) = Vector("F32", Lines(In(op, 0)))

LinearFp8ScaledRule(op) ==
  /\ Arity(op, 4, 1) /\ ScaledProduct(op, <<"FP8E4M3", "FP8E4M3">>)
  /\ In(op, 2) = Vector("F32", Lines(In(op, 0))) /\ In(op, 3) = Vector("F32", Dim(In(op, 1), 0))

(* One scale for 32 elements of a row, stored in tiles of 128 by 4.        *)
Tiled(rows, inner) == Tensor("FP8E8M0", <<Padded(rows, 128), Padded(Ceil(inner, 32), 4)>>)

QuantizeFp8Blocks32Rule(op) ==
  /\ Arity(op, 1, 2)
  /\ In(op, 0).dtype = "BF16" /\ Out(op, 0) = Tensor("FP8E4M3", In(op, 0).dims)
  /\ Out(op, 1) = Tiled(Lines(In(op, 0)), Back(In(op, 0)))

LinearFp8BlockScaledRule(op) ==
  /\ Arity(op, 4, 1) /\ ScaledProduct(op, <<"FP8E4M3", "FP8E4M3">>)
  /\ In(op, 2) = Tiled(Lines(In(op, 0)), Back(In(op, 0)))
  /\ In(op, 3) = Tiled(Dim(In(op, 1), 0), Back(In(op, 0)))

PowersOfTwo == {2 ^ k : k \in 0 .. 8}

DequantizeInt8BlocksRule(op) ==
  LET input == In(op, 0)
      block == Attr(op, "BlockSize", 0)
  IN  /\ Arity(op, 2, 1)
      /\ input.dtype = "I8" /\ Rank(input) = 2 /\ Out(op, 0) = Tensor("BF16", input.dims)
      /\ block \in PowersOfTwo
      /\ In(op, 1) = Tensor("F32", <<Dim(input, 0), Ceil(Dim(input, 1), block)>>)

(* [N,K] from one scale per group and K elements packed in so many bytes.  *)
Grouped(op, packed_width) ==
  LET out == Out(op, 0)
      group == Attr(op, "GroupSize", 64)
  IN  /\ Rank(out) = 2 /\ Float(out)
      /\ In(op, 0) = Tensor("I8", <<Dim(out, 0), packed_width>>)
      /\ group \in PowersOfTwo /\ group >= 16 /\ Dim(out, 1) % group = 0
      /\ In(op, 1) = Like(out, <<Dim(out, 0), Dim(out, 1) \div group>>)

DequantizeInt4Rule(op) ==
  /\ Arities(op, {2, 4}, {1}) /\ Grouped(op, Back(Out(op, 0)) \div 2) /\ Back(Out(op, 0)) % 2 = 0
  /\ Len(op.inputs) = 4 => In(op, 2) = Tensor("I8", In(op, 1).dims) /\ In(op, 3) = In(op, 1)

DequantizeInt5Rule(op) ==
  /\ Arities(op, {2, 3}, {1}) /\ Grouped(op, (Back(Out(op, 0)) * 5) \div 8)
  /\ Back(Out(op, 0)) % 8 = 0
  /\ Len(op.inputs) = 3 => In(op, 2) = Like(Out(op, 0), <<Back(Out(op, 0))>>)

-----------------------------------------------------------------------------
(* Attention of [S,H,D] or [B,S,H,D]; k and v may have fewer heads.        *)
KvHeads(op, q) == Attr(op, "KvHeads", Heads(q))
Grouping(op, q, k) ==
  /\ KvHeads(op, q) > 0 /\ Heads(q) % KvHeads(op, q) = 0
  /\ k = Like(q, [q.dims EXCEPT ![Rank(q) - 1] = KvHeads(op, q)])

(* Plain: unbatched, without a bias.  Fast: heads of 128, without either.  *)
AttentionImplementation(op, q) ==
  LET implementation == Attr(op, "Implementation", 1)
      unbiased == Len(op.inputs) = 3
      causal == Attr(op, "Causal", FALSE)
      native == q.dtype = "BF16" /\ Back(q) = 128 /\ unbiased /\ ~causal
  IN  \/ implementation = 1 /\ Rank(q) = 3 /\ unbiased /\ Sequence(q) <= 4096
      \/ implementation = 2 /\ q.dtype # "F32"
      \/ /\ implementation = 3 /\ q.dtype = "F32" /\ Rank(q) = 3 /\ Heads(q) = 1
         /\ unbiased /\ ~causal
      \/ implementation = 4 /\ native
      \/ implementation = 5 /\ native /\ KvHeads(op, q) = Heads(q)

AttentionRule(op) ==
  LET q == In(op, 0)
  IN  /\ Arities(op, {3, 4}, {1})
      /\ In(op, 2) = In(op, 1) /\ Out(op, 0) = q /\ Float(q) /\ Rank(q) \in {3, 4}
      /\ Grouping(op, q, In(op, 1))
      /\ Len(op.inputs) = 4 =>
            Rank(q) = 4 /\ In(op, 3) = Like(q, <<Dim(q, 0), 1, Dim(q, 1), Dim(q, 1)>>)
      /\ AttentionImplementation(op, q)

LogSumExp(q) == Tensor("F32", <<Dim(q, 0), Dim(q, 1)>>)

AttentionLseRule(op) ==
  LET q == In(op, 0)
  IN  /\ Arity(op, 2, 1) /\ Float(q) /\ Rank(q) = 3
      /\ Grouping(op, q, In(op, 1)) /\ Out(op, 0) = LogSumExp(q)

AttentionBackwardRule(op) ==
  LET q == In(op, 1)
      k == In(op, 2)
  IN  /\ Arity(op, 6, 3)
      /\ {In(op, 0), In(op, 4), Out(op, 0)} = {q}
      /\ {In(op, 3), Out(op, 1), Out(op, 2)} = {k}
      /\ Float(q) /\ Rank(q) = 3 /\ Grouping(op, q, k) /\ In(op, 5) = LogSumExp(q)

-----------------------------------------------------------------------------
(* Convolutions: extents of a kernel that slides over n elements.          *)
Reach(kernel, dilation) == dilation * (kernel - 1) + 1
Slides(n, kernel, stride, dilation) == (n - Reach(kernel, dilation)) \div stride + 1
Fits(n, kernel, stride, dilation, out) ==
  stride > 0 /\ dilation > 0 /\ n >= Reach(kernel, dilation) /\ out = Slides(n, kernel, stride, dilation)

Biased(op, channels) == Len(op.inputs) = 3 => In(op, 2) = Like(In(op, 0), <<channels>>)

Convolved(op, rank) ==
  /\ Arities(op, {2, 3}, {1})
  /\ Float(In(op, 0))
  /\ \A t \in {In(op, 1), Out(op, 0)} : t.dtype = In(op, 0).dtype /\ Rank(t) = rank
  /\ Rank(In(op, 0)) = rank /\ Dim(Out(op, 0), 0) = Dim(In(op, 0), 0)

(* Weights [C_out, C_in / groups, ...].                                    *)
Groups(op) == Attr(op, "Groups", 1)
ChannelsAgree(op) ==
  LET channels == Dim(In(op, 1), 0)
  IN  /\ Groups(op) > 0 /\ Dim(In(op, 0), 1) % Groups(op) = 0 /\ channels % Groups(op) = 0
      /\ Dim(In(op, 1), 1) = Dim(In(op, 0), 1) \div Groups(op) /\ Dim(Out(op, 0), 1) = channels
      /\ Biased(op, channels)

Conv1dRule(op) ==
  LET weight == In(op, 1)
      padded == Attr(op, "PadLeft", 0) + Dim(In(op, 0), 2) + Attr(op, "PadRight", 0)
      trimmed == Attr(op, "TrimLeft", 0) + Attr(op, "TrimRight", 0)
      stride == Attr(op, "Stride", 1)
      full == (padded - 1) * stride + Dim(weight, 2)
  IN  /\ Convolved(op, 3) /\ Attr(op, "PadMode", 0) <= 1
      /\ IF Attr(op, "Transposed", FALSE)
         THEN /\ Groups(op) > 0 /\ Dim(In(op, 0), 1) % Groups(op) = 0
              /\ stride > 0 /\ Attr(op, "Dilation", 1) = 1
              /\ Dim(weight, 0) = Dim(In(op, 0), 1)
              /\ Dim(Out(op, 0), 1) = Dim(weight, 1) * Groups(op)
              /\ trimmed < full /\ Dim(Out(op, 0), 2) = full - trimmed
              /\ Biased(op, Dim(Out(op, 0), 1))
         ELSE /\ ChannelsAgree(op) /\ trimmed = 0
              /\ Fits(padded, Dim(weight, 2), stride, Attr(op, "Dilation", 1), Dim(Out(op, 0), 2))

Strides(op)   == <<Attr(op, "StrideT", 1), Attr(op, "StrideH", 1), Attr(op, "StrideW", 1)>>
Dilations(op) == <<Attr(op, "DilationT", 1), Attr(op, "DilationH", 1), Attr(op, "DilationW", 1)>>

SlidesEverywhere(op) ==
  \A k \in Extents(In(op, 0)) :
     Fits(Before(op)[k] + Spatial(In(op, 0))[k] + After(op)[k],
          Spatial(In(op, 1))[k], Strides(op)[k], Dilations(op)[k], Spatial(Out(op, 0))[k])

Conv2dRule(op) == Convolved(op, 4) /\ ChannelsAgree(op) /\ SlidesEverywhere(op)
Conv3dRule(op) == Convolved(op, 5) /\ ChannelsAgree(op) /\ SlidesEverywhere(op)

ChannelRmsNormRule(op) ==
  LET input == In(op, 0)
      axis == Attr(op, "Axis", 1)
  IN  /\ Arity(op, 2, 1)
      /\ Out(op, 0) = input /\ Float(input) /\ Rank(input) >= 2 /\ axis < Rank(input)
      /\ In(op, 1) = Like(input, <<Dim(input, axis)>>)

GroupNormRule(op) ==
  LET input == In(op, 0)
      affine == Like(input, <<Dim(input, 1)>>)
  IN  /\ Arity(op, 3, 1)
      /\ Out(op, 0) = input /\ Float(input) /\ Rank(input) \in {4, 5}
      /\ In(op, 1) = affine /\ In(op, 2) = affine
      /\ Groups(op) > 0 /\ Dim(input, 1) % Groups(op) = 0

SnakeBetaRule(op) ==
  LET input == In(op, 0)
      channel == Like(input, <<Dim(input, 1)>>)
  IN  /\ Arity(op, 3, 1)
      /\ Out(op, 0) = input /\ Float(input) /\ Rank(input) = 3
      /\ In(op, 1) = channel /\ In(op, 2) = channel

-----------------------------------------------------------------------------
(* verify(): every tensor has a rank in 1 .. 8 and no empty axis, and the  *)
(* rule of the opcode holds; an opcode without a rule is refused.          *)
WellFormed(op) ==
  \A t \in ToSet(op.inputs \o op.outputs) : Rank(t) \in 1 .. 8 /\ \A a \in Axes(t) : Dim(t, a) > 0

Admits(op) ==
  LET opcode == op.opcode
  IN  CASE opcode = "Barrier" -> BarrierRule(op)
        [] opcode \in {"Add", "Multiply"} -> ElementwiseRule(op)
        [] opcode = "Gelu" -> GeluRule(op)
        [] opcode = "Sigmoid" -> SigmoidRule(op)
        [] opcode = "Clamp" -> ClampRule(op)
        [] opcode = "SiLU" -> SiLURule(op)
        [] opcode = "Cast" -> CastRule(op)
        [] opcode = "Fill" -> FillRule(op)
        [] opcode = "LinearBlend" -> LinearBlendRule(op)
        [] opcode = "FlowEulerStep" -> FlowEulerStepRule(op)
        [] opcode = "EulerVelocityStep" -> EulerVelocityStepRule(op)
        [] opcode = "SiLUBackward" -> SiLUBackwardRule(op)
        [] opcode = "MseLoss" -> MseLossRule(op)
        [] opcode = "MseLossBackward" -> MseLossBackwardRule(op)
        [] opcode = "AdamWUpdate" -> AdamWUpdateRule(op)
        [] opcode = "AffineLastDim" -> AffineLastDimRule(op)
        [] opcode = "BiasAdd" -> BiasAddRule(op)
        [] opcode = "BiasBackward" -> BiasBackwardRule(op)
        [] opcode = "RmsNorm" -> RmsNormRule(op)
        [] opcode = "LayerNorm" -> LayerNormRule(op)
        [] opcode = "LayerNormModulate" -> LayerNormModulateRule(op)
        [] opcode = "RmsNormModulate" -> RmsNormModulateRule(op)
        [] opcode = "SwiGlu" -> SwiGluRule(op)
        [] opcode = "ResidualGate" -> ResidualGateRule(op)
        [] opcode = "RmsNormBackward" -> RmsNormBackwardRule(op)
        [] opcode = "RmsNormModulateBackward" -> RmsNormModulateBackwardRule(op)
        [] opcode = "SwiGluBackward" -> SwiGluBackwardRule(op)
        [] opcode = "ResidualGateBackward" -> ResidualGateBackwardRule(op)
        [] opcode = "LayerNormBackward" -> LayerNormBackwardRule(op)
        [] opcode = "Reshape" -> ReshapeRule(op)
        [] opcode = "BroadcastTo" -> BroadcastToRule(op)
        [] opcode = "Slice" -> SliceRule(op)
        [] opcode = "Permute" -> PermuteRule(op)
        [] opcode = "Concat" -> ConcatRule(op)
        [] opcode \in {"Patchify3D", "Unpatchify3D"} -> PatchifyRule(op)
        [] opcode = "GatherRows" -> GatherRowsRule(op)
        [] opcode = "IndexedUpdateRows" -> IndexedUpdateRowsRule(op)
        [] opcode = "SelectRowChunks" -> SelectRowChunksRule(op)
        [] opcode = "H3AdaLNSelect" -> H3AdaLNSelectRule(op)
        [] opcode = "H3DeinterleaveQkv" -> H3DeinterleaveQkvRule(op)
        [] opcode = "H3DeinterleaveQkvWeight" -> H3DeinterleaveQkvWeightRule(op)
        [] opcode = "PadConstant" -> PadConstantRule(op)
        [] opcode = "PadReflect" -> PadReflectRule(op)
        [] opcode = "UpsampleNearest2d" -> UpsampleNearest2dRule(op)
        [] opcode = "BooleanMaskToBias" -> BooleanMaskToBiasRule(op)
        [] opcode = "SinusoidalTimestep" -> SinusoidalTimestepRule(op)
        [] opcode = "RotaryPosition" -> RotaryPositionRule(op)
        [] opcode = "RotaryFrequency" -> RotaryFrequencyRule(op)
        [] opcode = "RotaryApply" -> RotaryApplyRule(op)
        [] opcode = "QkNormPartialRope" -> QkNormPartialRopeRule(op)
        [] opcode = "QkNormPartialRopeBackward" -> QkNormPartialRopeBackwardRule(op)
        [] opcode = "Linear" -> LinearRule(op)
        [] opcode = "LinearBackwardInput" -> LinearBackwardInputRule(op)
        [] opcode = "LinearBackwardWeight" -> LinearBackwardWeightRule(op)
        [] opcode = "QuantizeInt8Rows" -> QuantizeInt8RowsRule(op)
        [] opcode = "LinearInt8Scaled" -> LinearInt8ScaledRule(op)
        [] opcode = "LinearInt8WeightScaled" -> LinearInt8WeightScaledRule(op)
        [] opcode = "QuantizeFp8Rows" -> QuantizeFp8RowsRule(op)
        [] opcode = "LinearFp8Scaled" -> LinearFp8ScaledRule(op)
        [] opcode = "QuantizeFp8Blocks32" -> QuantizeFp8Blocks32Rule(op)
        [] opcode = "LinearFp8BlockScaled" -> LinearFp8BlockScaledRule(op)
        [] opcode = "DequantizeInt8Blocks" -> DequantizeInt8BlocksRule(op)
        [] opcode = "DequantizeInt4" -> DequantizeInt4Rule(op)
        [] opcode = "DequantizeInt5" -> DequantizeInt5Rule(op)
        [] opcode = "Attention" -> AttentionRule(op)
        [] opcode = "AttentionLse" -> AttentionLseRule(op)
        [] opcode = "AttentionBackward" -> AttentionBackwardRule(op)
        [] opcode = "Conv1d" -> Conv1dRule(op)
        [] opcode = "Conv2d" -> Conv2dRule(op)
        [] opcode = "Conv3d" -> Conv3dRule(op)
        [] opcode = "ChannelRmsNorm" -> ChannelRmsNormRule(op)
        [] opcode = "GroupNorm" -> GroupNormRule(op)
        [] opcode = "SnakeBeta" -> SnakeBetaRule(op)
        [] OTHER -> FALSE
=============================================================================
