-------------------------- MODULE KernelIdentities --------------------------
(***************************************************************************)
(* What the kernels of CpuKernels owe each other.  The compiler replaces   *)
(* operations by others that are to compute the same (a sliced SwiGlu by   *)
(* one with Start, a projection and its parts by parts of the weight, a    *)
(* Linear by its quantized form), and the kernels compute their indices    *)
(* each on its own.  Two programs agree here when every element of their   *)
(* results depends on the same elements of their operands.                 *)
(***************************************************************************)
EXTENDS CpuKernels

NoAttributes == [key \in {} |-> 0]
Op(opcode, inputs, outputs, attributes) ==
  [opcode |-> opcode, inputs |-> inputs, outputs |-> outputs, attributes |-> attributes]
Without(op, keys) == [key \in DOMAIN op.attributes \ keys |-> op.attributes[key]]
Replaced(op, k, t) == [op EXCEPT !.inputs[k + 1] = t]
Plain(opcode, input, out) == Op(opcode, <<input>>, <<out>>, NoAttributes)

-----------------------------------------------------------------------------
(* The same function, which TLC then evaluates once for each argument.     *)
Table(f) == f @@ <<>>

(* The elements <<k, i>> of the inputs that reach an element <<k, i>> of   *)
(* the outputs, directly or through other outputs.                         *)
Depends(stores) ==
  LET named(from, kind) == {<<x[2], x[3]>> : x \in {y \in from : y[1] = kind}}
      of == Table([to \in {s.to : s \in stores} |->
                     UNION {s.from : s \in {t \in stores : t.to = to}}])
      close(from) == from \cup UNION {of[x] : x \in {y \in from : y[1] = "out"}}
      closed(from) == close(close(close(from)))
  IN  Table([e \in {<<to[2], to[3]>> : to \in DOMAIN of} |->
                named(closed(of[<<"out", e[1], e[2]>>]), "in")])

(* A program: steps that apply operations to named tensors, the names of   *)
(* its results.  An operand's name is <<"operand", k>>.                    *)
Step(operation, in, out) == [operation |-> operation, in |-> in, out |-> out]
Operand(k)  == <<"operand", k>>
Operands(n) == [k \in 1 .. n |-> Operand(k - 1)]
Results(n)  == [k \in 1 .. n |-> <<"result", k - 1>>]
Between(k)  == <<"between", k>>
Program(steps, results) == [steps |-> steps, results |-> results]
Alone(op) ==
  Program(<<Step(op, Operands(Len(op.inputs)), Results(Len(op.outputs)))>>, Results(Len(op.outputs)))

(* After the steps: what element i of a tensor depends on of the operands. *)
Element(env, name, i) == IF name[1] = "operand" THEN {<<name[2], i>>} ELSE env[<<name, i>>]
Followed(env, step, d) ==
  LET at(p) == <<SelectInSeq(step.out, LAMBDA name : name = p[1]) - 1, p[2]>>
  IN  [p \in {<<step.out[e[1] + 1], e[2]>> : e \in DOMAIN d} |->
         UNION {Element(env, step.in[x[1] + 1], x[2]) : x \in d[at(p)]}] @@ env
Reaching(steps, bound) ==
  FoldLeft(LAMBDA env, step : Followed(env, step, Depends(Kernel(step.operation, bound))), <<>>, steps)

(* left and right, which the verifier has to admit, depend equally on the  *)
(* operands about.  A transposed claim is one of adjoints: result y of     *)
(* left depends on operand x as result x of right on operand y.            *)
Claim(left, right, about) == [left |-> left, right |-> right, about |-> about, transposed |-> FALSE]

Legal(steps) == \A step \in ToSet(steps) : WellFormed(step.operation) /\ Admits(step.operation)

Matches(claim, reach) ==
  LET element(side, r, i) == Element(reach[side], claim[side].results[r], i)
      elements(side, r) == {p[2] : p \in {q \in DOMAIN reach[side] : q[1] = claim[side].results[r]}}
      about(S) == {x \in S : x[1] \in claim.about}
  IN  IF claim.transposed
      THEN \A y \in elements("left", 1), x \in elements("right", 1) :
              <<0, x>> \in element("left", 1, y) <=> <<0, y>> \in element("right", 1, x)
      ELSE \A r \in DOMAIN claim.left.results :
              \A i \in elements("left", r) : about(element("left", r, i)) = about(element("right", r, i))

Holds(claim, bound) ==
  /\ Legal(claim.left.steps \o claim.right.steps)
  /\ Matches(claim, Table([side \in {"left", "right"} |-> Reaching(claim[side].steps, bound)]))

Everything(op) == Upto(Len(op.inputs))

-----------------------------------------------------------------------------
(* op is one of its operands prepared by an operation, then bare.          *)
PreparedFirst(op, prepare, k, bare, about) ==
  Claim(Alone(op),
        Program(<<Step(prepare, <<Operand(k)>>, <<Between(k)>>),
                  Step(bare, [Operands(Len(op.inputs)) EXCEPT ![k + 1] = Between(k)], Results(1))>>,
                Results(1)),
        about)

(* A convolution with padding is one without it, of the padded input.      *)
Paddings == {"PadFront", "PadTop", "PadWest", "PadBack", "PadBottom", "PadEast"}
PaddedApart(op) ==
  LET input == In(op, 0)
      spatial == [k \in 1 .. 3 |-> Before(op)[k] + Spatial(input)[k] + After(op)[k]]
      padded == Like(input, SubSeq(input.dims, 1, 2) \o SubSeq(spatial, 6 - Rank(input), 3))
      pad == Op("PadConstant", <<input>>, <<padded>>,
                [key \in DOMAIN op.attributes \cap Paddings |-> op.attributes[key]])
  IN  PreparedFirst(op, pad, 0,
                    [Replaced(op, 0, padded) EXCEPT !.attributes = Without(op, Paddings)], {0})

(* A transposed convolution is the adjoint of the plain one with the same  *)
(* weight, which pads what the transposed one trims.                       *)
AdjointOfPlain(op) ==
  LET plain == Op("Conv1d", <<Out(op, 0), In(op, 1)>>, <<In(op, 0)>>,
                  [Stride |-> Attr(op, "Stride", 1), Groups |-> Groups(op),
                   PadLeft |-> Attr(op, "TrimLeft", 0), PadRight |-> Attr(op, "TrimRight", 0)])
  IN  [Claim(Alone(op), Alone(plain), {0}) EXCEPT !.transposed = TRUE]

(* A SwiGlu from a column on is one of the slice that begins there.        *)
SlicedApart(op) ==
  LET input == In(op, 0)
      sliced == Like(input, Front(input.dims) \o <<2 * Back(Out(op, 0))>>)
      slice == Op("Slice", <<input>>, <<sliced>>,
                  [Axis |-> Rank(input) - 1, Start |-> Attr(op, "Start", 0)])
  IN  PreparedFirst(op, slice, 0,
                    [Replaced(op, 0, sliced) EXCEPT !.attributes = Without(op, {"Start"})], {0})

(* A gate for several rows is one repeated for each of them, where its     *)
(* leading axes are those of the rows: a gate [1, n, c] of rows [b, n, c]  *)
(* is admitted too, and then stands for b consecutive rows.                *)
Aligned(shared, t) ==
  /\ Rank(shared) = Rank(t)
  /\ \E j \in 0 .. Rank(t) - 1 :
        \A a \in 0 .. Rank(t) - 2 : Dim(shared, a) = IF a < j THEN Dim(t, a) ELSE 1
RowsRepeated(op) ==
  LET residual == In(op, 0)
  IN  PreparedFirst(op, Plain("BroadcastTo", In(op, 2), residual), 2, Replaced(op, 2, residual),
                    Everything(op))

-----------------------------------------------------------------------------
(* op is two of its operands prepared by one kind of operation, then bare. *)
BothPrepared(op, prepare, pair, bare) ==
  LET between == [k \in DOMAIN op.inputs |-> IF k - 1 \in pair THEN Between(k - 1) ELSE Operand(k - 1)]
      steps == [k \in 1 .. 2 |-> LET j == SetToSortSeq(pair, <)[k]
                                 IN  Step(prepare, <<Operand(j)>>, <<Between(j)>>)]
  IN  Claim(Alone(op), Program(Append(steps, Step(bare, between, Results(1))), Results(1)), Everything(op))

(* Rows from Start on of the tables of a rotation, as slices.              *)
TablesSliced(op) ==
  LET cos == In(op, 2)
      axis == Rank(cos) - 2
      sliced == Like(cos, [cos.dims EXCEPT ![axis + 1] = Sequence(In(op, 0))])
      slice == Op("Slice", <<cos>>, <<sliced>>, [Axis |-> axis, Start |-> Attr(op, "Start", 0)])
  IN  BothPrepared(op, slice, {2, 3},
        [Replaced(Replaced(op, 2, sliced), 3, sliced) EXCEPT !.attributes = Without(op, {"Start"})])

(* Attention with fewer heads of keys and values is plain attention with   *)
(* each of them repeated for its group of query heads.                     *)
HeadsRepeated(op) ==
  LET q == In(op, 0)
      k == In(op, 1)
      lead == SubSeq(k.dims, 1, Rank(k) - 1)
      repeat == Plain("BroadcastTo", Like(k, lead \o <<1, Back(k)>>),
                      Like(k, lead \o <<Heads(q) \div Heads(k), Back(k)>>))
  IN  BothPrepared(op, repeat, {1, 2},
        [Replaced(Replaced(op, 1, q), 2, q) EXCEPT !.attributes = Without(op, {"KvHeads"})])

-----------------------------------------------------------------------------
(* Quantizing parts of a row is quantizing their concatenation.            *)
QuantizedTogether(op) ==
  LET parts == Parts(op)
      joined == Like(parts[1], Front(parts[1].dims) \o <<Combined(op)>>)
      concatenation == Op("Concat", parts, <<joined>>, [Axis |-> Rank(joined) - 1])
      rest == SubSeq(Operands(Len(op.inputs)), Len(parts) + 1, Len(op.inputs))
      whole == [op EXCEPT !.inputs = <<joined>> \o SubSeq(op.inputs, Len(parts) + 1, Len(op.inputs))]
      results == Results(Len(op.outputs))
  IN  Claim(Alone(op),
            Program(<<Step(concatenation, Operands(Len(parts)), <<Between(0)>>),
                      Step(whole, <<Between(0)>> \o rest, results)>>, results),
            Everything(op))

(* A product of quantized operands reads what the plain product reads.     *)
Quantizer(op) ==
  CASE op.opcode = "LinearInt8Scaled"      -> "QuantizeInt8Rows"
    [] op.opcode = "LinearFp8Scaled"       -> "QuantizeFp8Rows"
    [] op.opcode = "LinearFp8BlockScaled"  -> "QuantizeFp8Blocks32"
ReadsLikeLinear(op) ==
  LET plain(k) == Tensor("BF16", In(op, k).dims)
      quantize(k) == Step(Op(Quantizer(op), <<plain(k)>>, <<In(op, k), In(op, k + 2)>>, NoAttributes),
                          <<Operand(k)>>, <<Between(k), Between(k + 2)>>)
      rows == Lines(In(op, 0))
      product == Op("Linear", <<Tensor("BF16", <<rows, Back(In(op, 0))>>), plain(1)>>,
                    <<Tensor("BF16", <<rows, Dim(In(op, 1), 0)>>)>>, NoAttributes)
  IN  Claim(Program(<<quantize(0), quantize(1),
                      Step(op, [k \in 1 .. 4 |-> Between(k - 1)], Results(1))>>, Results(1)),
            Alone(product), {0, 1})

-----------------------------------------------------------------------------
(* The parts of a packed projection are projections by parts of the weight.*)
ProjectedApart(op) ==
  LET packed == In(op, 0)
      q == Out(op, 0)
      hidden == 2
      input == Like(packed, <<Dim(packed, 0), hidden>>)
      weight == Like(packed, <<Dim(packed, 1), hidden>>)
      part == Like(packed, <<Dim(q, 1) * Dim(q, 2), hidden>>)
      flat == Like(packed, <<Dim(packed, 0), Dim(part, 0)>>)
      project(w, out) == Op("Linear", <<input, w>>, <<out>>, NoAttributes)
      split == Op("H3DeinterleaveQkvWeight", <<weight>>, <<part, part, part>>,
                  [Heads |-> Dim(q, 1), HeadDim |-> Dim(q, 2)])
      parts == [k \in 1 .. 3 |-> Between(k)]
  IN  Claim(Program(<<Step(project(weight, packed), Operands(2), <<Between(0)>>),
                      Step(op, <<Between(0)>>, Results(3))>>, Results(3)),
            Program(<<Step(split, <<Operand(1)>>, parts)>>
                      \o [k \in 1 .. 3 |-> Step(project(part, flat), <<Operand(0), Between(k)>>,
                                                <<Results(3)[k]>>)], Results(3)),
            {0, 1})

(* Chunks of selected rows are slices of the gathered rows, and the rows   *)
(* of H3AdaLNSelect are thirds of those of its operand.                    *)
ChunksOfGathered(op) ==
  LET chunks == Len(op.outputs)
      width == Dim(Out(op, 0), 1)
      rows == Like(In(op, 0), <<Size(In(op, 0)) \div (width * chunks), width * chunks>>)
      gathered == Like(rows, <<Dim(Out(op, 0), 0), Dim(rows, 1)>>)
      slice(k) == Op("Slice", <<gathered>>, <<Out(op, 0)>>, [Axis |-> 1, Start |-> (k - 1) * width])
  IN  Claim(Alone(op),
            Program(<<Step(Op("GatherRows", <<rows, In(op, 1)>>, <<gathered>>, NoAttributes),
                           Operands(2), <<Between(0)>>)>>
                      \o [k \in 1 .. chunks |-> Step(slice(k), <<Between(0)>>, <<Results(chunks)[k]>>)],
                    Results(chunks)),
            {0, 1})

-----------------------------------------------------------------------------
(* What one operation moves, others move back: back[k] gives operand k.    *)
MovedBack(op, back) ==
  LET between == [k \in DOMAIN op.outputs |-> Between(k)]
  IN  Claim(Program(<<Step(op, Operands(Len(op.inputs)), between)>>
                      \o [k \in DOMAIN back |-> Step(back[k], between, <<Results(Len(back))[k]>>)],
                    Results(Len(back))),
            Program(<<>>, Operands(Len(op.inputs))), Everything(op))

PermutedBack(op) ==
  LET forward == Attr(op, "Permutation", <<>>)
      axis(a) == CHOOSE k \in DOMAIN forward : forward[k] = a
  IN  MovedBack(op, <<Op("Permute", op.outputs, op.inputs,
                         [Permutation |-> [a \in DOMAIN forward |-> axis(a - 1) - 1]])>>)

PatchedBack(op) ==
  MovedBack(op, <<Op(IF op.opcode = "Patchify3D" THEN "Unpatchify3D" ELSE "Patchify3D",
                     op.outputs, op.inputs, op.attributes)>>)

SlicedBack(op) ==
  LET axis == Attr(op, "Axis", 0)
      start(k) == FoldLeft(LAMBDA n, t : n + Dim(t, axis), 0, SubSeq(op.inputs, 1, k - 1))
  IN  MovedBack(op, [k \in DOMAIN op.inputs |->
        Op("Slice", op.outputs, <<op.inputs[k]>>, [Axis |-> axis, Start |-> start(k)])])

-----------------------------------------------------------------------------
(* What an executed operation has to agree with.                           *)
Claims(op) ==
  LET opcode == op.opcode
  IN  CASE opcode \in {"Conv2d", "Conv3d"} -> {PaddedApart(op)}
        [] opcode = "Conv1d" /\ Attr(op, "Transposed", FALSE)
             /\ Attr(op, "PadLeft", 0) + Attr(op, "PadRight", 0) = 0 -> {AdjointOfPlain(op)}
        [] opcode = "QuantizeInt8Rows" /\ Len(Parts(op)) > 1
             /\ \A t \in ToSet(Parts(op)) : Leads(t, Parts(op)[1]) -> {QuantizedTogether(op)}
        [] opcode \in {"LinearInt8Scaled", "LinearFp8Scaled", "LinearFp8BlockScaled"} ->
             {ReadsLikeLinear(op)}
        [] opcode = "SwiGlu" -> {SlicedApart(op)}
        [] opcode = "QkNormPartialRope" -> {TablesSliced(op)}
        [] opcode = "Attention" /\ Has(op, "KvHeads") -> {HeadsRepeated(op)}
        [] opcode = "ResidualGate" /\ Aligned(In(op, 2), In(op, 0)) -> {RowsRepeated(op)}
        [] opcode = "H3DeinterleaveQkv" -> {ProjectedApart(op)}
        [] opcode \in {"SelectRowChunks", "H3AdaLNSelect"} -> {ChunksOfGathered(op)}
        [] opcode = "Permute" -> {PermutedBack(op)}
        [] opcode \in {"Patchify3D", "Unpatchify3D"} -> {PatchedBack(op)}
        [] opcode = "Concat" -> {SlicedBack(op)}
        [] OTHER -> {}
=============================================================================
