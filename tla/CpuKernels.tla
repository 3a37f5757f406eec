----------------------------- MODULE CpuKernels -----------------------------
(***************************************************************************)
(* runtime/cpu_executor.cpp: the kernel of every opcode, as what it reads  *)
(* and writes.  Arithmetic is left out; indices are those of the source.   *)
(* A kernel is a set of stores [to, from]: the element written and the     *)
(* elements its value depends on.  An element is                           *)
(*   <<"in", k, i>>       element i of input k                             *)
(*   <<"out", k, i>>      element i of output k                            *)
(*   <<"scratch", 0, i>>  element i of a vector the kernel allocates       *)
(* and a dependency on another output is one on the value stored there.    *)
(* bound[k][i] is element i of the integer input k.                        *)
(***************************************************************************)
EXTENDS OperationRules

Upto(n) == 0 .. n - 1

Loads(k, elements) == {<<"in", k, i>> : i \in elements}
Load(k, i)         == Loads(k, {i})
Result(k, i)       == {<<"out", k, i>>}
Store(k, i, from)  == [to |-> <<"out", k, i>>, from |-> from]

Row(base, n) == base .. base + n - 1

(* ((at[1] * dims[2] + at[2]) * dims[3] + at[3]) ..., and its inverse.     *)
Index(dims, at) == FoldLeft(LAMBDA i, k : i * dims[k] + at[k], 0, [k \in DOMAIN dims |-> k])
Coordinate(dims, i, k) == (i \div Count(SubSeq(dims, k + 1, Len(dims)))) % dims[k]

(* Stores that are followed by others.                                     *)
Over(first, then) ==
  LET covered == {s.to : s \in then}
  IN  then \cup {s \in first : s.to \notin covered}

-----------------------------------------------------------------------------
(* Element by element, with what every element depends on besides.         *)
PerElement(op, operands, also) ==
  {Store(0, i, {<<"in", k, i>> : k \in operands} \cup also) : i \in Upto(Size(Out(op, 0)))}

elementwise(op)       == PerElement(op, {0, 1}, {})
clamp(op)             == PerElement(op, {0}, {})
silu(op)              == PerElement(op, {0}, {})
gelu(op)              == PerElement(op, {0}, {})
sigmoid(op)           == PerElement(op, {0}, {})
cast(op)              == PerElement(op, {0}, {})
reshape(op)           == PerElement(op, {0}, {})
fill(op)              == PerElement(op, {}, {})
silu_backward(op)     == PerElement(op, {0, 1}, {})
mse_loss_backward(op) == PerElement(op, {0, 1}, Load(2, 0))
linear_blend(op)      == PerElement(op, {0, 1}, Load(2, 0))

euler_velocity_step(op) == PerElement(op, {0, 1}, Load(2, 0) \cup Load(3, 0))
flow_euler_step(op) ==
  LET step == Attr(op, "StepIndex", 0)
  IN  PerElement(op, {0, 1}, Load(2, step) \cup Loads(3, {step, step + 1}))

mse_loss(op) ==
  {Store(0, 0, UNION {Loads(k, Upto(Size(In(op, 0)))) : k \in {0, 1}})}

adamw_update(op) ==
  LET moment(k, i) == Load(1, i) \cup Load(k + 1, i)
  IN  UNION {{Store(0, i, Load(0, i) \cup moment(1, i) \cup moment(2, i) \cup Load(4, 0)),
              Store(1, i, moment(1, i)), Store(2, i, moment(2, i))} : i \in Upto(Size(In(op, 0)))}

residual_gate_backward(op) ==
  UNION {{Store(0, i, Load(0, i) \cup Load(2, i)), Store(1, i, Load(0, i) \cup Load(1, i))} :
         i \in Upto(Size(Out(op, 0)))}

-----------------------------------------------------------------------------
(* Along the last axis.                                                    *)
affine_last_dim(op) ==
  LET width == Back(In(op, 0))
  IN  {Store(0, i, Load(0, i) \cup UNION {Load(k, i % width) : k \in 1 .. Len(op.inputs) - 1}) :
       i \in Upto(Size(Out(op, 0)))}

bias_add(op) ==
  {Store(0, i, Load(0, i) \cup Load(1, i % Back(In(op, 0)))) : i \in Upto(Size(In(op, 0)))}

bias_backward(op) ==
  LET width == Dim(Out(op, 0), 0)
      rows == Size(In(op, 0)) \div width
  IN  {Store(0, column, Loads(0, {row * width + column : row \in Upto(rows)})) :
       column \in Upto(width)}

(* A norm over the rows of input k: what else an element depends on.       *)
Normalizing(op, Also(_, _)) ==
  LET columns == Back(In(op, 0))
  IN  {Store(0, row * columns + column,
             Loads(0, Row(row * columns, columns)) \cup Also(row, column)) :
       row \in Upto(Lines(In(op, 0))), column \in Upto(columns)}

rms_norm(op)   == Normalizing(op, LAMBDA row, column : Load(1, column))
layer_norm(op) == Normalizing(op, LAMBDA row, column : Load(1, column) \cup Load(2, column))

layer_norm_modulate(op) ==
  LET columns == Back(In(op, 0))
      rows_per_modulation == Lines(In(op, 0)) \div (Size(In(op, 3)) \div columns)
      modulation(row, column) == (row \div rows_per_modulation) * columns + column
  IN  Normalizing(op, LAMBDA row, column :
        UNION {Load(k, column) : k \in {1, 2}} \cup UNION {Load(k, modulation(row, column)) : k \in {3, 4}})

rms_norm_modulate(op) ==
  LET cols == Dim(In(op, 0), 1)
      rows_per_vector == Dim(In(op, 0), 0) \div Dim(In(op, 2), 0)
      weighted == Len(op.inputs) = 4
      shared(row, col) == Load(1, col) \cup Load(2, (row \div rows_per_vector) * cols + col)
                            \cup Loads(3, {col, cols + col})
      explicit(row, col) ==
        LET index == row * cols + col
        IN  IF weighted THEN Load(1, col) \cup Load(2, index) \cup Load(3, index)
                        ELSE Load(1, index) \cup Load(2, index)
  IN  Normalizing(op, LAMBDA row, col : IF SharedVector(op) THEN shared(row, col) ELSE explicit(row, col))

(* Where a row of the input holds the value and the gate of a column.      *)
Value(op, first, width) == IF Attr(op, "GateFirst", FALSE) THEN first + width ELSE first
Gate(op, first, width)  == IF Attr(op, "GateFirst", FALSE) THEN first ELSE first + width

swiglu(op) ==
  LET width == Back(Out(op, 0))
      first(row, col) == row * Back(In(op, 0)) + Attr(op, "Start", 0) + col
  IN  {Store(0, row * width + col,
             Loads(0, {Value(op, first(row, col), width), Gate(op, first(row, col), width)})) :
       row \in Upto(Lines(Out(op, 0))), col \in Upto(width)}

residual_gate(op) ==
  LET width == Back(Out(op, 0))
      rows_per_gate == Lines(Out(op, 0)) \div (Size(In(op, 2)) \div width)
      gate_index(i) == ((i \div width) \div rows_per_gate) * width + (i % width)
  IN  {Store(0, i, Load(0, i) \cup Load(1, i) \cup Load(2, gate_index(i))) :
       i \in Upto(Size(Out(op, 0)))}

(* Gradients of the norms: the rows of grad_output and input, and the      *)
(* columns of what is shared by the rows.                                  *)
RowOf(k, base, columns) == Loads(k, Row(base, columns))
Column(op, k, column)   == Loads(k, {row * Back(In(op, k)) + column : row \in Upto(Lines(In(op, k)))})

rms_norm_backward(op) ==
  LET columns == Back(In(op, 1))
      all == Loads(1, Upto(Size(In(op, 1))))
      input == {Store(0, row * columns + column,
                      UNION {RowOf(k, row * columns, columns) : k \in {0, 1}} \cup RowOf(2, 0, columns)) :
                row \in Upto(Lines(In(op, 1))), column \in Upto(columns)}
  IN  input \cup (IF Len(op.outputs) = 1 THEN {}
                  ELSE {Store(1, column, Column(op, 0, column) \cup all) : column \in Upto(columns)})

rms_norm_modulate_backward(op) ==
  LET weighted == Len(op.inputs) = 4
      columns == Dim(In(op, 1), 1)
      scale == IF weighted THEN 3 ELSE 2
      weights(S) == IF weighted THEN Loads(2, S) ELSE {}
      step(row, column) ==
        LET base == row * columns
            index == base + column
            value == Load(0, index) \cup RowOf(1, base, columns)
        IN  {Store(0, index, UNION {RowOf(k, base, columns) : k \in {0, 1, scale}} \cup weights(Upto(columns))),
             Store(1, index, value \cup weights({column})), Store(2, index, Load(0, index))}
  IN  UNION {step(row, column) : row \in Upto(Dim(In(op, 1), 0)), column \in Upto(columns)}
      \cup (IF ~weighted THEN {}
            ELSE {Store(3, column, Column(op, 0, column) \cup Column(op, scale, column)
                                     \cup Loads(1, Upto(Size(In(op, 1))))) : column \in Upto(columns)})

layer_norm_backward(op) ==
  LET columns == Back(In(op, 1))
  IN  {Store(0, row * columns + column,
             UNION {RowOf(k, row * columns, columns) : k \in {0, 1}} \cup RowOf(2, 0, columns)) :
       row \in Upto(Lines(In(op, 1))), column \in Upto(columns)}
      \cup UNION {{Store(1, column, Column(op, 0, column) \cup Loads(1, Upto(Size(In(op, 1))))),
                   Store(2, column, Column(op, 0, column))} : column \in Upto(columns)}

swiglu_backward(op) ==
  LET width == Back(In(op, 0))
      input_width == Back(In(op, 1))
      rows == Upto(Lines(In(op, 0)))
      zeros == {Store(0, row * input_width + column, {}) : row \in rows, column \in Upto(input_width)}
      first(row, column) == row * input_width + Attr(op, "Start", 0) + column
      step(row, column) ==
        LET value == Value(op, first(row, column), width)
            gate  == Gate(op, first(row, column), width)
            upstream == Load(0, row * width + column)
        IN  {Store(0, value, Load(1, gate) \cup upstream),
             Store(0, gate, Loads(1, {value, gate}) \cup upstream)}
  IN  Over(zeros, UNION {step(row, column) : row \in rows, column \in Upto(width)})

-----------------------------------------------------------------------------
(* Data that moves: every element of the output from one of the input.     *)
Copied(op, Source(_)) == {Store(0, i, Load(0, Source(i))) : i \in Upto(Size(Out(op, 0)))}

broadcast_to(op) ==
  LET input == In(op, 0)
      rank_pad == Rank(Out(op, 0)) - Rank(input)
      at(i, k) == IF input.dims[k] = 1 THEN 0 ELSE Coordinate(Out(op, 0).dims, i, rank_pad + k)
  IN  Copied(op, LAMBDA i : Index(input.dims, [k \in DOMAIN input.dims |-> at(i, k)]))

slice_tensor(op) ==
  LET input == In(op, 0)
      at(i, k) == Coordinate(Out(op, 0).dims, i, k)
                    + (IF k = Attr(op, "Axis", 0) + 1 THEN Attr(op, "Start", 0) ELSE 0)
  IN  Copied(op, LAMBDA i : Index(input.dims, [k \in DOMAIN input.dims |-> at(i, k)]))

permute(op) ==
  LET input == In(op, 0)
      stride(k) == Count(SubSeq(input.dims, k + 2, Rank(input)))
  IN  Copied(op, LAMBDA i :
        FoldLeft(LAMBDA n, k : n + Coordinate(Out(op, 0).dims, i, k) * stride(Attr(op, "Permutation", <<>>)[k]),
                 0, [k \in DOMAIN input.dims |-> k]))

concat(op) ==
  LET axis == Attr(op, "Axis", 0)
      first == In(op, 0)
      outer == Count(SubSeq(first.dims, 1, axis))
      inner == Count(SubSeq(first.dims, axis + 2, Rank(first)))
      output_axis_offset(k) == FoldLeft(LAMBDA n, t : n + Dim(t, axis), 0, SubSeq(op.inputs, 1, k))
      elements(k) == Dim(In(op, k), axis) * inner
      chunk(o, k) ==
        {Store(0, (o * Dim(Out(op, 0), axis) + output_axis_offset(k)) * inner + e,
               Load(k, o * elements(k) + e)) : e \in Upto(elements(k))}
  IN  UNION {chunk(o, k) : o \in Upto(outer), k \in Upto(Len(op.inputs))}

patchify_3d(op, inverse) ==
  LET volume == IF inverse THEN Out(op, 0) ELSE In(op, 0)
      rows == IF inverse THEN In(op, 0) ELSE Out(op, 0)
      patches == [k \in 1 .. 3 |-> volume.dims[k + 2] \div Patch(op)[k]]
      batch(row) == row \div Count(patches)
      channel(column) == column \div Count(Patch(op))
      at(row, column) ==
        [k \in 1 .. 3 |-> Coordinate(patches, row, k) * Patch(op)[k] + Coordinate(Patch(op), column, k)]
      volume_index(row, column) ==
        Index(volume.dims, <<batch(row), channel(column)>> \o at(row, column))
      row_index(row, column) == row * Dim(volume, 1) * Count(Patch(op)) + column
  IN  {IF inverse THEN Store(0, volume_index(row, column), Load(0, row_index(row, column)))
                  ELSE Store(0, row_index(row, column), Load(0, volume_index(row, column))) :
       row \in Upto(Dim(rows, 0)), column \in Upto(Dim(rows, 1))}

(* By a row number out of an integer input.                                *)
gather_rows(op, bound) ==
  LET row_width == Size(In(op, 0)) \div Dim(In(op, 0), 0)
  IN  {Store(0, row * row_width + column,
             Load(0, bound[1][row] * row_width + column) \cup Load(1, row)) :
       row \in Upto(Dim(Out(op, 0), 0)), column \in Upto(row_width)}

indexed_update_rows(op, bound) ==
  LET rows == Dim(In(op, 0), 0)
      row_width == Size(In(op, 0)) \div rows
      source(row, column) ==
        IF bound[2][row] < 0 THEN Load(0, row * row_width + column)
                             ELSE Load(1, bound[2][row] * row_width + column)
  IN  {Store(0, row * row_width + column, source(row, column) \cup Load(2, row)) :
       row \in Upto(rows), column \in Upto(row_width)}

select_row_chunks(op, bound) ==
  LET width == Dim(Out(op, 0), 1)
  IN  {Store(chunk, row * width + column,
             Load(0, bound[1][row] * Dim(In(op, 0), 1) + chunk * width + column) \cup Load(1, row)) :
       row \in Upto(Size(In(op, 1))), chunk \in Upto(Len(op.outputs)), column \in Upto(width)}

h3_adaln_select(op, bound) ==
  LET hidden == Dim(Out(op, 0), 1)
  IN  {Store(chunk, row * hidden + col,
             Load(0, (bound[1][row] * 6 + chunk) * hidden + col) \cup Load(1, row)) :
       chunk \in Upto(6), row \in Upto(Dim(Out(op, 0), 0)), col \in Upto(hidden)}

h3_deinterleave_qkv(op) ==
  LET heads == Dim(Out(op, 0), 1)
      dim == Dim(Out(op, 0), 2)
  IN  {Store(component, (row * heads + head) * dim + d,
             Load(0, row * 3 * heads * dim + (head * 3 + component) * dim + d)) :
       component \in Upto(3), row \in Upto(Dim(Out(op, 0), 0)), head \in Upto(heads), d \in Upto(dim)}

h3_deinterleave_qkv_weight(op) ==
  LET dim == Attr(op, "HeadDim", 0)
      hidden == Dim(Out(op, 0), 1)
  IN  {Store(component, (head * dim + d) * hidden + column,
             Load(0, ((head * 3 + component) * dim + d) * hidden + column)) :
       component \in Upto(3), head \in Upto(Attr(op, "Heads", 0)), d \in Upto(dim),
       column \in Upto(hidden)}

pad_constant(op) ==
  LET dims == SubSeq(In(op, 0).dims, 1, 2) \o Spatial(In(op, 0))
      padded == SubSeq(dims, 1, 2) \o Spatial(Out(op, 0))
      at(i) == [k \in 1 .. 5 |-> Coordinate(dims, i, k)]
      moved(i) == [k \in 1 .. 5 |-> at(i)[k] + (<<0, 0>> \o Before(op))[k]]
  IN  Over({Store(0, i, {}) : i \in Upto(Size(Out(op, 0)))},
           {Store(0, Index(padded, moved(i)), Load(0, i)) : i \in Upto(Size(In(op, 0)))})

reflect_coordinate(position, before, length) ==
  IF position < before THEN before - position
  ELSE IF position - before < length THEN position - before
  ELSE 2 * length - 2 - (position - before)

pad_reflect(op) ==
  LET dims == SubSeq(In(op, 0).dims, 1, 2) \o Spatial(In(op, 0))
      padded == SubSeq(dims, 1, 2) \o Spatial(Out(op, 0))
      at(i, k) == IF k <= 2 THEN Coordinate(padded, i, k)
                  ELSE reflect_coordinate(Coordinate(padded, i, k), Before(op)[k - 2], dims[k])
  IN  Copied(op, LAMBDA i : Index(dims, [k \in 1 .. 5 |-> at(i, k)]))

upsample_nearest_2d(op) ==
  LET out == Out(op, 0).dims
      at(i) == <<Coordinate(out, i, 1), Coordinate(out, i, 2),
                 Coordinate(out, i, 3) \div Attr(op, "ScaleH", 1),
                 Coordinate(out, i, 4) \div Attr(op, "ScaleW", 1)>>
  IN  Copied(op, LAMBDA i : Index(In(op, 0).dims, at(i)))

boolean_mask_to_bias(op) ==
  LET mask == In(op, 0)
      sequence == Dim(Out(op, 0), 2)
      of(b, query, key) ==
        IF Rank(mask) = 3 THEN {(b * sequence + query) * sequence + key}
        ELSE {b * sequence + key} \cup
             (IF Attr(op, "MaskQueries", TRUE) THEN {b * sequence + query} ELSE {})
  IN  {Store(0, (b * sequence + query) * sequence + key, Loads(0, of(b, query, key))) :
       b \in Upto(Dim(Out(op, 0), 0)), query \in Upto(sequence), key \in Upto(sequence)}

-----------------------------------------------------------------------------
(* Products of rows by rows of the weight.                                 *)
RowsByRows(op, rows, columns, inner, Also(_, _)) ==
  {Store(0, row * columns + column,
         RowOf(0, row * inner, inner) \cup RowOf(1, column * inner, inner) \cup Also(row, column)) :
   row \in Upto(rows), column \in Upto(columns)}

Scaled(op, Also(_, _)) ==
  RowsByRows(op, Lines(In(op, 0)), Dim(In(op, 1), 0), Back(In(op, 0)), Also)

linear(op) ==
  LET rows == Dim(In(op, 0), 0)
  IN  RowsByRows(op, rows, Dim(In(op, 1), 0), Size(In(op, 0)) \div rows,
                 LAMBDA row, column : IF Len(op.inputs) = 3 THEN Load(2, column) ELSE {})

linear_int8_scaled(op)        == Scaled(op, LAMBDA row, column : Load(2, row) \cup Load(3, column))
linear_int8_weight_scaled(op) == Scaled(op, LAMBDA row, column : Load(2, column))
linear_fp8_scaled(op)         == Scaled(op, LAMBDA row, column : Load(2, row) \cup Load(3, column))

linear_backward_input(op) ==
  LET outputs == Dim(In(op, 1), 0)
      inner == Dim(In(op, 1), 1)
  IN  {Store(0, row * inner + column,
             RowOf(0, row * outputs, outputs)
               \cup Loads(1, {output * inner + column : output \in Upto(outputs)})) :
       row \in Upto(Size(In(op, 0)) \div outputs), column \in Upto(inner)}

linear_backward_weight(op) ==
  LET outputs == Dim(Out(op, 0), 0)
      inner == Dim(Out(op, 0), 1)
      rows == Upto(Size(In(op, 1)) \div inner)
  IN  {Store(0, output * inner + column,
             Loads(0, {row * outputs + output : row \in rows})
               \cup Loads(1, {row * inner + column : row \in rows})) :
       output \in Upto(outputs), column \in Upto(inner)}

(* Quantization of rows whose columns may come from several inputs.        *)
load_input(op, row, column) ==
  LET before(k) == FoldLeft(LAMBDA n, t : n + Back(t), 0, SubSeq(Parts(op), 1, k))
      k == CHOOSE j \in Upto(Len(Parts(op))) : before(j) <= column /\ column < before(j + 1)
  IN  Load(k, row * Back(In(op, k)) + column - before(k))

(* The columns mixed into one by the turns of a rotation.                  *)
Quad(lane, group, stride) ==
  LET index == group + (lane % stride) + (lane \div stride) * 4 * stride
  IN  {index + turn * stride : turn \in 0 .. 3}

transformed(op, columns) ==
  LET width == TransformWidth(op)
      strides == SelectSeq(<<1, 4, 16, 64, 256, 1024, 4096>>, LAMBDA stride : stride < width)
      quads(stride) ==
        {Quad(lane, group * width, stride) : lane \in Upto(width \div 4), group \in Upto(columns \div width)}
      turned(mixed, stride) ==
        LET of == [column \in DOMAIN mixed |-> UNION {q \in quads(stride) : column \in q}]
        IN  [column \in DOMAIN mixed |-> UNION {mixed[c] : c \in of[column]}]
  IN  FoldLeft(turned, [column \in Upto(columns) |-> {column}], strides)

quantize_int8_rows(op) ==
  LET columns == Back(Out(op, 0))
      mixed == IF Rotated(op) THEN transformed(op, columns) ELSE [c \in Upto(columns) |-> {c}]
      load == [row \in Upto(Lines(Out(op, 0))) |->
                 [c \in Upto(columns) |-> load_input(op, row, c)]]
      value(row, c) == UNION {load[row][d] : d \in mixed[c]}
                         \cup (IF Rotated(op) THEN {<<"scratch", 0, d>> : d \in mixed[c]} ELSE {})
      whole(row) == UNION {load[row][d] : d \in Upto(columns)}
      clip == IF Len(Parts(op)) < Len(op.inputs) THEN Load(Len(op.inputs) - 1, 0) ELSE {}
      quantized(row, c) == Store(0, row * columns + c, value(row, c) \cup Result(1, row))
      residual(row, c) == Store(2, row * columns + c,
        value(row, c) \cup Result(0, row * columns + c) \cup Result(1, row) \cup Result(3, row))
      residual_scale(row) == Store(3, row,
        whole(row) \cup {<<"out", 0, row * columns + c>> : c \in Upto(columns)} \cup Result(1, row))
      elements == {<<row, c>> : row \in DOMAIN load, c \in Upto(columns)}
  IN  {Store(1, row, whole(row) \cup clip) : row \in DOMAIN load}
      \cup {quantized(e[1], e[2]) : e \in elements}
      \cup (IF Len(op.outputs) = 2 THEN {}
            ELSE {residual(e[1], e[2]) : e \in elements} \cup {residual_scale(row) : row \in DOMAIN load})

quantize_fp8_rows(op) ==
  LET columns == Back(In(op, 0))
      rows == Upto(Lines(In(op, 0)))
  IN  {Store(1, row, RowOf(0, row * columns, columns)) : row \in rows}
      \cup {Store(0, row * columns + c, Load(0, row * columns + c) \cup Result(1, row)) :
            row \in rows, c \in Upto(columns)}

fp8_block_scale_offset(outer, inner_block, scale_inner_dimension) ==
  LET tile_outer == outer \div 128
      tile_inner == (inner_block \div 4) * 4
      within == (outer % 32) * 16 + ((outer % 128) \div 32) * 4 + (inner_block % 4)
  IN  (tile_inner + tile_outer * scale_inner_dimension) * 128 + within

(* The columns of a block, the last of which may be short.                 *)
Block(block, columns) ==
  LET begin == block * 32
  IN  begin .. (IF columns < begin + 32 THEN columns ELSE begin + 32) - 1

quantize_fp8_blocks32(op) ==
  LET columns == Back(In(op, 0))
      rows == Upto(Lines(In(op, 0)))
      blocks == Upto(Ceil(columns, 32))
      scale(row, block) == fp8_block_scale_offset(row, block, Dim(Out(op, 1), 1))
      at(row, block) == {row * columns + c : c \in Block(block, columns)}
  IN  Over({Store(1, i, {}) : i \in Upto(Size(Out(op, 1)))},
           {Store(1, scale(row, block), Loads(0, at(row, block))) : row \in rows, block \in blocks})
      \cup UNION {{Store(0, i, Load(0, i) \cup Result(1, scale(row, block))) : i \in at(row, block)} :
                  row \in rows, block \in blocks}

linear_fp8_block_scaled(op) ==
  LET scales(k, outer) == Loads(k, {fp8_block_scale_offset(outer, block, Dim(In(op, 2), 1)) :
                                    block \in Upto(Ceil(Back(In(op, 0)), 32))})
  IN  Scaled(op, LAMBDA row, column : scales(2, row) \cup scales(3, column))

dequantize_int8_blocks(op) ==
  LET columns == Dim(In(op, 0), 1)
      scale(row, c) == row * Dim(In(op, 1), 1) + c \div Attr(op, "BlockSize", 0)
  IN  {Store(0, row * columns + c, Load(0, row * columns + c) \cup Load(1, scale(row, c))) :
       row \in Upto(Dim(In(op, 0), 0)), c \in Upto(columns)}

(* The scale of the group of an element.                                   *)
GroupOf(op, row, column) ==
  LET group == Attr(op, "GroupSize", 64)
  IN  row * (Back(Out(op, 0)) \div group) + column \div group

Unpacked(op, From(_, _)) ==
  LET columns == Dim(Out(op, 0), 1)
  IN  {Store(0, row * columns + column, From(row, column)) :
       row \in Upto(Dim(Out(op, 0), 0)), column \in Upto(columns)}

dequantize_int4(op) ==
  Unpacked(op, LAMBDA row, column :
    Load(0, row * (Dim(Out(op, 0), 1) \div 2) + column \div 2)
      \cup UNION {Load(k, GroupOf(op, row, column)) : k \in 1 .. Len(op.inputs) - 1})

dequantize_int5(op) ==
  LET row_bytes == (Dim(Out(op, 0), 1) * 5) \div 8
      bytes(row, bit) ==
        LET byte_index == row * row_bytes + bit \div 8
        IN  IF (bit % 8) + 5 > 8 THEN {byte_index, byte_index + 1} ELSE {byte_index}
  IN  Unpacked(op, LAMBDA row, column :
        Loads(0, bytes(row, column * 5)) \cup Load(1, GroupOf(op, row, column))
          \cup (IF Len(op.inputs) = 3 THEN Load(2, column) ELSE {}))

-----------------------------------------------------------------------------
(* Positions and rotations.                                                *)
sinusoidal_timestep(op) ==
  LET width == Dim(Out(op, 0), 1)
      angles == 2 * (width \div 2)       \* a last odd column is zero
  IN  {Store(0, row * width + column, IF column < angles THEN Load(0, row) ELSE {}) :
       row \in Upto(Dim(In(op, 0), 0)), column \in Upto(width)}

rotary_position(op) ==
  LET axes == Dim(In(op, 0), 1)
      frequencies == Dim(In(op, 1), 0)
      width == 2 * axes * frequencies
      component(column) == column % (axes * frequencies)
  IN  {Store(k, row * width + column,
             Load(0, row * axes + component(column) \div frequencies)
               \cup Load(1, component(column) % frequencies)) :
       k \in {0, 1}, row \in Upto(Dim(In(op, 0), 0)), column \in Upto(width)}

rotary_frequency(op, bound) ==
  LET axes == Dim(In(op, 0), 2)
      pairs == Dim(In(op, 1), 0)
  IN  {Store(k, token * pairs + pair,
             Load(0, token * axes + bound[1][pair]) \cup Load(1, pair) \cup Load(2, pair)
               \cup Load(3, bound[1][pair])) :
       k \in {0, 1}, token \in Upto(Size(In(op, 0)) \div axes), pair \in Upto(pairs)}

rotary_apply(op) ==
  LET heads == Dim(In(op, 0), 2)
      dim == Dim(In(op, 0), 3)
      pairs == Dim(In(op, 1), 2)
      from(token, base, d) ==
        LET pair == d \div 2
            at == token * pairs + pair
        IN  IF pair >= pairs THEN Load(0, base + d)
            ELSE Loads(0, {base + 2 * pair, base + 2 * pair + 1}) \cup Load(1, at) \cup Load(2, at)
  IN  {LET base == (token * heads + head) * dim IN Store(0, base + d, from(token, base, d)) :
       token \in Upto(Size(In(op, 0)) \div (heads * dim)), head \in Upto(heads), d \in Upto(dim)}

(* The pairs of a head that are rotated with each other, as [first, second,*)
(* at first, at second]: two elements and their columns of the tables.     *)
Pair(first, second, at_first, at_second) == <<first, second, at_first, at_second>>
HalfSplit(rotary, table_width) ==
  LET half == rotary \div 2
  IN  {Pair(d, d + half, d, IF table_width = rotary THEN d + half ELSE d) : d \in Upto(half)}
Interleaved(table_width) == {Pair(2 * pair, 2 * pair + 1, pair, pair) : pair \in Upto(table_width)}

qk_norm_rope(op) ==
  LET input == In(op, 0)
      cos == In(op, 2)
      heads == Heads(input)
      dim == Back(input)
      input_sequence == Sequence(input)
      rotary == Attr(op, "RotaryDim", dim)
      table_token(token) ==
        (token \div input_sequence) * Dim(cos, Rank(cos) - 2) + Attr(op, "Start", 0)
          + (token % input_sequence)
      normalized(base, d) == RowOf(0, base, dim) \cup Load(1, d) \cup {<<"scratch", 0, d>>}
      interleaved == /\ Attr(op, "Implementation", 1) = 2
                     /\ Attr(op, "RotaryLayout", "HalfSplit") = "Interleaved"
      pairs == IF interleaved THEN Interleaved(Back(cos)) ELSE HalfSplit(rotary, Back(cos))
      rotated(token, base, p) ==
        LET mixed(column) ==
              LET at == table_token(token) * Back(cos) + column
              IN  normalized(base, p[1]) \cup normalized(base, p[2]) \cup Load(2, at) \cup Load(3, at)
        IN  {Store(0, base + p[1], mixed(p[3])), Store(0, base + p[2], mixed(p[4]))}
      head(token, base) ==
        Over(UNION {rotated(token, base, p) : p \in pairs},
             {Store(0, base + d, normalized(base, d)) : d \in rotary .. dim - 1})
  IN  UNION {head(token, (token * heads + h) * dim) :
             token \in Upto(Size(input) \div (heads * dim)), h \in Upto(heads)}

qk_norm_rope_backward(op) ==
  LET input == In(op, 1)
      heads == Dim(input, 1)
      dim == Dim(input, 2)
      rotary == Attr(op, "RotaryDim", dim)
      table_width == Dim(In(op, 3), 1)
      tables(row, columns) == UNION {Loads(k, {row * table_width + c : c \in columns}) : k \in {3, 4}}
      rotated_gradient(row, base, d) ==
        {<<"scratch", 0, d>>} \cup
        (IF d >= rotary THEN Load(0, base + d)
         ELSE LET p == CHOOSE q \in HalfSplit(rotary, table_width) : d \in {q[1], q[2]}
              IN  Loads(0, {base + p[1], base + p[2]}) \cup tables(row, {p[3], p[4]}))
      base(row, head) == (row * heads + head) * dim
      dot(row, b) == UNION {rotated_gradient(row, b, d) : d \in Upto(dim)}
                       \cup RowOf(1, b, dim) \cup RowOf(2, 0, dim)
      rows == Upto(Dim(input, 0))
      weight_accumulator(d) ==
        UNION {rotated_gradient(row, base(row, head), d) \cup RowOf(1, base(row, head), dim) :
               row \in rows, head \in Upto(heads)}
  IN  UNION {LET b == base(row, head)
                 of == dot(row, b)
             IN  {Store(0, b + d, of) : d \in Upto(dim)} :
             row \in rows, head \in Upto(heads)}
      \cup (IF Len(op.outputs) = 1 THEN {}
            ELSE {Store(1, d, weight_accumulator(d)) : d \in Upto(dim)})

-----------------------------------------------------------------------------
(* Attention: query head h reads head h \div group of k and v.             *)
KeyEnd(op, query, sequence) == IF Attr(op, "Causal", FALSE) THEN query + 1 ELSE sequence
RowBase(t, b, row, head) == ((b * Sequence(t) + row) * Heads(t) + head) * Back(t)
(* A mutant deals the query heads out in turn.                             *)
KvHead_Mutant(op, q, head) == head % KvHeads(op, q)
KvHead(op, q, head) == head \div (Heads(q) \div KvHeads(op, q))

attention(op) ==
  LET q == In(op, 0)
      k == In(op, 1)
      sequence == Sequence(q)
      keys(b, query, head) ==
        {RowBase(k, b, key, KvHead(op, q, head)) : key \in Upto(KeyEnd(op, query, sequence))}
      bias(b, query) ==
        IF Len(op.inputs) = 4 THEN RowOf(3, (b * sequence + query) * sequence, KeyEnd(op, query, sequence))
        ELSE {}
      score(b, query, head) ==
        RowOf(0, RowBase(q, b, query, head), Back(q)) \cup bias(b, query)
          \cup UNION {RowOf(1, base, Back(q)) : base \in keys(b, query, head)}
      row(b, query, head) ==
        LET of == score(b, query, head)
        IN  {Store(0, RowBase(q, b, query, head) + d,
                   of \cup Loads(2, {base + d : base \in keys(b, query, head)})) : d \in Upto(Back(q))}
  IN  UNION {row(b, query, head) :
             b \in Upto(Outer(q, 3)), query \in Upto(sequence), head \in Upto(Heads(q))}

attention_lse(op) ==
  LET q == In(op, 0)
      k == In(op, 1)
      keys(query, head) ==
        {RowBase(k, 0, key, KvHead(op, q, head)) : key \in Upto(KeyEnd(op, query, Sequence(q)))}
  IN  {Store(0, query * Heads(q) + head,
             RowOf(0, RowBase(q, 0, query, head), Back(q))
               \cup UNION {RowOf(1, base, Back(q)) : base \in keys(query, head)}) :
       query \in Upto(Sequence(q)), head \in Upto(Heads(q))}

(* The gradients of a key collect those of the queries that read it.       *)
attention_backward(op) ==
  LET q == In(op, 1)
      k == In(op, 2)
      dim == Back(q)
      sequence == Sequence(q)
      base(query, head) == RowBase(q, 0, query, head)
      key_base(key, head) == RowBase(k, 0, key, KvHead(op, q, head))
      probability(query, head, key) ==
        RowOf(1, base(query, head), dim) \cup RowOf(2, key_base(key, head), dim)
          \cup Load(5, query * Heads(q) + head)
      row_gradient(query, head, key) ==
        probability(query, head, key) \cup RowOf(3, key_base(key, head), dim)
          \cup UNION {RowOf(i, base(query, head), dim) : i \in {0, 4}}
      grad_q(query, head) ==
        LET of == UNION {row_gradient(query, head, key) : key \in Upto(KeyEnd(op, query, sequence))}
        IN  {Store(0, base(query, head) + d, of) : d \in Upto(dim)}
      readers(key, kv_head) ==
        {r \in Upto(sequence) \X Upto(Heads(q)) :
           KvHead(op, q, r[2]) = kv_head /\ key < KeyEnd(op, r[1], sequence)}
      grad_kv(key, kv_head) ==
        LET rows == readers(key, kv_head)
            scores == UNION {row_gradient(r[1], r[2], key) : r \in rows}
            weights == UNION {probability(r[1], r[2], key) : r \in rows}
            at == RowBase(k, 0, key, kv_head)
        IN  {Store(1, at + d, scores) : d \in Upto(dim)} \cup
            {Store(2, at + d, weights \cup Loads(0, {base(r[1], r[2]) + d : r \in rows})) :
             d \in Upto(dim)}
  IN  UNION {grad_q(query, head) : query \in Upto(sequence), head \in Upto(Heads(q))} \cup
      UNION {grad_kv(key, kv_head) : key \in Upto(sequence), kv_head \in Upto(Heads(k))}

-----------------------------------------------------------------------------
(* Convolutions.  sample: the element of a padded row, none outside of it  *)
(* unless its ends are repeated.                                           *)
sample(op, base, position) ==
  LET length == Dim(In(op, 0), 2)
      index == position - Attr(op, "PadLeft", 0)
  IN  IF index \in Upto(length) THEN Load(0, base + index)
      ELSE IF Attr(op, "PadMode", 0) # 1 THEN {}
      ELSE Load(0, base + (IF index < 0 THEN 0 ELSE length - 1))

Bias(op, channel) == IF Len(op.inputs) = 3 THEN Load(2, channel) ELSE {}

(* Source and number of the channels that make output channel oc.          *)
InChannels(op, oc, out_channels) ==
  LET in_per_group == Dim(In(op, 0), 1) \div Groups(op)
  IN  Row((oc \div (out_channels \div Groups(op))) * in_per_group, in_per_group)

ConvolvedRows(op, From(_, _, _)) ==
  LET out == Out(op, 0)
  IN  {Store(0, (b * Dim(out, 1) + oc) * Dim(out, 2) + o, From(b, oc, o) \cup Bias(op, oc)) :
       b \in Upto(Dim(out, 0)), oc \in Upto(Dim(out, 1)), o \in Upto(Dim(out, 2))}

in_row(op, b, channel) == (b * Dim(In(op, 0), 1) + channel) * Dim(In(op, 0), 2)

conv1d_f32(op) ==
  LET kernel == Dim(In(op, 1), 2)
      in_per_group == Dim(In(op, 0), 1) \div Groups(op)
      tap(b, oc, o, channel, k) ==
        sample(op, in_row(op, b, channel), o * Attr(op, "Stride", 1) + k * Attr(op, "Dilation", 1))
          \cup Load(1, (oc * in_per_group + (channel % in_per_group)) * kernel + k)
  IN  ConvolvedRows(op, LAMBDA b, oc, o :
        UNION {tap(b, oc, o, channel, k) :
               channel \in InChannels(op, oc, Dim(Out(op, 0), 1)), k \in Upto(kernel)})

(* Transposed: every element i is spread over stride * i + 0 .. kernel - 1.*)
conv1d_transposed(op) ==
  LET kernel == Dim(In(op, 1), 2)
      out_per_group == Dim(Out(op, 0), 1) \div Groups(op)
      padded == Dim(In(op, 0), 2) + Attr(op, "PadLeft", 0) + Attr(op, "PadRight", 0)
      reached(o) ==
        {ik \in Upto(padded) \X Upto(kernel) :
           ik[1] * Attr(op, "Stride", 1) + ik[2] - Attr(op, "TrimLeft", 0) = o}
      tap(b, oc, channel, ik) ==
        sample(op, in_row(op, b, channel), ik[1])
          \cup Load(1, (channel * out_per_group + (oc % out_per_group)) * kernel + ik[2])
  IN  ConvolvedRows(op, LAMBDA b, oc, o :
        UNION {tap(b, oc, channel, ik) :
               channel \in InChannels(op, oc, Dim(Out(op, 0), 1)), ik \in reached(o)})

conv1d(op) == IF Attr(op, "Transposed", FALSE) THEN conv1d_transposed(op) ELSE conv1d_f32(op)

(* Of an image or a volume: what lies outside of it is left out.           *)
conv3d(op) ==
  LET Volume(t) == SubSeq(t.dims, 1, 2) \o Spatial(t)
      input == Volume(In(op, 0))
      weight == Volume(In(op, 1))
      out == Volume(Out(op, 0))
      tap(o, w, k) ==
        Coordinate(out, o, k + 2) * Strides(op)[k] + Coordinate(weight, w, k + 2) * Dilations(op)[k]
          - Before(op)[k]
      product(o, w, channel) ==
        LET at == [k \in 1 .. 3 |-> tap(o, w, k)]
        IN  IF \E k \in 1 .. 3 : at[k] \notin Upto(input[k + 2]) THEN {}
            ELSE Load(0, Index(input, <<Coordinate(out, o, 1), channel>> \o at)) \cup Load(1, w)
      taps(oc, channel) ==
        Row((oc * weight[2] + (channel % weight[2])) * Count(Spatial(In(op, 1))), Count(Spatial(In(op, 1))))
      from(o, oc) == UNION {UNION {product(o, w, channel) : w \in taps(oc, channel)} :
                            channel \in InChannels(op, oc, weight[1])}
  IN  {Store(0, o, from(o, Coordinate(out, o, 2)) \cup Bias(op, Coordinate(out, o, 2))) :
       o \in Upto(Size(Out(op, 0)))}

conv2d(op) == conv3d(op)

channel_rms_norm(op) ==
  LET axis == Attr(op, "Axis", 1)
      channels == Dim(In(op, 0), axis)
      inner == Count(SubSeq(In(op, 0).dims, axis + 2, Rank(In(op, 0))))
      at(leading, channel, trailing) == (leading * channels + channel) * inner + trailing
  IN  {Store(0, at(leading, channel, trailing),
             Loads(0, {at(leading, c, trailing) : c \in Upto(channels)}) \cup Load(1, channel)) :
       leading \in Upto(Size(In(op, 0)) \div (channels * inner)), channel \in Upto(channels),
       trailing \in Upto(inner)}

group_norm(op) ==
  LET channels_per_group == Dim(In(op, 0), 1) \div Groups(op)
      inner == Count(SubSeq(In(op, 0).dims, 3, Rank(In(op, 0))))
      elements_per_group == channels_per_group * inner
      base(batch, group) == (batch * Dim(In(op, 0), 1) + group * channels_per_group) * inner
      channel(group, index) == group * channels_per_group + index \div inner
  IN  {Store(0, base(batch, group) + index,
             RowOf(0, base(batch, group), elements_per_group)
               \cup UNION {Load(k, channel(group, index)) : k \in {1, 2}}) :
       batch \in Upto(Dim(In(op, 0), 0)), group \in Upto(Groups(op)),
       index \in Upto(elements_per_group)}

snake_beta(op) ==
  LET channels == Dim(In(op, 0), 1)
      length == Dim(In(op, 0), 2)
  IN  {Store(0, (b * channels + c) * length + i,
             Load(0, (b * channels + c) * length + i) \cup Load(1, c) \cup Load(2, c)) :
       b \in Upto(Dim(In(op, 0), 0)), c \in Upto(channels), i \in Upto(length)}

-----------------------------------------------------------------------------
(* What a kernel refuses of the integers bound to its inputs.              *)
OutsideTable(bound, k, rows) == \E i \in DOMAIN bound[k] : bound[k][i] < 0 \/ bound[k][i] >= rows

rotary_frequency_fails(op, bound) ==
  \E pair \in DOMAIN bound[1] :
     LET axis == bound[1][pair]
     IN  \/ axis < 0 \/ axis >= Dim(In(op, 0), 2) \/ bound[2][pair] < 0
         \/ bound[3][axis] <= 0 \/ bound[3][axis] % 2 # 0 \/ 2 * bound[2][pair] >= bound[3][axis]

indexed_update_rows_fails(op, bound) ==
  \E row \in DOMAIN bound[2] : bound[2][row] < -1 \/ bound[2][row] >= Dim(In(op, 1), 0)

Fails(op, bound) ==
  LET opcode == op.opcode
  IN  CASE opcode \in {"GatherRows", "SelectRowChunks"} -> OutsideTable(bound, 1, Dim(In(op, 0), 0))
        [] opcode = "H3AdaLNSelect" -> OutsideTable(bound, 1, Dim(In(op, 0), 0) * 3)
        [] opcode = "IndexedUpdateRows" -> indexed_update_rows_fails(op, bound)
        [] opcode = "RotaryFrequency" -> rotary_frequency_fails(op, bound)
        [] opcode = "AdamWUpdate" -> bound[4][0] < 0
        [] OTHER -> FALSE

(* The vector a kernel allocates for the values between its two loops.     *)
ScratchSize(op) ==
  CASE op.opcode = "QkNormPartialRope"         -> Back(In(op, 0))
    [] op.opcode = "QkNormPartialRopeBackward" -> Dim(In(op, 1), 2)
    [] op.opcode = "QuantizeInt8Rows"          -> Back(Out(op, 0))
    [] OTHER                                   -> 0

(* The kernel of an opcode.                                                *)
Kernel(op, bound) ==
  LET opcode == op.opcode
  IN  CASE opcode = "Barrier" -> {}
        [] opcode \in {"Add", "Multiply"} -> elementwise(op)
        [] opcode = "AffineLastDim" -> affine_last_dim(op)
        [] opcode = "SiLU" -> silu(op)
        [] opcode = "Gelu" -> gelu(op)
        [] opcode = "Sigmoid" -> sigmoid(op)
        [] opcode = "QuantizeInt8Rows" -> quantize_int8_rows(op)
        [] opcode = "LinearInt8Scaled" -> linear_int8_scaled(op)
        [] opcode = "LinearInt8WeightScaled" -> linear_int8_weight_scaled(op)
        [] opcode = "QuantizeFp8Rows" -> quantize_fp8_rows(op)
        [] opcode = "LinearFp8Scaled" -> linear_fp8_scaled(op)
        [] opcode = "QuantizeFp8Blocks32" -> quantize_fp8_blocks32(op)
        [] opcode = "LinearFp8BlockScaled" -> linear_fp8_block_scaled(op)
        [] opcode = "DequantizeInt8Blocks" -> dequantize_int8_blocks(op)
        [] opcode = "Reshape" -> reshape(op)
        [] opcode = "BroadcastTo" -> broadcast_to(op)
        [] opcode = "Slice" -> slice_tensor(op)
        [] opcode = "RotaryFrequency" -> rotary_frequency(op, bound)
        [] opcode = "RotaryApply" -> rotary_apply(op)
        [] opcode = "BooleanMaskToBias" -> boolean_mask_to_bias(op)
        [] opcode = "RmsNorm" -> rms_norm(op)
        [] opcode = "LayerNorm" -> layer_norm(op)
        [] opcode = "LayerNormModulate" -> layer_norm_modulate(op)
        [] opcode = "Clamp" -> clamp(op)
        [] opcode = "MseLoss" -> mse_loss(op)
        [] opcode = "MseLossBackward" -> mse_loss_backward(op)
        [] opcode = "LinearBackwardInput" -> linear_backward_input(op)
        [] opcode = "LinearBackwardWeight" -> linear_backward_weight(op)
        [] opcode = "BiasBackward" -> bias_backward(op)
        [] opcode = "SiLUBackward" -> silu_backward(op)
        [] opcode = "AdamWUpdate" -> adamw_update(op)
        [] opcode = "Fill" -> fill(op)
        [] opcode = "GatherRows" -> gather_rows(op, bound)
        [] opcode = "IndexedUpdateRows" -> indexed_update_rows(op, bound)
        [] opcode = "Cast" -> cast(op)
        [] opcode = "SelectRowChunks" -> select_row_chunks(op, bound)
        [] opcode = "SinusoidalTimestep" -> sinusoidal_timestep(op)
        [] opcode = "RotaryPosition" -> rotary_position(op)
        [] opcode = "LinearBlend" -> linear_blend(op)
        [] opcode = "FlowEulerStep" -> flow_euler_step(op)
        [] opcode = "EulerVelocityStep" -> euler_velocity_step(op)
        [] opcode = "Permute" -> permute(op)
        [] opcode = "Concat" -> concat(op)
        [] opcode = "Patchify3D" -> patchify_3d(op, FALSE)
        [] opcode = "Unpatchify3D" -> patchify_3d(op, TRUE)
        [] opcode = "RmsNormModulate" -> rms_norm_modulate(op)
        [] opcode = "SwiGlu" -> swiglu(op)
        [] opcode = "ResidualGate" -> residual_gate(op)
        [] opcode = "Linear" -> linear(op)
        [] opcode = "QkNormPartialRope" -> qk_norm_rope(op)
        [] opcode = "Attention" -> attention(op)
        [] opcode = "BiasAdd" -> bias_add(op)
        [] opcode = "H3AdaLNSelect" -> h3_adaln_select(op, bound)
        [] opcode = "H3DeinterleaveQkv" -> h3_deinterleave_qkv(op)
        [] opcode = "H3DeinterleaveQkvWeight" -> h3_deinterleave_qkv_weight(op)
        [] opcode = "DequantizeInt4" -> dequantize_int4(op)
        [] opcode = "DequantizeInt5" -> dequantize_int5(op)
        [] opcode = "RmsNormBackward" -> rms_norm_backward(op)
        [] opcode = "RmsNormModulateBackward" -> rms_norm_modulate_backward(op)
        [] opcode = "SwiGluBackward" -> swiglu_backward(op)
        [] opcode = "ResidualGateBackward" -> residual_gate_backward(op)
        [] opcode = "LayerNormBackward" -> layer_norm_backward(op)
        [] opcode = "QkNormPartialRopeBackward" -> qk_norm_rope_backward(op)
        [] opcode = "AttentionLse" -> attention_lse(op)
        [] opcode = "AttentionBackward" -> attention_backward(op)
        [] opcode = "Conv1d" -> conv1d(op)
        [] opcode = "Conv2d" -> conv2d(op)
        [] opcode = "ChannelRmsNorm" -> channel_rms_norm(op)
        [] opcode = "UpsampleNearest2d" -> upsample_nearest_2d(op)
        [] opcode = "PadConstant" -> pad_constant(op)
        [] opcode = "Conv3d" -> conv3d(op)
        [] opcode = "GroupNorm" -> group_norm(op)
        [] opcode = "PadReflect" -> pad_reflect(op)
        [] opcode = "SnakeBeta" -> snake_beta(op)
=============================================================================
