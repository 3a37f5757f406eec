------------------------------ MODULE Rewrite ------------------------------
(***************************************************************************)
(* opt/rewrite.cpp: discovery and application of program transforms, as    *)
(* operators on a RewriteContext.  A context is a record                   *)
(*   ops       the operations in program order: id, op, in, out, attr      *)
(*   tensors   id -> dtype, roles, dims                                    *)
(*   bindings  id -> value of every bound Input and Constant               *)
(*   distance  prefetch_distance                                           *)
(*   ok        FALSE once a transform failed on it                         *)
(* A value is a pair of terms: "exact" is what is computed bit by bit,     *)
(* "real" forgets rounding, storage precision and accumulation order.      *)
(* The context itself stands for its fingerprint.  DiscoveryOptions is a   *)
(* record of the same fields; schedule options, which only set launch      *)
(* attributes, and quantization widths are left out.                       *)
(***************************************************************************)
EXTENDS MemoryPlanReference

F32  == 1
BF16 == 2
F16  == 3
Widening(from, to) == to = F32 /\ from \in {BF16, F16}

DataMovement == {"Cast", "Permute", "H3DeinterleaveQkv", "H3DeinterleaveQkvWeight"}
DTypeUniform == {"Add", "Linear", "BiasAdd"}
Pure(o)   == o.op # "Barrier"
Pinned(o) == o.op = "Gelu" \/ o.attr.accumulator

-----------------------------------------------------------------------------
(* Reading a context.                                                      *)
Declared(c)        == DOMAIN c.tensors
DType(c, t)        == c.tensors[t].dtype
Dims(c, t)         == c.tensors[t].dims
Is(c, t, role)     == role \in c.tensors[t].roles
InternalOnly(c, t) == c.tensors[t].roles = {}
Elements(dims)     == FoldLeft(LAMBDA n, d : n * d, 1, dims)
Bytes(c, t)        == Elements(Dims(c, t)) * IF DType(c, t) = F32 THEN 2 ELSE 1

Positions(c)  == DOMAIN c.ops
Operands(o)   == o.in \o o.out
Has(c, id)    == \E i \in Positions(c) : c.ops[i].id = id
At(c, id)     == CHOOSE i \in Positions(c) : c.ops[i].id = id
Reads(c, t)   == {i \in Positions(c) : t \in ToSet(c.ops[i].in)}
Writes(c, t)  == {i \in Positions(c) : t \in ToSet(c.ops[i].out)}
OnlyReader(c, t) == CHOOSE i \in Reads(c, t) : TRUE
Writer(c, t)     == CHOOSE i \in Writes(c, t) : TRUE
Ids(ops)         == {o.id : o \in ToSet(ops)}
OfIds(ops, ids)  ==         \* the operations of these ids, in program order
  FoldLeft(LAMBDA kept, o : IF o.id \in ids THEN Append(kept, o) ELSE kept, <<>>, ops)
Sites(c, Legal(_)) ==       \* operation ids, in program order
  LET legal == OfIds(c.ops, {o.id : o \in {p \in ToSet(c.ops) : Legal(p)}})
  IN  [k \in DOMAIN legal |-> legal[k].id]

FreshTensor(c)    == Max(Declared(c)) + 1
FreshOperation(c) == Max({0} \cup {c.ops[i].id : i \in Positions(c)}) + 1

-----------------------------------------------------------------------------
(* Changing a context.                                                     *)
Illegal(c) == [c EXCEPT !.ok = FALSE]
Operation(id, op, in, out, attr) ==
  [id |-> id, op |-> op, in |-> in, out |-> out, attr |-> attr]
PlainAttr == [implementation |-> 1, accumulator |-> FALSE]

Temporary(dtype, dims) == [dtype |-> dtype, roles |-> {}, dims |-> dims]
Declare(c, new) ==          \* new tensors, from the first fresh identifier on
  LET first == FreshTensor(c)
  IN  [c EXCEPT !.tensors = [t \in DOMAIN @ \cup (first .. first + Len(new) - 1) |->
                               IF t \in DOMAIN @ THEN @[t] ELSE new[t - first + 1]]]
Erase(c, ids) == [c EXCEPT !.ops = OfIds(@, Ids(@) \ ids)]
Replace(c, at, replacement) ==
  [c EXCEPT !.ops = SubSeq(@, 1, at - 1) \o replacement \o SubSeq(@, at + 1, Len(@))]
Splice(c, ids, replacement) ==
  LET at == Min({i \in Positions(c) : c.ops[i].id \in ids})
  IN  Erase(Replace(c, at, replacement), ids)
Renamed(o, from, to) ==     \* o reads to[k] in the place of from[k]
  [o EXCEPT !.in = [k \in DOMAIN @ |->
     IF @[k] \in ToSet(from) THEN to[CHOOSE j \in DOMAIN from : from[j] = @[k]] ELSE @[k]]]
Substitute(c, from, to) == [c EXCEPT !.ops = [i \in DOMAIN @ |-> Renamed(@[i], from, to)]]

(* prune_unreferenced: declarations nobody uses go, with their bindings.   *)
Prune(c) ==
  LET kept == {t \in Declared(c) : \/ Is(c, t, "Input") \/ Is(c, t, "Output")
                                   \/ Reads(c, t) \cup Writes(c, t) # {}}
      only(f) == [t \in DOMAIN f \ (Declared(c) \ kept) |-> f[t]]
  IN  [c EXCEPT !.tensors = only(@), !.bindings = only(@)]

-----------------------------------------------------------------------------
(* What operations compute.  Exactly: narrowing a widened value gives it   *)
(* back, and splitting the rows of a weight splits the projection.  In the *)
(* reals also: casts do nothing, a bias may be added by the Linear.        *)
Term(op, attr, args) == [op |-> op, attr |-> attr, args |-> args]

CastTerm(from, to, v) ==
  IF v.op = "Cast" /\ v.attr = <<to, from>> /\ Widening(to, from) THEN v.args[1]
  ELSE Term("Cast", <<from, to>>, <<v>>)
LinearTerm(implementation, to, args) == Term("Linear", <<to, implementation>>, args)
DeinterleaveTerm(k, v) ==
  IF v.op = "Linear" /\ Len(v.args) = 2
  THEN Term("Linear", v.attr,
            <<v.args[1], Term("H3DeinterleaveQkvWeight", <<k>>, <<v.args[2]>>)>>)
  ELSE Term("H3DeinterleaveQkv", <<k>>, <<v>>)

ExactTerm(op, implementation, k, from, to, args) ==
  CASE op = "Cast"              -> CastTerm(from, to, args[1])
    [] op = "Linear"            -> LinearTerm(implementation, to, args)
    [] op = "H3DeinterleaveQkv" -> DeinterleaveTerm(k, args[1])
    [] OTHER                    -> Term(op, <<k>>, args)

RealTerm(op, k, args) ==
  CASE op = "Cast" -> args[1]
    [] op = "Linear" /\ Len(args) = 3 ->
         Term("BiasAdd", <<1>>, <<LinearTerm(0, 0, <<args[1], args[2]>>), args[3]>>)
    [] OTHER -> ExactTerm(op, 0, k, 0, 0, args)

(* The k-th output of o, given the values of its inputs.                   *)
Computed(c, o, k, values) ==
  LET from == IF o.in = <<>> THEN 0 ELSE DType(c, o.in[1])
      part(field) == [j \in DOMAIN o.in |-> values[o.in[j]][field]]
  IN  [exact |-> ExactTerm(o.op, o.attr.implementation, k, from, DType(c, o.out[k]), part("exact")),
       real  |-> RealTerm(o.op, k, part("real"))]

Leaf(kind, t) == LET v == Term(kind, <<t>>, <<>>) IN [exact |-> v, real |-> v]

(* The outputs of a program as functions of its inputs: an input stands    *)
(* for any value, not for the one the search happens to have bound.        *)
Bindable(c) == {t \in Declared(c) : Is(c, t, "Input") \/ Is(c, t, "Constant")}
Given(c) ==
  [t \in Bindable(c) |->
     IF Is(c, t, "Input") THEN Leaf("input", t) ELSE c.bindings[t]]

OutputIndex(o, t) == CHOOSE k \in DOMAIN o.out : o.out[k] = t
Written(c, o, values) ==
  [t \in DOMAIN values \cup ToSet(o.out) |->
     IF t \in ToSet(o.out) THEN Computed(c, o, OutputIndex(o, t), values) ELSE values[t]]
Values(c, bound) == FoldLeft(LAMBDA values, o : Written(c, o, values), bound, c.ops)

Meaning(c) ==
  LET all == Values(c, Given(c)) IN [t \in {u \in Declared(c) : Is(c, u, "Output")} |-> all[t]]

(* ir::verify: the graph, and the operand rules of these opcodes.          *)
AsProgram(c) ==
  [count   |-> Len(c.ops),
   inputs  |-> [i \in 0 .. Len(c.ops) - 1 |-> ToSet(c.ops[i + 1].in)],
   outputs |-> [i \in 0 .. Len(c.ops) - 1 |-> ToSet(c.ops[i + 1].out)],
   roles   |-> [t \in Tensors |-> IF t \in Declared(c) THEN c.tensors[t].roles ELSE {}],
   bytes   |-> [t \in Tensors |-> IF t \in Declared(c) THEN Bytes(c, t) ELSE 0]]

(* The operand rules, opcode by opcode.                                    *)
Takes(o, inputs, outputs) == Len(o.in) \in inputs /\ Len(o.out) = outputs
OneType(c, o) == \A t, u \in ToSet(Operands(o)) : DType(c, t) = DType(c, u)
InDims(c, o)  == Dims(c, o.in[1])
OutDims(c, o) == Dims(c, o.out[1])
Thirds(c, o)  == \A k \in 1 .. 3 : OutDims(c, o) = Dims(c, o.out[k])

AddRule(c, o)     == /\ Takes(o, {2}, 1) /\ OneType(c, o)
                     /\ \A t \in ToSet(Operands(o)) : Dims(c, t) = InDims(c, o)
CastRule(c, o)    == Takes(o, {1}, 1) /\ ~OneType(c, o) /\ OutDims(c, o) = InDims(c, o)
PermuteRule(c, o) == /\ Takes(o, {1}, 1) /\ OneType(c, o)
                     /\ Len(OutDims(c, o)) = Len(InDims(c, o))
BiasRule(c, o)    == /\ Takes(o, {2}, 1) /\ OneType(c, o) /\ OutDims(c, o) = InDims(c, o)
                     /\ Dims(c, o.in[2]) = <<Last(InDims(c, o))>>
LinearRule(c, o) ==
  LET rows == InDims(c, o)[1]
      w == Dims(c, o.in[2])
  IN  /\ Takes(o, {2, 3}, 1) /\ OneType(c, o) /\ OutDims(c, o)[1] = rows
      /\ w = <<Elements(OutDims(c, o)) \div rows, Elements(InDims(c, o)) \div rows>>
      /\ Len(o.in) = 3 => Dims(c, o.in[3]) = <<w[1]>>
      /\ o.attr.implementation = 2 => DType(c, o.in[1]) = F32
DeinterleaveRule(c, o) ==
  LET y == OutDims(c, o)
  IN  /\ Takes(o, {1}, 3) /\ OneType(c, o) /\ Thirds(c, o)
      /\ Len(y) = 3 /\ InDims(c, o) = <<y[1], 3 * y[2] * y[3]>>
DeinterleaveWeightRule(c, o) ==
  LET y == OutDims(c, o)
  IN  /\ Takes(o, {1}, 3) /\ OneType(c, o) /\ Thirds(c, o)
      /\ Len(y) = 2 /\ InDims(c, o) = <<3 * y[1], y[2]>>

WellFormed(c, o) ==
  /\ o.op = "Add"     => AddRule(c, o)
  /\ o.op = "BiasAdd" => BiasRule(c, o)
  /\ o.op = "Permute" => PermuteRule(c, o)
  /\ o.op = "Cast"    => CastRule(c, o)
  /\ o.op = "Linear"  => LinearRule(c, o)
  /\ o.op = "H3DeinterleaveQkv"       => DeinterleaveRule(c, o)
  /\ o.op = "H3DeinterleaveQkvWeight" => DeinterleaveWeightRule(c, o)

(* What verify asks of every declaration and operation for itself: known   *)
(* roles, identifiers that are not zero.                                   *)
IsContext(c) ==
  /\ {"ops", "tensors", "bindings", "distance", "ok"} \subseteq DOMAIN c
  /\ c.ops \in Seq(ToSet(c.ops))
  /\ \A i \in Positions(c) :
       /\ {"id", "op", "in", "out", "attr"} \subseteq DOMAIN c.ops[i]
       /\ {"implementation", "accumulator"} \subseteq DOMAIN c.ops[i].attr
       /\ c.ops[i].id \in Nat \ {0}
       /\ c.ops[i].in \in Seq(Tensors) /\ c.ops[i].out \in Seq(Tensors)
  /\ Declared(c) \subseteq Tensors \ {0}
  /\ \A t \in Declared(c) : /\ {"dtype", "roles", "dims"} \subseteq DOMAIN c.tensors[t]
                            /\ c.tensors[t].roles \subseteq Roles

VerifiedContext(c) ==
  /\ IsContext(c)
  /\ \A i, j \in Positions(c) : i # j => c.ops[i].id # c.ops[j].id
  /\ \A i \in Positions(c) : ToSet(c.ops[i].in \o c.ops[i].out) \subseteq Declared(c)
  /\ Verified(AsProgram(c))
  /\ \A i \in Positions(c) : IsInjective(c.ops[i].out) /\ WellFormed(c, c.ops[i])

(* measure_memory: the planned working set.                                *)
PlannedBytes(c) ==
  LET plan == Plan([program |-> AsProgram(c), alignment |-> 2, distance |-> c.distance,
                    excluded |-> Tensors \ Declared(c), replaced |-> {},
                    persistent |-> {}, aliases |-> [t \in {} |-> 0]])
  IN  FoldLeft(LAMBDA n, b : n + b, 0, plan.slots)

-----------------------------------------------------------------------------
(* Constant folding.  A cast that narrows is decided by the option alone,  *)
(* before the inputs are looked at.                                        *)
Foldable(c, o, arithmetic) ==
  /\ o.op # "Barrier" /\ o.out # <<>>
  /\ o.op \in DataMovement \/ arithmetic
  /\ IF o.op = "Cast" /\ ~Widening(DType(c, o.in[1]), DType(c, o.out[1]))
     THEN arithmetic
     ELSE /\ \A t \in ToSet(o.in) : Is(c, t, "Constant") /\ t \in DOMAIN c.bindings
          /\ \A t \in ToSet(o.out) : InternalOnly(c, t)
FoldSites(c, arithmetic) == Sites(c, LAMBDA o : Foldable(c, o, arithmetic))

FoldAt(c, id, arithmetic) ==
  LET o == c.ops[At(c, id)]
      streamed == o.in # <<>> /\ \A t \in ToSet(o.in) : Is(c, t, "Streamed")
      value(t) == Computed(c, o, OutputIndex(o, t), c.bindings)
      folded == [c EXCEPT
        !.tensors = [t \in DOMAIN @ |-> IF t \in ToSet(o.out)
           THEN [@[t] EXCEPT !.roles = {"Constant"} \cup IF streamed THEN {"Streamed"} ELSE {}]
           ELSE @[t]],
        !.bindings = [t \in DOMAIN @ \cup ToSet(o.out) |->
                        IF t \in ToSet(o.out) THEN value(t) ELSE @[t]]]
  IN  IF ~c.ok \/ ~Has(c, id) THEN Illegal(c)
      ELSE IF /\ Foldable(c, o, arithmetic) /\ ToSet(o.in) \subseteq DOMAIN c.bindings
              /\ Cardinality(ToSet(o.in)) = Len(o.in)   \* the isolated program verifies
           THEN Prune(Erase(folded, {id})) ELSE Illegal(c)

(* The first that can be folded.                                           *)
FoldNext(c, arithmetic) ==
  IF c.ok /\ FoldSites(c, arithmetic) # <<>>
  THEN FoldAt(c, FoldSites(c, arithmetic)[1], arithmetic) ELSE c

-----------------------------------------------------------------------------
(* Dead operations and common subexpressions.                              *)
Dead(c, o) == /\ Pure(o) /\ o.out # <<>>
              /\ \A t \in ToSet(o.out) : InternalOnly(c, t) /\ Reads(c, t) = {}
DeadSites(c) == Sites(c, LAMBDA o : Dead(c, o))

EraseDead(c, dead) == Prune(Erase(c, dead))

SubexpressionKey(c, o) ==
  [op |-> o.op, in |-> o.in, attr |-> o.attr,
   out |-> [k \in DOMAIN o.out |-> <<DType(c, o.out[k]), Dims(c, o.out[k])>>]]
(* The first operation with o's key, by position.                          *)
Original(c, i) ==
  Min({j \in Positions(c) : /\ Pure(c.ops[j]) /\ c.ops[j].out # <<>>
                            /\ SubexpressionKey(c, c.ops[j]) = SubexpressionKey(c, c.ops[i])})
Duplicate(c, i) ==
  /\ Pure(c.ops[i]) /\ c.ops[i].out # <<>> /\ Original(c, i) < i
  /\ \A t \in ToSet(c.ops[i].out) : InternalOnly(c, t)
DuplicateSites(c) == Sites(c, LAMBDA o : Duplicate(c, At(c, o.id)))

(* The results of the original, as c knew it, for those of a duplicate.    *)
MergeAt(c, d, id) ==
  LET original == c.ops[Original(c, At(c, id))].id
      o == d.ops[At(d, id)]
      r == d.ops[At(d, original)]
  IN  IF Has(d, id) /\ Has(d, original)
      THEN Prune(Substitute(Erase(d, {id}), o.out, r.out)) ELSE d

-----------------------------------------------------------------------------
(* A mutant forgets when the bias is computed.                             *)
BiasSite_Mutant(c, o) ==
  /\ o.op = "BiasAdd" /\ ~Pinned(o) /\ InternalOnly(c, o.in[1])
  /\ Cardinality(Reads(c, o.in[1])) = 1 /\ Writes(c, o.in[1]) # {}
  /\ LET producer == c.ops[Writer(c, o.in[1])]
     IN  producer.op = "Linear" /\ Len(producer.in) = 2 /\ ~Pinned(producer)

(* Fusion of a BiasAdd into the Linear it follows.  The bias must be there *)
(* where the Linear runs.                                                  *)
BiasSite(c, o) ==
  /\ o.op = "BiasAdd" /\ ~Pinned(o) /\ InternalOnly(c, o.in[1])
  /\ Cardinality(Reads(c, o.in[1])) = 1 /\ Writes(c, o.in[1]) # {}
  /\ LET i == Writer(c, o.in[1])
     IN  /\ c.ops[i].op = "Linear" /\ Len(c.ops[i].in) = 2 /\ ~Pinned(c.ops[i])
         /\ \A j \in Writes(c, o.in[2]) : j < i
BiasSites(c) == Sites(c, LAMBDA o : BiasSite(c, o))

FuseBiasAt(c, id) ==
  LET o == c.ops[At(c, id)]
      linear == Writer(c, o.in[1])
  IN  IF ~c.ok \/ ~Has(c, id) \/ ~BiasSite(c, o) THEN Illegal(c)
      ELSE Prune(Erase(Replace(c, linear,
             << [c.ops[linear] EXCEPT !.in = Append(@, o.in[2]), !.out = o.out] >>), {id}))

-----------------------------------------------------------------------------
(* Packed QKV projection: one Linear and a split of its result, or a split *)
(* of the weight and three Linears.                                        *)
QkvFusionSite(c, o) ==
  /\ o.op = "H3DeinterleaveQkvWeight" /\ Len(o.out) = 3
  /\ \A k \in 1 .. 3 : InternalOnly(c, o.out[k]) /\ Cardinality(Reads(c, o.out[k])) = 1
  /\ LET p(k) == c.ops[OnlyReader(c, o.out[k])]
         at   == At(c, o.id)
         y    == Dims(c, p(1).out[1])
     IN  /\ \A k \in 1 .. 3 :
              /\ p(k).op = "Linear" /\ Len(p(k).in) = 2 /\ p(k).in[2] = o.out[k]
              /\ p(k).in[1] = p(1).in[1] /\ p(k).attr = p(1).attr
              /\ InternalOnly(c, p(k).out[1]) /\ Len(Dims(c, p(k).out[1])) = 3
         /\ \A i \in Writes(c, p(1).in[1]) : i < at
         /\ DType(c, o.in[1]) = DType(c, p(1).in[1])
         /\ Len(Dims(c, o.in[1])) = 2 /\ Len(Dims(c, p(1).in[1])) = 2
         /\ y[1] = Dims(c, p(1).in[1])[1] /\ Dims(c, o.out[1])[1] = y[2] * y[3]
QkvFusionSites(c) == Sites(c, LAMBDA o : QkvFusionSite(c, o))

FuseQkvAt(c, id) ==
  LET o == c.ops[At(c, id)]
      p(k) == c.ops[OnlyReader(c, o.out[k])]
      x == p(1).in[1]
      y == Dims(c, p(1).out[1])
      packed == FreshTensor(c)
      next == FreshOperation(c)
  IN  IF ~c.ok \/ ~Has(c, id) \/ ~QkvFusionSite(c, o) THEN Illegal(c)
      ELSE Prune(Splice(Declare(c, <<Temporary(DType(c, x), <<Dims(c, x)[1], 3 * y[2] * y[3]>>)>>),
             {id} \cup {p(k).id : k \in 1 .. 3},
             << Operation(next, "Linear", <<x, o.in[1]>>, <<packed>>, p(1).attr),
                Operation(next + 1, "H3DeinterleaveQkv", <<packed>>,
                          [k \in 1 .. 3 |-> p(k).out[1]], PlainAttr) >>))

QkvSplitSite(c, o) ==
  /\ o.op = "H3DeinterleaveQkv" /\ Len(o.out) = 3 /\ InternalOnly(c, o.in[1])
  /\ Cardinality(Reads(c, o.in[1])) = 1 /\ Writes(c, o.in[1]) # {}
  /\ LET p == c.ops[Writer(c, o.in[1])]
         y == Dims(c, o.out[1])
     IN  /\ p.op = "Linear" /\ Len(p.in) = 2
         /\ Len(y) = 3 /\ Len(Dims(c, p.in[2])) = 2
         /\ Dims(c, p.in[2])[1] = 3 * y[2] * y[3]
QkvSplitSites(c) == Sites(c, LAMBDA o : QkvSplitSite(c, o))

SplitQkvAt(c, id) ==
  LET o == c.ops[At(c, id)]
      p == c.ops[Writer(c, o.in[1])]
      w == c.tensors[p.in[2]]
      y == Dims(c, o.out[1])
      part(k) == FreshTensor(c) + k - 1
      next == FreshOperation(c)
      declared == Declare(c, [k \in 1 .. 3 |-> Temporary(w.dtype, <<y[2] * y[3], w.dims[2]>>)])
  IN  IF ~c.ok \/ ~Has(c, id) \/ ~QkvSplitSite(c, o) THEN Illegal(c)
      ELSE Prune(Splice(declared, {p.id, id},
             << Operation(next, "H3DeinterleaveQkvWeight", <<p.in[2]>>,
                          [k \in 1 .. 3 |-> part(k)], PlainAttr) >> \o
             [k \in 1 .. 3 |->
                Operation(next + k, "Linear", <<p.in[1], part(k)>>, <<o.out[k]>>, p.attr)]))

-----------------------------------------------------------------------------
(* A mutant elides a pair of casts that rounds.                            *)
RoundTrip_Mutant(c, o) ==
  /\ o.op = "Cast" /\ InternalOnly(c, o.in[1])
  /\ Cardinality(Reads(c, o.in[1])) = 1 /\ Writes(c, o.in[1]) # {}
  /\ InternalOnly(c, o.out[1])
  /\ LET first == c.ops[Writer(c, o.in[1])]
     IN  first.op = "Cast" /\ DType(c, o.out[1]) = DType(c, first.in[1])

(* A value widened and narrowed back is the value.                         *)
RoundTrip(c, o) ==
  /\ o.op = "Cast" /\ InternalOnly(c, o.in[1])
  /\ Cardinality(Reads(c, o.in[1])) = 1 /\ Writes(c, o.in[1]) # {}
  /\ InternalOnly(c, o.out[1])
  /\ LET widen == c.ops[Writer(c, o.in[1])]
     IN  /\ widen.op = "Cast"
         /\ Widening(DType(c, widen.in[1]), DType(c, o.in[1]))
         /\ DType(c, o.out[1]) = DType(c, widen.in[1])
RoundTrips(c) == Sites(c, LAMBDA o : RoundTrip(c, o))

ElideAt(c, id) ==
  LET o == c.ops[At(c, id)]
      widen == c.ops[Writer(c, o.in[1])]
  IN  IF ~c.ok \/ ~Has(c, id) \/ ~RoundTrip(c, o) THEN Illegal(c)
      ELSE Prune(Substitute(Erase(c, {id, widen.id}), <<o.out[1]>>, <<widen.in[1]>>))

(* Computing a value again before its last reader, when its inputs live    *)
(* that long anyway.                                                       *)
LastRead(c, t) == Max(Reads(c, t))
Rematerializable(c, o) ==
  /\ Pure(o) /\ Len(o.out) = 1 /\ InternalOnly(c, o.out[1])
  /\ Cardinality(Reads(c, o.out[1])) >= 2
  /\ LastRead(c, o.out[1]) > At(c, o.id) + 1
  /\ \A t \in ToSet(o.in) : \/ Is(c, t, "Input") \/ Is(c, t, "Constant")
                            \/ LastRead(c, t) >= LastRead(c, o.out[1])
RematSites(c) == Sites(c, LAMBDA o : Rematerializable(c, o))
RematConsumer(c, id) == c.ops[LastRead(c, c.ops[At(c, id)].out[1])].id

Rematerialize(c, producer, consumer) ==
  LET o == c.ops[At(c, producer)]
      clone == FreshTensor(c)
      at == At(c, consumer)
  IN  IF \/ ~Has(c, producer) \/ ~Rematerializable(c, o)
         \/ RematConsumer(c, producer) # consumer
      THEN Illegal(c)
      ELSE Replace(Declare(c, <<Temporary(DType(c, o.out[1]), Dims(c, o.out[1]))>>), at,
             << [o EXCEPT !.id = FreshOperation(c), !.out = <<clone>>],
                Renamed(c.ops[at], o.out, <<clone>>) >>)

-----------------------------------------------------------------------------
(* Numeric policy: implementation and storage precision of an operation.   *)
ImplementationSites(c, n) ==
  Sites(c, LAMBDA o : /\ o.op = "Linear" /\ ~Pinned(o) /\ o.attr.implementation # n
                      /\ n # 2 \/ DType(c, o.in[1]) = F32)
SetImplementationAt(c, id, n) ==
  LET o == c.ops[At(c, id)]
  IN  IF ~c.ok \/ ~Has(c, id) \/ o.op # "Linear" \/ Pinned(o) THEN Illegal(c)
      ELSE Replace(c, At(c, id), <<[o EXCEPT !.attr.implementation = n]>>)

UniformFloat(c, o) ==
  /\ o.op \in DTypeUniform /\ ~Pinned(o) /\ Operands(o) # <<>>
  /\ OneType(c, o)
OperandElements(c, o) ==
  FoldLeft(LAMBDA n, t : n + Elements(Dims(c, t)), 0, Operands(o))

SetPrecision(c, id, target) ==
  LET i == At(c, id)
      o == c.ops[i]
      t0 == FreshTensor(c)
      next == FreshOperation(c)
      n == Len(o.in)
      copy(k) == t0 + k - 1              \* the converted k-th operand
      cast(k) == Operation(next + k - 1, "Cast",
                   IF k <= n THEN <<o.in[k]>> ELSE <<copy(k)>>,
                   IF k <= n THEN <<copy(k)>> ELSE <<o.out[k - n]>>, PlainAttr)
      moved == [o EXCEPT !.in = [k \in DOMAIN @ |-> copy(k)],
                         !.out = [k \in DOMAIN @ |-> copy(n + k)],
                         !.attr.implementation = IF o.op = "Linear" /\ @ = 2 /\ target # F32
                                                 THEN 1 ELSE @]
      declared == Declare(c, [k \in DOMAIN Operands(o) |-> Temporary(target, Dims(c, Operands(o)[k]))])
  IN  IF ~Has(c, id) THEN Illegal(c)
      ELSE IF ~UniformFloat(c, o) \/ DType(c, Operands(o)[1]) = target THEN Illegal(c)
      ELSE Replace(declared, i,
             [k \in 1 .. n |-> cast(k)] \o <<moved>> \o [k \in 1 .. Len(o.out) |-> cast(n + k)])

(* Memory policy: where the constants live, how early they are fetched.    *)
Misplaced(c, streamed) ==
  {t \in Declared(c) : Is(c, t, "Constant") /\ Is(c, t, "Streamed") # streamed}
Placed(info, streamed) ==
  [info EXCEPT !.roles = IF streamed THEN @ \cup {"Streamed"} ELSE @ \ {"Streamed"}]
SetResidency(c, streamed) ==
  IF Misplaced(c, streamed) = {} THEN Illegal(c)
  ELSE [c EXCEPT !.tensors = [t \in DOMAIN @ |->
          IF t \in Misplaced(c, streamed) THEN Placed(@[t], streamed) ELSE @[t]]]
SetDistance(c, n) == IF n = c.distance THEN Illegal(c) ELSE [c EXCEPT !.distance = n]

-----------------------------------------------------------------------------
(* A transform names its kind, a scope (empty: the whole program) and a    *)
(* parameter.                                                              *)
Transform(kind, scope, parameter) ==
  [kind |-> kind, operations |-> scope, parameter |-> parameter]

Numeric == {"FuseLinearBias", "SetLinearImplementation", "SetOperationPrecision"}

(* What a transform of the program c does at one place of its scope, d     *)
(* being what it has made of c before.  A search for more, as of constants *)
(* or dead operations, takes no more rounds than there are operations.     *)
AtSite(tr, c, d, id) ==
  CASE tr.kind = "FoldConstantSubgraph" /\ tr.operations = <<>> -> FoldNext(d, tr.parameter = 1)
    [] tr.kind = "FoldConstantSubgraph" /\ tr.operations # <<>> -> FoldAt(d, id, tr.parameter = 1)
    [] tr.kind = "EliminateDeadOperations" /\ tr.operations = <<>> -> EraseDead(d, ToSet(DeadSites(d)))
    [] tr.kind = "EliminateDeadOperations" /\ tr.operations # <<>> -> EraseDead(d, {id})
    [] tr.kind = "CommonSubexpression"     -> MergeAt(c, d, id)
    [] tr.kind = "FuseLinearBias"          -> FuseBiasAt(d, id)
    [] tr.kind = "FuseQkvProjection"       -> FuseQkvAt(d, id)
    [] tr.kind = "SplitQkvProjection"      -> SplitQkvAt(d, id)
    [] tr.kind = "ElideCastRoundTrip"      -> ElideAt(d, id)
    [] tr.kind = "SetLinearImplementation" -> SetImplementationAt(d, id, tr.parameter)

(* resolve_scope: a transform goes to all the places it can, or to those   *)
(* it names, which have to be among them; numbers stand for the rounds.    *)
Available(tr, c) ==
  LET rounds(sites) == IF sites = <<>> THEN <<>> ELSE [i \in DOMAIN c.ops |-> i]
  IN  CASE tr.kind = "FoldConstantSubgraph"    -> rounds(FoldSites(c, tr.parameter = 1))
        [] tr.kind = "EliminateDeadOperations" ->
             IF tr.operations = <<>> THEN rounds(DeadSites(c)) ELSE DeadSites(c)
        [] tr.kind = "CommonSubexpression"     -> DuplicateSites(c)
        [] tr.kind = "FuseLinearBias"          -> BiasSites(c)
        [] tr.kind = "FuseQkvProjection"       -> QkvFusionSites(c)
        [] tr.kind = "SplitQkvProjection"      -> QkvSplitSites(c)
        [] tr.kind = "ElideCastRoundTrip"      -> RoundTrips(c)
        [] tr.kind = "SetLinearImplementation" ->
             Sites(c, LAMBDA o : o.op = "Linear" /\ ~Pinned(o))
Scope(tr, c) == IF tr.operations = <<>> THEN Available(tr, c) ELSE tr.operations
Resolved(tr, c) ==
  /\ Scope(tr, c) # <<>>
  /\ tr.kind \notin {"FoldConstantSubgraph", "SetLinearImplementation"} =>
       ToSet(Scope(tr, c)) \subseteq ToSet(Available(tr, c))

AtSites(tr, c) ==
  IF Resolved(tr, c) THEN FoldLeft(LAMBDA d, id : AtSite(tr, c, d, id), c, Scope(tr, c))
  ELSE Illegal(c)

Structural == {"FoldConstantSubgraph", "EliminateDeadOperations", "CommonSubexpression",
  "FuseLinearBias", "FuseQkvProjection", "SplitQkvProjection", "ElideCastRoundTrip"}

Apply(tr, c) ==
  CASE tr.kind \in Structural \cup {"SetLinearImplementation"} -> AtSites(tr, c)
    [] tr.kind = "RematerializeProducer" -> Rematerialize(c, tr.operations[1], tr.operations[2])
    [] tr.kind = "SetOperationPrecision" -> SetPrecision(c, tr.operations[1], tr.parameter)
    [] tr.kind = "SetConstantResidency"  -> SetResidency(c, tr.parameter = 1)
    [] tr.kind = "SetPrefetchDistance"   -> SetDistance(c, tr.parameter)
    [] OTHER                             -> Illegal(c)

Proposed(cond, kind, parameter) == IF cond THEN <<Transform(kind, <<>>, parameter)>> ELSE <<>>
Joined(parts)   == FoldLeft(LAMBDA all, part : all \o part, <<>>, parts)
ForEach(f(_), s) == Joined([k \in DOMAIN s |-> f(s[k])])
Ranked(s, before(_, _)) ==  \* s, whose elements differ, in this order
  [k \in DOMAIN s |->
     CHOOSE x \in ToSet(s) : Cardinality({y \in ToSet(s) : before(y, x)}) = k - 1]

(* The two largest values worth computing again.                           *)
BestRemats(c) ==
  LET bytes(id) == Bytes(c, c.ops[At(c, id)].out[1])
      sorted == Ranked(RematSites(c), LAMBDA a, b :
                  bytes(a) > bytes(b) \/ (bytes(a) = bytes(b) /\ a < b))
  IN  SubSeq(sorted, 1, Min({Len(sorted), 2}))

(* Precision candidates, the operations with most operand elements first.  *)
PrecisionCandidates(c, options) ==
  LET uniform == Sites(c, LAMBDA o : UniformFloat(c, o))
      work(id) == OperandElements(c, c.ops[At(c, id)])
      sorted == Ranked(uniform, LAMBDA a, b :
                  work(a) > work(b) \/ (work(a) = work(b) /\ a < b))
      all == ForEach(LAMBDA id : ForEach(LAMBDA d :
               IF d = DType(c, c.ops[At(c, id)].out[1]) THEN <<>>
               ELSE <<Transform("SetOperationPrecision", <<id>>, d)>>, options.precisions), sorted)
  IN  SubSeq(all, 1, Min({Len(all), options.max_precision_candidates}))

Discover(c, options) ==
  LET folds == FoldSites(c, FALSE)
      one(id) == <<Transform("FoldConstantSubgraph", <<id>>, 0)>>
      linear(n) == LET s == ImplementationSites(c, n)
                   IN  IF s = <<>> THEN <<>> ELSE <<Transform("SetLinearImplementation", s, n)>>
      structural ==
           Proposed(folds # <<>>, "FoldConstantSubgraph", 0)
        \o (IF Len(folds) <= 4 THEN ForEach(one, folds) ELSE <<>>)
        \o Proposed(options.arithmetic /\ Len(FoldSites(c, TRUE)) > Len(folds),
                    "FoldConstantSubgraph", 1)
        \o Proposed(DeadSites(c) # <<>>, "EliminateDeadOperations", 0)
        \o Proposed(DuplicateSites(c) # <<>>, "CommonSubexpression", 0)
        \o Proposed(BiasSites(c) # <<>>, "FuseLinearBias", 0)
        \o Proposed(QkvFusionSites(c) # <<>>, "FuseQkvProjection", 0)
        \o Proposed(QkvSplitSites(c) # <<>>, "SplitQkvProjection", 0)
        \o Proposed(RoundTrips(c) # <<>>, "ElideCastRoundTrip", 0)
        \o ForEach(LAMBDA id : <<Transform("RematerializeProducer",
                                   <<id, RematConsumer(c, id)>>, 0)>>, BestRemats(c))
      numeric == linear(1) \o linear(2) \o PrecisionCandidates(c, options)
      memory ==
           Proposed(Misplaced(c, FALSE) # {}, "SetConstantResidency", 0)
        \o Proposed(Misplaced(c, TRUE) # {}, "SetConstantResidency", 1)
        \o ForEach(LAMBDA d : Proposed(d # c.distance, "SetPrefetchDistance", d),
                   options.prefetch_distances)
  IN  (IF options.structural THEN structural ELSE <<>>) \o
      (IF options.numeric THEN numeric ELSE <<>>) \o (IF options.memory THEN memory ELSE <<>>)
=============================================================================
