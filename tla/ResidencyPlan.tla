--------------------------- MODULE ResidencyPlan ---------------------------
(***************************************************************************)
(* The two decisions taken before plan_memory that change what it is asked *)
(* to place: which reshapes become views (plan_reshape_aliases), and which *)
(* streamed constants stay resident under a ceiling on the bytes of the    *)
(* whole plan (plan_streamed_residency).  A question is a record           *)
(*   program, aliases, alignment, distance   as for plan_memory            *)
(*   maximum, fixed        the ceiling and the bytes the backend needs     *)
(*   largest_first         StreamedResidencyOrder                          *)
(* Sums are kept inside the word by the caller's numbers.                  *)
(***************************************************************************)
EXTENDS MemoryPlanReference

(* plan_reshape_aliases: an internal result of a reshape is a view of what *)
(* its input is a view of.                                                 *)
Aliased(p, al, i) ==
  LET in  == CHOOSE t \in p.inputs[i] : TRUE
      out == CHOOSE t \in p.outputs[i] : TRUE
  IN  IF ~Internal(p, out) THEN al
      ELSE [t \in DOMAIN al \cup {out} |->
              IF t # out THEN al[t] ELSE IF in \in DOMAIN al THEN al[in] ELSE in]

ReshapeAliases(p, reshapes) ==
  FoldLeft(LAMBDA al, i : IF i - 1 \in reshapes THEN Aliased(p, al, i - 1) ELSE al,
           [t \in {} |-> 0], [i \in 1 .. p.count |-> i])

-----------------------------------------------------------------------------
(* The candidates in the order in which they are considered.               *)
Candidates(p) == {t \in Tensors : {"Constant", "Streamed"} \subseteq p.roles[t]}
FirstConsumer(p, t) == IF Consumers(p, t) = {} THEN MaxU64 ELSE Min(Consumers(p, t))
Earlier(q, t, u) ==
  LET p == q.program
  IN  \/ q.largest_first /\ p.bytes[t] > p.bytes[u]
      \/ /\ q.largest_first => p.bytes[t] = p.bytes[u]
         /\ \/ FirstConsumer(p, t) < FirstConsumer(p, u)
            \/ FirstConsumer(p, t) = FirstConsumer(p, u) /\ t < u
Order(q) ==
  LET S == Candidates(q.program)
      earlier(t) == {u \in S \ {t} : Earlier(q, u, t)}
  IN  [k \in 1 .. Cardinality(S) |->
         CHOOSE t \in S : Cardinality(earlier(t)) = k - 1]

Align(q, b) == ((b + q.alignment - 1) \div q.alignment) * q.alignment

(* The sum of f over S: how many bytes there are, each numbered within its *)
(* tensor or slot.                                                         *)
BytesOf(f, S) == Cardinality(UNION {{t} \X (1 .. f[t]) : t \in S})

(* plan_memory with the selected constants replaced.                       *)
PlanBytes(q, selected) ==
  LET slots == Plan([program |-> q.program, alignment |-> q.alignment,
                     distance |-> q.distance, excluded |-> {}, replaced |-> selected,
                     persistent |-> {}, aliases |-> q.aliases]).slots
  IN  BytesOf(slots, DOMAIN slots)

(* What the execution needs with one more constant: a mutant counts the    *)
(* bytes of that constant only.                                            *)
Required_Mutant(q, plan, t) ==
  PlanBytes(q, plan.selected \cup {t}) + q.fixed + Align(q, q.program.bytes[t])
Required(q, plan, t) ==
  PlanBytes(q, plan.selected \cup {t}) + q.fixed
    + plan.resident_bytes + Align(q, q.program.bytes[t])

Consider(q, plan, t) ==
  LET required == Required(q, plan, t)
      decided  == [plan EXCEPT !.decisions = Append(@, [tensor |-> t,
                     resident |-> required <= q.maximum, required |-> required])]
  IN  IF required > q.maximum THEN decided
      ELSE [decided EXCEPT !.selected = @ \cup {t},
                           !.resident_bytes = @ + Align(q, q.program.bytes[t]),
                           !.streamed_bytes = @ - q.program.bytes[t],
                           !.required = required]

(* The budget must cover the plan as it is.                                *)
Baseline(q) == PlanBytes(q, {}) + q.fixed
Plannable(q) == Baseline(q) <= q.maximum

StreamedResidency(q) ==
  FoldLeft(LAMBDA plan, t : Consider(q, plan, t),
           [selected |-> {}, decisions |-> <<>>, resident_bytes |-> 0,
            streamed_bytes |-> BytesOf(q.program.bytes, Candidates(q.program)),
            required |-> Baseline(q)],
           Order(q))

-----------------------------------------------------------------------------
(* The constants that are made resident, their own bytes included, never   *)
(* take a plan over its ceiling; every streamed constant is decided about; *)
(* and one stays streamed only because it would not have fitted beside     *)
(* those admitted before it (plan_streamed_residency).                     *)
CeilingKept(q) ==
  LET plan    == StreamedResidency(q)
      storage == [t \in Tensors |-> Align(q, q.program.bytes[t])]
      stays   == Candidates(q.program) \ plan.selected
      before(i) == {plan.decisions[j].tensor : j \in 1 .. i - 1} \cap plan.selected
  IN  /\ PlanBytes(q, plan.selected) + q.fixed + BytesOf(storage, plan.selected)
           = plan.required
      /\ plan.required <= q.maximum
      /\ plan.resident_bytes = BytesOf(storage, plan.selected)
      /\ plan.streamed_bytes = BytesOf(q.program.bytes, stays)
      /\ {plan.decisions[i].tensor : i \in DOMAIN plan.decisions} = Candidates(q.program)
      /\ \A i \in DOMAIN plan.decisions :
           LET t == plan.decisions[i].tensor
           IN  t \in stays =>
                 PlanBytes(q, before(i) \cup {t}) + q.fixed
                   + BytesOf(storage, before(i) \cup {t}) > q.maximum
=============================================================================
