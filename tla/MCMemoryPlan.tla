---------------------------- MODULE MCMemoryPlan ----------------------------
(***************************************************************************)
(* Instance of MemoryPlan: every four-operation program of one family      *)
(* (x, two weights, one result per operation), planned under several       *)
(* option sets, and a few calls the planner must reject.                   *)
(***************************************************************************)
EXTENDS MemoryPlan

MCTensors == 1 .. 7      \* 1 input, 2 3 weights, 4 5 6 7 results
MCMaxU64  == 63

(* The activations operation i may read: x and the earlier results.        *)
Activations(i) == {1} \cup 4 .. 3 + i
OneOrTwo(S) == {A \in SUBSET S : Cardinality(A) \in {1, 2}}

Family(streamed, bytes) ==
  { [count   |-> 4,
     inputs  |-> [i \in 0 .. 3 |-> CASE i = 0 -> {1}
                                     [] i = 1 -> a1 \cup {2}
                                     [] i = 2 -> a2 \cup w2
                                     [] i = 3 -> a3 \cup {3}],
     outputs |-> [i \in 0 .. 3 |-> {4 + i}],
     roles   |-> [t \in MCTensors |-> CASE t = 1 -> {"Input"}
                                        [] t \in streamed -> {"Constant", "Streamed"}
                                        [] t \in {2, 3} \ streamed -> {"Constant"}
                                        [] t = 7 -> {"Output"}
                                        [] OTHER -> {}],
     bytes   |-> bytes] :
    a1 \in OneOrTwo(Activations(1)), a2 \in OneOrTwo(Activations(2)),
    a3 \in OneOrTwo(Activations(3)), w2 \in {{}, {2}} }

Even   == [t \in MCTensors |-> 2]
Uneven == [t \in MCTensors |-> CASE t = 3 -> 3 [] t = 4 -> 1 [] t = 6 -> 5 [] OTHER -> 2]
Falling == [t \in MCTensors |-> IF t = 4 THEN 5 ELSE 2]
Huge   == [t \in MCTensors |-> IF t = 5 THEN 30 ELSE 9]
Full   == [t \in MCTensors |-> IF t = 6 THEN 63 ELSE 1]

NoAlias == [t \in {} |-> 0]
Alias(o, r) == [t \in {o} |-> r]

Request(p, d) ==
  [program |-> p, alignment |-> 2, distance |-> d, excluded |-> {},
   replaced |-> {}, persistent |-> {}, aliases |-> NoAlias]

Plain ==
  {Request(p, 1) : p \in Family({2, 3}, Even)}
    \cup {Request(p, 0) : p \in Family({3}, Uneven)}
    \cup {Request(p, 2) : p \in Family({2, 3}, Uneven)}
    \cup {Request(p, 0) : p \in Family({2, 3}, Falling)}

WithOptions ==
  UNION { LET r == Request(p, 1) IN
    { [r EXCEPT !.aliases = Alias(5, 4)],
      [r EXCEPT !.aliases = [t \in {5, 6} |-> t - 1]],
      [r EXCEPT !.persistent = {4}],
      [r EXCEPT !.excluded = {5}],
      [r EXCEPT !.replaced = {3}] } : p \in {q \in Family({2, 3}, Even) : 4 \in q.inputs[2]} }

(* Calls that end in fail(): each mistake the function checks for, and     *)
(* sums that do not fit the word.                                          *)
Rejected ==
  UNION { LET r == Request(p, 1) IN
    { [r EXCEPT !.alignment = 0], [r EXCEPT !.alignment = 3],
      [r EXCEPT !.aliases = [t \in {5, 6} |-> 11 - t]],
      [r EXCEPT !.aliases = Alias(7, 4)],
      [r EXCEPT !.excluded = {3}], [r EXCEPT !.replaced = {4}],
      [r EXCEPT !.persistent = {2}],
      [r EXCEPT !.program.bytes = Huge], [r EXCEPT !.program.bytes = Full],
      [r EXCEPT !.program.inputs[0] = {4}] } :
    p \in {q \in Family({3}, Even) : q.inputs[3] = {6, 3}} }

-----------------------------------------------------------------------------
(* Calls made for the views plan_reshape_aliases finds: of operations with *)
(* one input, of which the first reads what the other reshapes.            *)
Views ==
  UNION { LET r == Request(p, 1) IN
    { [r EXCEPT !.aliases = ReshapeAliases(p, s)] : s \in {{2}, {1, 2}, {1, 2, 3}} } :
    p \in {[q EXCEPT !.inputs[1] = {c}, !.inputs[2] = {d}, !.inputs[3] = {e}] :
             q \in {Request(f, 1).program : f \in Family({2, 3}, Even)},
             c \in {1, 2, 3, 4}, d \in {3, 5}, e \in {5, 6}} }

MCRequests == Plain \cup WithOptions \cup Views \cup Rejected

(* Ceilings around what the program needs.                                 *)
MCBudgets == [above : {-1, 0, 2, 4}, fixed : {1}, largest_first : BOOLEAN]
=============================================================================
