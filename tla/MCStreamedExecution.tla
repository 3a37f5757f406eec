------------------------ MODULE MCStreamedExecution ------------------------
(***************************************************************************)
(* Instances of StreamedExecution: small programs prepared under every     *)
(* streaming policy of interest.  Storage comes from the reference plan,   *)
(* so slots are shared exactly as plan_memory would share them.            *)
(***************************************************************************)
EXTENDS StreamedExecution

MCTensors == 1 .. 13
MCMaxU64  == 1000

P == INSTANCE Preparation

(* A program from its operations <<opcode, inputs, outputs>> (the first    *)
(* input first), its input, constant, streamed and output tensors.         *)
Program(ops, constants, streamed, outputs) ==
  LET used(k) == {ops[k][2][j] : j \in DOMAIN ops[k][2]}
      all == UNION {used(k) \cup {ops[k][3]} : k \in DOMAIN ops} IN
  [count   |-> Len(ops),
   opcode  |-> [i \in 0 .. Len(ops) - 1 |-> ops[i + 1][1]],
   first   |-> [i \in 0 .. Len(ops) - 1 |-> ops[i + 1][2][1]],
   inputs  |-> [i \in 0 .. Len(ops) - 1 |-> used(i + 1)],
   outputs |-> [i \in 0 .. Len(ops) - 1 |-> {ops[i + 1][3]}],
   roles   |-> [t \in MCTensors |->
                  (IF t = 1 THEN {"Input"} ELSE {})
                    \cup (IF t \in constants \cup streamed THEN {"Constant"} ELSE {})
                    \cup (IF t \in streamed THEN {"Streamed"} ELSE {})
                    \cup (IF t \in outputs THEN {"Output"} ELSE {})],
   bytes   |-> [t \in MCTensors |-> IF t \in all THEN 2 ELSE 1]]

(* A chain of Linears with streamed weights; 4 is read twice and operation *)
(* 3 brings two constants.                                                 *)
Chain == Program(<< <<"Linear", <<1, 2>>, 7>>, <<"Linear", <<7, 3>>, 8>>,
                    <<"Linear", <<8, 4>>, 9>>, <<"Other", <<9, 5, 6>>, 10>>,
                    <<"Linear", <<10, 4>>, 11>>, <<"Linear", <<11, 12>>, 13>> >>,
                 {}, {2, 3, 4, 5, 6, 12}, {13})

(* Five operations with streamed weights and branching data flow.          *)
Branching ==
  {Program(<< <<"Linear", <<1, 2>>, 7>>, <<"Linear", <<7, 3>>, 8>>,
              <<"Linear", <<a, u>>, 9>>, <<"Other", <<b, 8, v>>, 10>>,
              <<"Other", <<10, 7, 6>>, 11>> >>,
           {}, {2, 3, 4, 5, 6}, {11}) :
     a \in {1, 8}, b \in {7, 9}, u \in {2, 4}, v \in {3, 5}}

(* Two Linears of one activation between streamed ones; the activation is  *)
(* the program's input, or the result of the first operation.              *)
Forked(a) == Program(<< <<"Linear", <<1, 2>>, 7>>, <<"Linear", <<a, 3>>, 8>>,
                        <<"Linear", <<a, 4>>, 9>>, <<"Other", <<8, 9, IF a = 1 THEN 7 ELSE 8, 5>>, 10>>,
                        <<"Linear", <<10, 6>>, 11>> >>,
                     {}, {2, 3, 4, 5, 6}, {11})

(* A region (operations 2 and 3) that does not depend on the rest, in the  *)
(* middle of a program whose last operation streams a weight.              *)
Cached == Program(<< <<"Linear", <<1, 2>>, 7>>, <<"Other", <<7>>, 8>>,
                     <<"Linear", <<3, 4>>, 9>>, <<"Other", <<9>>, 10>>,
                     <<"Other", <<8, 10, 5>>, 11>>, <<"Linear", <<11, 6>>, 12>> >>,
                  {3}, {2, 4, 5, 6}, {12})

(* A Linear with its BiasAdd, a view, and a Linear with its SwiGlu.  What  *)
(* the fused launch reads is used again after its SwiGlu's position.       *)
Fused == Program(<< <<"Linear", <<1, 2>>, 7>>, <<"BiasAdd", <<7, 3>>, 8>>,
                    <<"Reshape", <<8>>, 9>>, <<"Linear", <<9, 4>>, 10>>,
                    <<"SwiGlu", <<10>>, 11>>, <<"Other", <<11, 9, 4, 5>>, 12>> >>,
                 {2, 3}, {4, 5}, {12})

Plain(p) ==
  [program |-> p, depth |-> 1, staging |-> 2, overlap |-> TRUE, resident |-> {},
   lazy |-> FALSE, groups |-> {}, region |-> {}, views |-> {}, fuse |-> {},
   absorb |-> {}, iterations |-> 2]

Policies(o) ==
  {[o EXCEPT !.overlap = FALSE], o, [o EXCEPT !.staging = 3],
   [o EXCEPT !.depth = 2, !.staging = 3]}

(* A group wider than the prefetch distance (the operation whose prefetch  *)
(* the leader's turn leaves out is then one of its lanes), and with an     *)
(* activation that owns its slot.                                          *)
Grouped(p, depth) ==
  [Plain(p) EXCEPT !.groups = {{1, 2}}, !.resident = {3, 4}, !.depth = depth,
                   !.staging = depth + 1]
Groups == {[Grouped(Forked(1), 1) EXCEPT !.overlap = v, !.lazy = l] :
              v \in BOOLEAN, l \in BOOLEAN}

MCOptions ==
  Policies(Plain(Chain))
    \cup Policies([Plain(Chain) EXCEPT !.resident = {3, 4}])
    \cup Policies([Plain(Chain) EXCEPT !.resident = {3, 4}, !.lazy = TRUE])
    \cup UNION {{Plain(p), [Plain(p) EXCEPT !.overlap = FALSE]} : p \in Branching}
    \cup {[Plain(p) EXCEPT !.depth = 2, !.staging = 3] : p \in Branching}
    \cup {[Plain(Chain) EXCEPT !.depth = 3, !.staging = 4, !.iterations = 3]}
    \cup Groups
    \cup Policies([Plain(Cached) EXCEPT !.region = {2, 3}])
    \cup Policies([Plain(Fused) EXCEPT !.absorb = {0}, !.views = {2}, !.fuse = {3}])

MCExecutions == {P!Prepared(o) : o \in {q \in MCOptions : P!Accepted(q)}}

(* Every policy listed is one the constructor accepts.                     *)
ASSUME MCAccepted == \A o \in MCOptions : P!Accepted(o)

(* What the proofs about executions without groups and cached region take  *)
(* from the preparation is what it delivers.                               *)
ASSUME MCScheduled == \A r \in MCExecutions : Sequential(r) => Scheduled(r)

(* The programs executed as written, whose preparation the proofs cover,   *)
(* are those without a view, a fused launch, a group or a region.          *)
ASSUME MCAsWritten ==
  \A o \in MCOptions :
    P!AsWritten(o) <=> o.views \cup o.fuse \cup o.absorb \cup o.groups \cup o.region = {}

-----------------------------------------------------------------------------
(* An execution the constructor accepts and that goes wrong.               *)

(* A Linear fused with its SwiGlu that nothing else keeps the weight for.  *)
StreamedFusion ==
  {P!Prepared([Plain(Program(<< <<"Linear", <<1, 2>>, 7>>, <<"SwiGlu", <<7>>, 8>>,
                                <<"Other", <<8>>, 9>> >>, {}, {2}, {9}))
               EXCEPT !.fuse = {0}])}
=============================================================================
