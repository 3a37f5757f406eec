------------------------------- MODULE Slice -------------------------------
(***************************************************************************)
(* compiler::slice_operations: a range of operation ids as a program of    *)
(* its own.  Rewrites give new operations new ids wherever they put them,  *)
(* so that a range of ids need not be a stretch of the program.            *)
(***************************************************************************)
EXTENDS Search

Selected(c, first, last) ==
  {i \in Positions(c) : first <= c.ops[i].id /\ c.ops[i].id <= last}

(* The operations of the range, in program order.                          *)
Kept(c, first, last) == OfIds(c.ops, first .. last)

(* The role of a tensor the slice refers to.  A mutant keeps a value that  *)
(* is also read outside the slice to itself.                               *)
SlicedRoles_Mutant(c, at, t) ==
  IF Is(c, t, "Constant") THEN c.tensors[t].roles \cap {"Constant", "Streamed"}
  ELSE IF Writes(c, t) \cap at = {} THEN {"Input"}
  ELSE IF Reads(c, t) \cap at = {} \/ Is(c, t, "Output") THEN {"Output"}
  ELSE {}

SlicedRoles(c, at, t) ==
  IF Is(c, t, "Constant") THEN c.tensors[t].roles \cap {"Constant", "Streamed"}
  ELSE IF Writes(c, t) \cap at = {} THEN {"Input"}
  ELSE IF Reads(c, t) \cap at = {} \/ Reads(c, t) \ at # {} \/ Is(c, t, "Output")
  THEN {"Output"} ELSE {}

SliceOperations(c, first, last) ==
  LET at == Selected(c, first, last)
      referenced == {t \in Declared(c) : (Reads(c, t) \cup Writes(c, t)) \cap at # {}}
      sliced == [c EXCEPT
        !.ops = Kept(c, first, last),
        !.tensors = [t \in referenced |-> [@[t] EXCEPT !.roles = SlicedRoles(c, at, t)]],
        !.bindings = [t \in referenced \cap DOMAIN @ |-> @[t]]]
  IN  IF first = 0 \/ last < first \/ at = {} THEN Illegal(c) ELSE sliced

(* A slice is a program; run on the values the whole program has at its    *)
(* borders it computes what the whole program computes; and whatever the   *)
(* rest of the program, or its user, needs of it is an output.             *)
Faithful(c, first, last) ==
  LET s == SliceOperations(c, first, last)
      at == Selected(c, first, last)
      whole == Values(c, Given(c))
      alone == Values(s, [t \in {u \in Declared(s) : Is(s, u, "Input") \/ Is(s, u, "Constant")} |->
                            whole[t]])
  IN  /\ VerifiedContext(s)
      /\ \A t \in Declared(s) :
           /\ Is(s, t, "Output") => alone[t] = whole[t]
           /\ /\ Writes(c, t) \cap at # {}
              /\ Reads(c, t) \ at # {} \/ Is(c, t, "Output")
              => Is(s, t, "Output")

(* What is said of a program as it is handed in is looked at before the    *)
(* first transform of it is known.                                         *)
HandedIn == /\ phase = "depth" /\ depth = 1 /\ beam # <<>> /\ transforms = Unexpanded
            /\ candidates[1].latency = Min(Latencies)

(* Every range of operation ids of a program to optimize, and of the       *)
(* program the search ends with, can be sliced out of it                   *)
(* (slice_operations), although the rewrites have put new ids between old  *)
(* ones.                                                                   *)
SlicesAreFaithful ==
  HandedIn \/ (phase = "done" /\ winner # 1) =>
    LET c == candidates[IF phase = "done" THEN winner ELSE 1].context
        ids == {c.ops[i].id : i \in Positions(c)}
    IN  \A first, last \in ids : first <= last => Faithful(c, first, last)
=============================================================================
