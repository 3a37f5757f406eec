----------------------------- MODULE MemoryPlan -----------------------------
(***************************************************************************)
(* compiler::plan_memory: the planner that gives every tensor of a program *)
(* a device slot and lets tensors whose lifetimes do not meet share one.   *)
(*                                                                         *)
(* The loops of the function are the phases below, one step per iteration: *)
(*   scan       producer, first and last consumer of every tensor          *)
(*   aliases    the storage root of every reshape alias                    *)
(*   intervals  the lifetime of every tensor that needs storage            *)
(*   place      best-fit assignment of the sorted lifetimes to slots       *)
(* A call to fail() ends in phase "failed".  Slot numbers start at 1.      *)
(***************************************************************************)
EXTENDS ResidencyPlan

CONSTANTS
  Requests,  (* The argument records plan_memory may be called with.       *)
  Budgets    (* Ceilings under which streamed constants may be made        *)
             (* resident: how much above the plan as it is, the bytes the  *)
             (* backend needs, and the order of consideration.             *)

IsRequest(r) ==
  /\ r = [program |-> r.program, alignment |-> r.alignment, distance |-> r.distance,
          excluded |-> r.excluded, replaced |-> r.replaced,
          persistent |-> r.persistent, aliases |-> r.aliases]
  /\ IsProgram(r.program)
  /\ r.alignment \in Nat
  /\ r.distance \in Nat
  /\ r.excluded   \subseteq Tensors
  /\ r.replaced   \subseteq Tensors
  /\ r.persistent \subseteq Tensors
  /\ DOMAIN r.aliases \subseteq Tensors
  /\ r.aliases \in [DOMAIN r.aliases -> Tensors]

ASSUME RequestsAssumption == \A r \in Requests : IsRequest(r)
ASSUME BudgetsAssumption ==
  Budgets \subseteq [above : Int, fixed : Nat, largest_first : BOOLEAN]

VARIABLES
  request,             (* The arguments of this call.                      *)
  phase,               (* The loop the planner is in.                      *)
  index,               (* The operation the scan visits next.              *)
  producer,            (* producer map, Unset where absent.                *)
  first_consumer,
  last_consumer,
  todo,                (* What the current loop has still to visit.        *)
  chase,               (* The alias being resolved: output, root, seen.    *)
  alias_roots,         (* alias_roots map, Unset where absent.             *)
  alias_last_consumer,
  intervals,           (* The Interval of every tensor that has one.       *)
  naive_bytes,
  slots,               (* Bytes of every slot.                             *)
  available_after,     (* The last operation that uses each slot.          *)
  slot_of,             (* BufferAssignment::slot_id, 0 where absent.       *)
  total_bytes

scanVars  == <<producer, first_consumer, last_consumer>>
aliasVars == <<chase, alias_roots, alias_last_consumer>>
spanVars  == <<intervals, naive_bytes>>
placeVars == <<slots, available_after, slot_of, total_bytes>>
vars == <<request, phase, index, todo, scanVars, aliasVars, spanVars, placeVars>>

Unset   == -1
program == request.program
aliases == request.aliases

Larger(a, b)  == IF a < b THEN b ELSE a

-----------------------------------------------------------------------------
(* align_up, and the two checks that make it fail.                         *)
PowerOfTwo(n)   == n > 0 /\ \E k \in 0 .. n : 2^k = n
CanAlign(b)     == b <= MaxU64 - (request.alignment - 1)
AlignUp(b)      == ((b + request.alignment - 1) \div request.alignment)
                      * request.alignment
StorageBytes(t) == AlignUp(program.bytes[t])

Fits_Unchecked(sum, t) == TRUE       \* Mutant: the sum may leave the word.
Fits(sum, t) == sum <= MaxU64 - StorageBytes(t)

Fail == /\ phase' = "failed"
        /\ UNCHANGED <<request, index, todo, scanVars, aliasVars, spanVars,
                       placeVars>>

-----------------------------------------------------------------------------
NoChase == [output |-> Unset, root |-> Unset, seen |-> {}]

Init ==
  /\ request \in Requests
  /\ phase = "entry"
  /\ index = 0
  /\ producer       = [t \in Tensors |-> Unset]
  /\ first_consumer = [t \in Tensors |-> Unset]
  /\ last_consumer  = [t \in Tensors |-> Unset]
  /\ todo = {}
  /\ chase = NoChase
  /\ alias_roots         = [t \in Tensors |-> Unset]
  /\ alias_last_consumer = [t \in Tensors |-> Unset]
  /\ intervals = [t \in Tensors |-> [first |-> 0, last |-> 0, dedicated |-> FALSE]]
  /\ naive_bytes = 0
  /\ slots = <<>>
  /\ available_after = <<>>
  /\ slot_of = [t \in Tensors |-> 0]
  /\ total_bytes = 0

(* ir::verify and the alignment check come before any planning.            *)
Enter ==
  /\ phase = "entry"
  /\ IF Verified(program) /\ PowerOfTwo(request.alignment)
     THEN /\ phase' = "scan"
          /\ UNCHANGED <<request, index, todo, scanVars, aliasVars, spanVars,
                         placeVars>>
     ELSE Fail

Scan ==
  /\ phase = "scan"
  /\ index < program.count
  /\ index' = index + 1
  /\ producer' = [t \in Tensors |->
        IF t \in program.outputs[index] /\ producer[t] = Unset
        THEN index ELSE producer[t]]
  /\ first_consumer' = [t \in Tensors |->
        IF t \in program.inputs[index] /\ first_consumer[t] = Unset
        THEN index ELSE first_consumer[t]]
  /\ last_consumer' = [t \in Tensors |->
        IF t \in program.inputs[index] THEN index ELSE last_consumer[t]]
  /\ UNCHANGED <<request, phase, todo, aliasVars, spanVars, placeVars>>

EndScan ==
  /\ phase = "scan"
  /\ index = program.count
  /\ phase' = "aliases"
  /\ todo' = DOMAIN aliases
  /\ UNCHANGED <<request, index, scanVars, aliasVars, spanVars, placeVars>>

-----------------------------------------------------------------------------
(* The loop over tensor_aliases: an unordered map, so any order.           *)
BeginAlias(o) ==
  /\ phase = "aliases"
  /\ chase = NoChase
  /\ o \in todo
  /\ IF Internal(program, o) /\ program.bytes[o] = program.bytes[aliases[o]]
     THEN /\ chase' = [output |-> o, root |-> aliases[o], seen |-> {o}]
          /\ todo' = todo \ {o}
          /\ UNCHANGED <<request, phase, index, scanVars, alias_roots,
                         alias_last_consumer, spanVars, placeVars>>
     ELSE Fail

Cyclic_Unchecked == FALSE            \* Mutant: no insert into `seen`.
Cyclic == chase.root \in chase.seen

(* while (tensor_aliases.contains(root)), with its cycle check.            *)
FollowAlias ==
  /\ phase = "aliases"
  /\ chase # NoChase
  /\ chase.root \in DOMAIN aliases
  /\ IF Cyclic
     THEN Fail
     ELSE /\ chase' = [chase EXCEPT !.root = aliases[chase.root],
                                    !.seen = @ \cup {chase.root}]
          /\ UNCHANGED <<request, phase, index, todo, scanVars, alias_roots,
                         alias_last_consumer, spanVars, placeVars>>

RecordAlias ==
  /\ phase = "aliases"
  /\ chase # NoChase
  /\ chase.root \notin DOMAIN aliases
  /\ alias_roots' = [alias_roots EXCEPT ![chase.output] = chase.root]
  /\ alias_last_consumer' =
        [alias_last_consumer EXCEPT
           ![chase.root] = Larger(@, last_consumer[chase.output])]
  /\ chase' = NoChase
  /\ UNCHANGED <<request, phase, index, todo, scanVars, spanVars, placeVars>>

EndAliases ==
  /\ phase = "aliases"
  /\ chase = NoChase
  /\ todo = {}
  /\ phase' = "intervals"
  /\ todo' = Tensors
  /\ UNCHANGED <<request, index, scanVars, aliasVars, spanVars, placeVars>>

-----------------------------------------------------------------------------
(* A tensor outside the plan: excluded by a lowering, stored in its alias  *)
(* root, or replaced by a backend constant.                                *)
Unplanned(t) ==
  t \in request.excluded \/ alias_roots[t] # Unset \/ t \in request.replaced

Misused(t) ==
  IF t \in request.excluded
  THEN ~ program.roles[t] \cap {"Input", "Constant", "Output"} = {}
  ELSE IF alias_roots[t] # Unset THEN FALSE
  ELSE IF t \in request.replaced
  THEN ~ (HasRole(program, t, "Constant")
          /\ program.roles[t] \cap {"Input", "Output"} = {})
  ELSE t \in request.persistent /\ ~Internal(program, t)

(* A streamed constant is needed from the operation whose turn issues its  *)
(* prefetch, `distance` operations before its first consumer.              *)
StreamedFirst(t) ==
  IF first_consumer[t] = Unset THEN 0
  ELSE Larger(first_consumer[t] - request.distance, 0)

FirstOperation(t) ==
  IF HasRole(program, t, "Streamed") THEN StreamedFirst(t)
  ELSE IF producer[t] = Unset THEN 0 ELSE producer[t]

(* Mutant: the readers of a tensor's aliases are forgotten.                *)
LastOperation_OwnReaders(t) ==
  IF HasRole(program, t, "Output") THEN program.count
  ELSE IF last_consumer[t] = Unset THEN FirstOperation(t)
  ELSE last_consumer[t]

LastOperation(t) ==
  LET own == IF HasRole(program, t, "Output") THEN program.count
             ELSE IF last_consumer[t] = Unset THEN FirstOperation(t)
             ELSE last_consumer[t]
  IN  Larger(own, alias_last_consumer[t])

Dedicated(t) ==
  \/ HasRole(program, t, "Input")
  \/ HasRole(program, t, "Constant") /\ ~HasRole(program, t, "Streamed")
  \/ HasRole(program, t, "Output")
  \/ t \in request.persistent

NaiveBytes(t) == StorageBytes(t)

(* One turn of the loop over program.tensors; ids stand for positions.     *)
MakeInterval(t) ==
  /\ phase = "intervals"
  /\ t \in todo /\ \A u \in todo : t <= u
  /\ \/ /\ Misused(t)
        /\ Fail
     \/ /\ ~Misused(t)
        /\ Unplanned(t)
        /\ todo' = todo \ {t}
        /\ UNCHANGED <<request, phase, index, scanVars, aliasVars, spanVars,
                       placeVars>>
     \/ /\ ~Misused(t)
        /\ ~Unplanned(t)
        /\ IF CanAlign(program.bytes[t]) /\ Fits(naive_bytes, t)
           THEN /\ intervals' = [intervals EXCEPT ![t] =
                      [first     |-> FirstOperation(t),
                       last      |-> LastOperation(t),
                       dedicated |-> Dedicated(t)]]
                /\ naive_bytes' = naive_bytes + NaiveBytes(t)
                /\ todo' = todo \ {t}
                /\ UNCHANGED <<request, phase, index, scanVars, aliasVars,
                               placeVars>>
           ELSE Fail

EndIntervals ==
  /\ phase = "intervals"
  /\ todo = {}
  /\ phase' = "place"
  /\ todo' = {t \in Tensors : ~Unplanned(t)}
  /\ UNCHANGED <<request, index, scanVars, aliasVars, spanVars, placeVars>>

-----------------------------------------------------------------------------
(* The order of std::sort over the intervals.                              *)
Before(t, u) ==
  IF intervals[t].dedicated # intervals[u].dedicated
  THEN intervals[t].dedicated
  ELSE IF intervals[t].first # intervals[u].first
  THEN intervals[t].first < intervals[u].first
  ELSE t < u

Next_in_order(t) == t \in todo /\ \A u \in todo \ {t} : Before(t, u)

(* Mutant: a slot may be taken over at the operation that uses it last.    *)
Reusable_Touching(t) ==
  {s \in DOMAIN slots : /\ ~intervals[t].dedicated
                        /\ available_after[s] <= intervals[t].first
                        /\ slots[s] >= StorageBytes(t)
                        /\ slots[s] < MaxU64}

(* The slots the best-fit search of a shareable tensor accepts.            *)
Reusable(t) ==
  {s \in DOMAIN slots : /\ ~intervals[t].dedicated
                        /\ available_after[s] < intervals[t].first
                        /\ slots[s] >= StorageBytes(t)
                        /\ slots[s] < MaxU64}

BestFit_First(t, s) ==               \* Mutant: the first slot that will do.
  s \in Reusable(t) /\ \A c \in Reusable(t) : s <= c

BestFit(t, s) ==
  /\ s \in Reusable(t)
  /\ \A c \in Reusable(t) : slots[s] < slots[c] \/ (slots[s] = slots[c] /\ s <= c)

PlaceInSlot(t, s) ==
  /\ phase = "place"
  /\ Next_in_order(t)
  /\ BestFit(t, s)
  /\ available_after' = [available_after EXCEPT ![s] = intervals[t].last]
  /\ slot_of' = [slot_of EXCEPT ![t] = s]
  /\ todo' = todo \ {t}
  /\ UNCHANGED <<request, phase, index, scanVars, aliasVars, spanVars, slots,
                 total_bytes>>

PlaceInNewSlot(t) ==
  /\ phase = "place"
  /\ Next_in_order(t)
  /\ Reusable(t) = {}
  /\ IF Fits(total_bytes, t)
     THEN /\ slots' = Append(slots, StorageBytes(t))
          /\ available_after' = Append(available_after,
               IF intervals[t].dedicated THEN MaxU64 ELSE intervals[t].last)
          /\ slot_of' = [slot_of EXCEPT ![t] = Len(slots) + 1]
          /\ total_bytes' = total_bytes + StorageBytes(t)
          /\ todo' = todo \ {t}
          /\ UNCHANGED <<request, phase, index, scanVars, aliasVars, spanVars>>
     ELSE Fail

EndPlacement ==
  /\ phase = "place"
  /\ todo = {}
  /\ phase' = "planned"
  /\ UNCHANGED <<request, index, todo, scanVars, aliasVars, spanVars, placeVars>>

-----------------------------------------------------------------------------
Next ==
  \/ Enter \/ Scan \/ EndScan
  \/ \E o \in Tensors : BeginAlias(o)
  \/ FollowAlias \/ RecordAlias \/ EndAliases
  \/ \E t \in Tensors : MakeInterval(t)
  \/ EndIntervals
  \/ \E t \in Tensors, s \in DOMAIN slots : PlaceInSlot(t, s)
  \/ \E t \in Tensors : PlaceInNewSlot(t)
  \/ EndPlacement

(* The planner is one sequential call that nothing can suspend.            *)
Spec == Init /\ [][Next]_vars /\ WF_vars(Next)
-----------------------------------------------------------------------------
Assigned(t) == slot_of[t] # 0
Streamed(t) == HasRole(program, t, "Streamed")

TypeOK ==
  /\ IsRequest(request)
  /\ phase \in {"entry", "scan", "aliases", "intervals", "place", "planned", "failed"}
  /\ index \in 0 .. program.count
  /\ producer       \in [Tensors -> {Unset} \cup Operations(program)]
  /\ first_consumer \in [Tensors -> {Unset} \cup Operations(program)]
  /\ last_consumer  \in [Tensors -> {Unset} \cup Operations(program)]
  /\ todo \subseteq Tensors
  /\ chase \in [output : Tensors \cup {Unset}, root : Tensors \cup {Unset},
               seen : SUBSET Tensors]
  /\ alias_roots \in [Tensors -> {Unset} \cup Tensors]
  /\ alias_last_consumer \in [Tensors -> {Unset} \cup Operations(program)]
  /\ intervals \in [Tensors -> [first : 0 .. program.count, last : 0 .. program.count,
                                dedicated : BOOLEAN]]
  /\ naive_bytes \in 0 .. MaxU64
  /\ slots \in Seq(0 .. MaxU64)
  /\ available_after \in Seq(0 .. MaxU64)
  /\ slot_of \in [Tensors -> 0 .. Len(slots)]
  /\ total_bytes \in 0 .. MaxU64

(* Two tensors that were given one slot are never alive at the same        *)
(* operation, and neither is a tensor the plan promised a slot of its own: *)
(* the reason kernels may write their outputs without looking at what the  *)
(* slot held (memory_plan.cpp, the best-fit loop).                         *)
StorageDisjoint ==
  \A t, u \in Tensors :
    (t # u /\ Assigned(t) /\ slot_of[t] = slot_of[u]) =>
      /\ ~intervals[t].dedicated /\ ~intervals[u].dedicated
      /\ \/ intervals[t].last < intervals[u].first
         \/ intervals[u].last < intervals[t].first

(* A tensor's slot has room for its bytes, whichever tensor sized it.      *)
FitsSlot ==
  \A t \in Tensors : Assigned(t) => program.bytes[t] <= slots[slot_of[t]]

(* The lifetime given to an assigned tensor covers its producer, every     *)
(* operation that reads it or reads an alias of it, the end of the program *)
(* for an output, and for a streamed constant also the operation whose     *)
(* turn issues its prefetch.                                               *)
AliveThroughUses ==
  \A t \in Tensors : Assigned(t) =>
    /\ \A i \in Producers(program, t) : intervals[t].first <= i /\ i <= intervals[t].last
    /\ \A i \in Consumers(program, t) :
         /\ intervals[t].first <= i /\ i <= intervals[t].last
         /\ Streamed(t) => intervals[t].first <= Larger(i - request.distance, 0)
    /\ \A o \in Tensors : alias_roots[o] = t =>
         \A i \in Consumers(program, o) : i <= intervals[t].last
    /\ HasRole(program, t, "Output") => intervals[t].last = program.count

(* The loops of plan_memory, with the maps they build up and the sorted    *)
(* order they follow, compute the plan the closed form defines: the modules*)
(* that execute a plan may take it from there.                             *)
MatchesReference ==
  phase = "planned" =>
    LET plan == Plan(request)
    IN  /\ slots = plan.slots
        /\ slot_of = plan.slot
        /\ \A t \in Tensors : Assigned(t) =>
             intervals[t] = Lifetime(request, t)

(* The program of this call with its streamed constants, planned by        *)
(* plan_streamed_residency under a budget.                                 *)
Question(b) ==
  [program |-> program, aliases |-> aliases, alignment |-> request.alignment,
   distance |-> request.distance, maximum |-> total_bytes + b.fixed + b.above,
   fixed |-> b.fixed, largest_first |-> b.largest_first]

(* A budget is accepted when it covers the plan as it is, and what is then *)
(* made resident keeps to it (plan_streamed_residency, which asks          *)
(* plan_memory once per constant).                                         *)
CeilingRespected ==
  phase = "planned" /\ request.excluded \cup request.replaced \cup request.persistent = {} =>
    \A b \in Budgets :
      /\ Plannable(Question(b)) <=> b.above >= 0
      /\ Plannable(Question(b)) => CeilingKept(Question(b))

(* Every call returns or fails; in particular a cycle of aliases cannot    *)
(* keep the root search going.                                             *)
Terminates == <>(phase \in {"planned", "failed"})
=============================================================================
