-------------------------- MODULE MemoryPlanProofs --------------------------
(***************************************************************************)
(* What plan_memory guarantees for every program and every argument:       *)
(* types and absence of wrap-around, disjoint lifetimes within a slot,     *)
(* slots big enough, lifetimes that cover every use of a tensor; that its  *)
(* plan is the one the closed form defines, and that the residency planner *)
(* which asks for such plans keeps to its ceiling.                         *)
(***************************************************************************)
EXTENDS MemoryPlan, ClosedFormProofs, SequenceTheorems, TLAPS

(* A mapping of the phases before any tensor has storage.                  *)
BeforePlacement == {"entry", "scan", "aliases", "intervals"}
Admitted == phase \notin {"entry", "failed"}

ChaseOK == chase # NoChase => chase.output \in Tensors /\ chase.root \in Tensors

AliasesPending == phase = "aliases" => todo \subseteq DOMAIN aliases

(* The scan has seen every use of the operations before index, and the     *)
(* positions it recorded are uses.                                         *)
ScanSound ==
  \A t \in Tensors :
    /\ producer[t] # Unset => t \in program.outputs[producer[t]]
    /\ last_consumer[t] # Unset => t \in program.inputs[last_consumer[t]]
    /\ first_consumer[t] = Unset <=> last_consumer[t] = Unset
    /\ first_consumer[t] <= last_consumer[t]
    /\ first_consumer[t] < index /\ last_consumer[t] < index

(* Lifetimes are not empty.                                                *)
SpansOrdered == \A t \in Tensors : intervals[t].first <= intervals[t].last

(* What the best-fit loop relies on: available_after is an upper bound of  *)
(* the lifetimes already placed in a slot, and the maximum for a dedicated *)
(* one.                                                                    *)
Released ==
  \A t \in Tensors : Assigned(t) =>
    /\ intervals[t].last <= available_after[slot_of[t]]
    /\ intervals[t].dedicated => available_after[slot_of[t]] = MaxU64
    /\ StorageBytes(t) <= slots[slot_of[t]]

IInv ==
  /\ TypeOK
  /\ ChaseOK
  /\ AliasesPending
  /\ Len(available_after) = Len(slots)
  /\ Admitted => Verified(program) /\ request.alignment > 0
  /\ ScanSound
  /\ SpansOrdered
  /\ phase \in BeforePlacement => slots = <<>>
  /\ slots # <<>> => request.alignment > 0
  /\ Released
  /\ StorageDisjoint

LEMMA AlignUpCovers ==
  ASSUME NEW b \in Nat, request.alignment \in Nat, request.alignment > 0
  PROVE  AlignUp(b) \in Nat /\ b <= AlignUp(b)
  BY RoundUp DEF AlignUp
-----------------------------------------------------------------------------
LEMMA BytesTyped == ASSUME IInv, NEW t \in Tensors PROVE program.bytes[t] \in Nat
<1>1. program.bytes \in [Tensors -> 0 .. MaxU64]
  BY DEF IInv, TypeOK, IsRequest, IsProgram, program
<1>2. QED
  BY <1>1, MaxU64Assumption

(* The parts of the invariant that only speak of lifetimes and slots       *)
(* survive a step that changes neither.                                    *)
LEMMA SameStorage ==
  ASSUME SpansOrdered, Released, StorageDisjoint,
         request' = request, spanVars' = spanVars, placeVars' = placeVars
  PROVE  SpansOrdered' /\ Released' /\ StorageDisjoint'
  BY DEF SpansOrdered, Released, StorageDisjoint, Assigned, StorageBytes, AlignUp,
         program, spanVars, placeVars

(* fail() changes nothing but the phase.                                   *)
LEMMA FailKeeps == ASSUME IInv, Fail PROVE IInv'
<1>1. TypeOK'
  BY DEF IInv, Fail, TypeOK, scanVars, aliasVars, spanVars, placeVars, program
<1>2. ChaseOK' /\ ScanSound' /\ (Len(available_after) = Len(slots))'
  BY DEF IInv, Fail, ChaseOK, ScanSound, scanVars, aliasVars, placeVars, program
<1>3. SpansOrdered' /\ Released' /\ StorageDisjoint'
  BY SameStorage DEF IInv, Fail
<1>4. ~Admitted' /\ (phase \notin BeforePlacement)'
  BY DEF Fail, Admitted, BeforePlacement
<1>5. (slots # <<>> => request.alignment > 0)'
  BY DEF IInv, Fail, placeVars
<1>6. AliasesPending'
  BY DEF Fail, AliasesPending
<1>7. QED
  BY <1>1, <1>2, <1>3, <1>4, <1>5, <1>6 DEF IInv

LEMMA InitIInv == Init => IInv
<1> SUFFICES ASSUME Init PROVE IInv
  OBVIOUS
<1>1. IsRequest(request) /\ program.count \in Nat
  BY RequestsAssumption DEF Init, IsRequest, IsProgram, program
<1>2. TypeOK
  BY <1>1, TensorsAssumption, MaxU64Assumption
     DEF Init, TypeOK, program, Unset, NoChase, Operations
<1>3. ScanSound /\ SpansOrdered
  BY <1>1 DEF Init, ScanSound, SpansOrdered, Unset, program
<1>4. Released /\ StorageDisjoint
  BY DEF Init, Released, StorageDisjoint, Assigned
<1>5. QED
  BY <1>2, <1>3, <1>4 DEF Init, IInv, ChaseOK, AliasesPending, Admitted, BeforePlacement

-----------------------------------------------------------------------------
LEMMA EnterKeeps == ASSUME IInv, Enter PROVE IInv'
<1>1. CASE Fail
  BY <1>1, FailKeeps
<1>2. CASE /\ Verified(program) /\ PowerOfTwo(request.alignment)
           /\ phase' = "scan"
           /\ UNCHANGED <<request, index, todo, scanVars, aliasVars, spanVars, placeVars>>
  <2>1. TypeOK'
    BY <1>2 DEF IInv, TypeOK, scanVars, aliasVars, spanVars, placeVars, program
  <2>2. ChaseOK' /\ ScanSound' /\ (Len(available_after) = Len(slots))'
    BY <1>2 DEF IInv, ChaseOK, ScanSound, scanVars, aliasVars, placeVars, program
  <2>3. SpansOrdered' /\ Released' /\ StorageDisjoint'
    BY <1>2, SameStorage DEF IInv
  <2>4. (Verified(program) /\ request.alignment > 0)'
    BY <1>2 DEF program, PowerOfTwo
  <2>5. slots' = <<>>
    BY <1>2 DEF IInv, Enter, BeforePlacement, placeVars
  <2>6. QED
    BY <1>2, <2>1, <2>2, <2>3, <2>4, <2>5 DEF IInv, AliasesPending
<1>3. QED
  BY <1>1, <1>2 DEF Enter

(* The scan records the first and the last use met so far.                 *)
LEMMA ScanKeeps == ASSUME IInv, Scan PROVE IInv'
<1>1. /\ index \in Operations(program) /\ index' = index + 1
      /\ program.count \in Nat /\ request' = request /\ program' = program
  BY DEF IInv, TypeOK, IsRequest, IsProgram, Scan, Operations, program
<1>2. TypeOK'
  <2>1. /\ producer' \in [Tensors -> {Unset} \cup Operations(program)]
        /\ first_consumer' \in [Tensors -> {Unset} \cup Operations(program)]
        /\ last_consumer' \in [Tensors -> {Unset} \cup Operations(program)]
    BY <1>1 DEF IInv, TypeOK, Scan
  <2>2. index' \in 0 .. program.count
    BY <1>1 DEF Operations
  <2>3. QED
    BY <1>1, <2>1, <2>2 DEF IInv, TypeOK, Scan, aliasVars, spanVars, placeVars
<1>3. ScanSound'
  <2> SUFFICES ASSUME NEW t \in Tensors
      PROVE  /\ producer'[t] # Unset => t \in program.outputs[producer'[t]]
             /\ last_consumer'[t] # Unset => t \in program.inputs[last_consumer'[t]]
             /\ first_consumer'[t] = Unset <=> last_consumer'[t] = Unset
             /\ first_consumer'[t] <= last_consumer'[t]
             /\ first_consumer'[t] < index' /\ last_consumer'[t] < index'
    BY <1>1 DEF ScanSound
  <2>1. /\ producer[t] # Unset => t \in program.outputs[producer[t]]
        /\ last_consumer[t] # Unset => t \in program.inputs[last_consumer[t]]
        /\ first_consumer[t] = Unset <=> last_consumer[t] = Unset
        /\ first_consumer[t] <= last_consumer[t]
        /\ first_consumer[t] < index /\ last_consumer[t] < index
    BY DEF IInv, ScanSound
  <2>2. /\ index \in Nat /\ Unset = -1
        /\ first_consumer[t] \in Int /\ last_consumer[t] \in Int
    BY <1>1 DEF IInv, TypeOK, Unset, Operations
  <2>3. CASE t \in program.inputs[index]
    BY <1>1, <2>1, <2>2, <2>3 DEF Scan
  <2>4. CASE t \notin program.inputs[index]
    BY <1>1, <2>1, <2>2, <2>4 DEF Scan
  <2>5. QED
    BY <2>3, <2>4
<1>4. SpansOrdered' /\ Released' /\ StorageDisjoint'
  BY SameStorage DEF IInv, Scan
<1>5. QED
  BY <1>1, <1>2, <1>3, <1>4
     DEF IInv, Scan, ChaseOK, AliasesPending, Admitted, BeforePlacement, aliasVars, placeVars

LEMMA EndScanKeeps == ASSUME IInv, EndScan PROVE IInv'
<1>1. request' = request /\ program' = program /\ DOMAIN aliases \subseteq Tensors
  BY DEF IInv, TypeOK, IsRequest, EndScan, program, aliases
<1>2. TypeOK'
  BY <1>1 DEF IInv, TypeOK, EndScan, scanVars, aliasVars, spanVars, placeVars
<1>3. ChaseOK' /\ ScanSound' /\ (Len(available_after) = Len(slots))'
  BY <1>1 DEF IInv, EndScan, ChaseOK, ScanSound, scanVars, aliasVars, placeVars
<1>4. SpansOrdered' /\ Released' /\ StorageDisjoint'
  BY SameStorage DEF IInv, EndScan
<1>5. QED
  BY <1>1, <1>2, <1>3, <1>4
     DEF IInv, EndScan, AliasesPending, aliases, Admitted, BeforePlacement, placeVars

-----------------------------------------------------------------------------
(* The alias loop reads the scan's maps and writes alias maps only.        *)
LEMMA AliasStepKeeps ==
  ASSUME IInv, phase \in {"scan", "aliases"}, phase' \in {"aliases", "intervals"},
         UNCHANGED <<request, index, scanVars, spanVars, placeVars>>,
         todo' \subseteq Tensors,
         chase' \in [output : Tensors \cup {Unset}, root : Tensors \cup {Unset},
                     seen : SUBSET Tensors],
         alias_roots' \in [Tensors -> {Unset} \cup Tensors],
         alias_last_consumer' \in [Tensors -> {Unset} \cup Operations(program)],
         ChaseOK', AliasesPending'
  PROVE  IInv'
<1>1. program' = program
  BY DEF program
<1>2. TypeOK'
  BY <1>1 DEF IInv, TypeOK, scanVars, spanVars, placeVars
<1>3. ScanSound' /\ (Len(available_after) = Len(slots))'
  BY <1>1 DEF IInv, ScanSound, scanVars, placeVars
<1>4. SpansOrdered' /\ Released' /\ StorageDisjoint'
  BY SameStorage DEF IInv
<1>5. QED
  BY <1>1, <1>2, <1>3, <1>4
     DEF IInv, Admitted, BeforePlacement, placeVars

LEMMA BeginAliasKeeps == ASSUME IInv, NEW o \in Tensors, BeginAlias(o) PROVE IInv'
<1>1. CASE Fail
  BY <1>1, FailKeeps
<1>2. CASE ~Fail
  <2>1. /\ chase' = [output |-> o, root |-> aliases[o], seen |-> {o}]
        /\ todo' = todo \ {o}
        /\ UNCHANGED <<request, phase, index, scanVars, alias_roots,
                       alias_last_consumer, spanVars, placeVars>>
        /\ phase = "aliases" /\ o \in todo
    BY <1>2 DEF BeginAlias
  <2>2. aliases[o] \in Tensors /\ aliases' = aliases
    BY <2>1 DEF IInv, TypeOK, IsRequest, AliasesPending, aliases
  <2>3. QED
    BY <2>1, <2>2, AliasStepKeeps DEF IInv, TypeOK, ChaseOK, AliasesPending
<1>3. QED
  BY <1>1, <1>2

LEMMA FollowAliasKeeps == ASSUME IInv, FollowAlias PROVE IInv'
<1>1. CASE Fail
  BY <1>1, FailKeeps
<1>2. CASE ~Fail
  <2>1. /\ chase' = [chase EXCEPT !.root = aliases[chase.root],
                                  !.seen = @ \cup {chase.root}]
        /\ UNCHANGED <<request, phase, index, todo, scanVars, alias_roots,
                       alias_last_consumer, spanVars, placeVars>>
        /\ phase = "aliases" /\ chase # NoChase
    BY <1>2 DEF FollowAlias
  <2>2. chase.output \in Tensors /\ chase.root \in Tensors
    BY <2>1 DEF IInv, ChaseOK
  <2>3. aliases[chase.root] \in Tensors
    BY DEF IInv, TypeOK, IsRequest, aliases, FollowAlias
  <2>4. chase' \in [output : Tensors \cup {Unset}, root : Tensors \cup {Unset},
                    seen : SUBSET Tensors]
    BY <2>1, <2>2, <2>3 DEF IInv, TypeOK
  <2>5. ChaseOK'
    BY <2>1, <2>2, <2>3 DEF IInv, TypeOK, ChaseOK
  <2>6. QED
    BY <2>1, <2>4, <2>5, AliasStepKeeps DEF IInv, TypeOK, AliasesPending, aliases
<1>3. QED
  BY <1>1, <1>2

LEMMA RecordAliasKeeps == ASSUME IInv, RecordAlias PROVE IInv'
<1>1. chase.output \in Tensors /\ chase.root \in Tensors
  BY DEF IInv, ChaseOK, RecordAlias
<1>2. alias_roots' \in [Tensors -> {Unset} \cup Tensors]
  BY <1>1 DEF IInv, TypeOK, RecordAlias
<1>3. alias_last_consumer' \in [Tensors -> {Unset} \cup Operations(program)]
  BY <1>1 DEF IInv, TypeOK, RecordAlias, Larger
<1>4. chase' \in [output : Tensors \cup {Unset}, root : Tensors \cup {Unset},
                  seen : SUBSET Tensors]
  BY DEF RecordAlias, NoChase
<1>5. QED
  BY <1>2, <1>3, <1>4, AliasStepKeeps
     DEF IInv, TypeOK, RecordAlias, ChaseOK, AliasesPending, aliases

LEMMA EndAliasesKeeps == ASSUME IInv, EndAliases PROVE IInv'
  BY AliasStepKeeps DEF IInv, TypeOK, EndAliases, ChaseOK, AliasesPending, aliasVars

-----------------------------------------------------------------------------
(* A verified program produces a tensor before it is read, so the position *)
(* the scan recorded as producer is not after the last consumer.           *)
LEMMA ProducedBeforeRead ==
  ASSUME IInv, Verified(program), NEW t \in Tensors,
         producer[t] # Unset, last_consumer[t] # Unset
  PROVE  producer[t] <= last_consumer[t]
<1>1. /\ t \in program.outputs[producer[t]]
      /\ t \in program.inputs[last_consumer[t]]
      /\ producer[t] \in Operations(program)
      /\ last_consumer[t] \in Operations(program)
  BY DEF IInv, TypeOK, ScanSound
<1>2. ~Bound(program, t)
  BY <1>1 DEF Verified
<1>3. PICK j \in Operations(program) : j < last_consumer[t] /\ t \in program.outputs[j]
  BY <1>1, <1>2 DEF Verified
<1>4. j = producer[t]
  BY <1>1, <1>3 DEF Verified
<1>5. QED
  BY <1>1, <1>3, <1>4 DEF Operations

(* The lifetime MakeInterval stores is within the program and not empty.   *)
LEMMA LifetimeOrdered ==
  ASSUME IInv, Verified(program), NEW t \in Tensors
  PROVE  /\ FirstOperation(t) \in 0 .. program.count
         /\ LastOperation(t) \in 0 .. program.count
         /\ FirstOperation(t) <= LastOperation(t)
         /\ last_consumer[t] # Unset => FirstOperation(t) <= last_consumer[t]
<1>1. /\ program.count \in Nat /\ request.distance \in Nat
      /\ producer[t] \in {Unset} \cup Operations(program)
      /\ first_consumer[t] \in {Unset} \cup Operations(program)
      /\ last_consumer[t] \in {Unset} \cup Operations(program)
      /\ alias_last_consumer[t] \in {Unset} \cup Operations(program)
  BY DEF IInv, TypeOK, IsRequest, IsProgram, program
<1>2. /\ first_consumer[t] = Unset <=> last_consumer[t] = Unset
      /\ first_consumer[t] <= last_consumer[t]
  BY DEF IInv, ScanSound
<1>3. FirstOperation(t) \in 0 .. program.count
  BY <1>1 DEF FirstOperation, StreamedFirst, Larger, Operations, Unset
<1>4. LastOperation(t) \in 0 .. program.count
  BY <1>1, <1>3 DEF LastOperation, Larger, Operations, Unset
<1>5. last_consumer[t] # Unset => FirstOperation(t) <= last_consumer[t]
  <2>1. CASE HasRole(program, t, "Streamed")
    BY <1>1, <1>2, <2>1 DEF FirstOperation, StreamedFirst, Larger, Operations, Unset
  <2>2. CASE ~HasRole(program, t, "Streamed")
    BY <1>1, <2>2, ProducedBeforeRead DEF FirstOperation, Operations, Unset
  <2>3. QED
    BY <2>1, <2>2
<1>6. FirstOperation(t) <= LastOperation(t)
  BY <1>1, <1>3, <1>5 DEF LastOperation, Larger, Operations, Unset
<1>7. QED
  BY <1>3, <1>4, <1>5, <1>6

LEMMA MakeIntervalKeeps == ASSUME IInv, NEW t \in Tensors, MakeInterval(t) PROVE IInv'
<1>1. CASE Fail
  BY <1>1, FailKeeps
<1>2. CASE /\ todo' = todo \ {t}
           /\ UNCHANGED <<request, phase, index, scanVars, aliasVars, spanVars, placeVars>>
  <2>1. phase = "intervals"
    BY DEF MakeInterval
  <2>2. program' = program
    BY <1>2 DEF program
  <2>3. TypeOK'
    BY <1>2, <2>2 DEF IInv, TypeOK, scanVars, aliasVars, spanVars, placeVars
  <2>4. ChaseOK' /\ ScanSound' /\ (Len(available_after) = Len(slots))'
    BY <1>2, <2>2 DEF IInv, ChaseOK, ScanSound, scanVars, aliasVars, placeVars
  <2>5. SpansOrdered' /\ Released' /\ StorageDisjoint'
    BY <1>2, SameStorage DEF IInv
  <2>6. QED
    BY <1>2, <2>1, <2>2, <2>3, <2>4, <2>5
       DEF IInv, AliasesPending, Admitted, BeforePlacement, placeVars
<1>3. CASE /\ CanAlign(program.bytes[t]) /\ naive_bytes <= MaxU64 - StorageBytes(t)
           /\ intervals' = [intervals EXCEPT ![t] =
                 [first |-> FirstOperation(t), last |-> LastOperation(t),
                  dedicated |-> Dedicated(t)]]
           /\ naive_bytes' = naive_bytes + StorageBytes(t)
           /\ todo' = todo \ {t}
           /\ UNCHANGED <<request, phase, index, scanVars, aliasVars, placeVars>>
  <2>1. phase = "intervals" /\ program' = program
    BY <1>3 DEF MakeInterval, program
  <2>2. Verified(program) /\ request.alignment \in Nat /\ request.alignment > 0
    BY <2>1 DEF IInv, Admitted, TypeOK, IsRequest
  <2>3. StorageBytes(t) \in Nat
    <3>1. program.bytes[t] \in Nat
      BY BytesTyped
    <3>2. QED
      BY <2>2, <3>1, AlignUpCovers DEF StorageBytes
  <2>4. naive_bytes' \in 0 .. MaxU64
    BY <1>3, <2>3, MaxU64Assumption DEF IInv, TypeOK
  <2>5. Dedicated(t) \in BOOLEAN
    BY DEF Dedicated, HasRole
  <2>6. intervals' \in [Tensors -> [first : 0 .. program.count, last : 0 .. program.count,
                                    dedicated : BOOLEAN]]
    <3> DEFINE L == [first |-> FirstOperation(t), last |-> LastOperation(t),
                     dedicated |-> Dedicated(t)]
    <3>1. L \in [first : 0 .. program.count, last : 0 .. program.count,
                 dedicated : BOOLEAN]
      BY <2>2, <2>5, LifetimeOrdered
    <3> HIDE DEF L
    <3>2. intervals' = [intervals EXCEPT ![t] = L]
      BY <1>3 DEF L
    <3>3. QED
      BY <3>1, <3>2 DEF IInv, TypeOK
  <2>7. TypeOK'
    BY <1>3, <2>1, <2>4, <2>6 DEF IInv, TypeOK, scanVars, aliasVars, placeVars
  <2>8. ChaseOK' /\ ScanSound' /\ (Len(available_after) = Len(slots))'
    BY <1>3, <2>1 DEF IInv, ChaseOK, ScanSound, scanVars, aliasVars, placeVars
  <2>9. SpansOrdered'
    <3> SUFFICES ASSUME NEW u \in Tensors PROVE intervals'[u].first <= intervals'[u].last
      BY DEF SpansOrdered
    <3>1. FirstOperation(t) <= LastOperation(t)
      BY <2>2, LifetimeOrdered
    <3>2. QED
      BY <1>3, <3>1 DEF IInv, TypeOK, SpansOrdered
  <2>10. \A u \in Tensors : slot_of'[u] = 0
    BY <1>3, <2>1 DEF IInv, TypeOK, BeforePlacement, placeVars
  <2>11. Released' /\ StorageDisjoint'
    BY <2>10 DEF Released, StorageDisjoint, Assigned
  <2>12. QED
    BY <1>3, <2>1, <2>7, <2>8, <2>9, <2>11
       DEF IInv, AliasesPending, Admitted, BeforePlacement, placeVars
<1>4. QED
  BY <1>1, <1>2, <1>3 DEF MakeInterval, Fits, NaiveBytes

LEMMA EndIntervalsKeeps == ASSUME IInv, EndIntervals PROVE IInv'
<1>1. request' = request /\ program' = program
  BY DEF EndIntervals, program
<1>2. TypeOK'
  BY <1>1 DEF IInv, TypeOK, EndIntervals, scanVars, aliasVars, spanVars, placeVars
<1>3. ChaseOK' /\ ScanSound' /\ (Len(available_after) = Len(slots))'
  BY <1>1 DEF IInv, EndIntervals, ChaseOK, ScanSound, scanVars, aliasVars, placeVars
<1>4. SpansOrdered' /\ Released' /\ StorageDisjoint'
  BY SameStorage DEF IInv, EndIntervals
<1>5. QED
  BY <1>1, <1>2, <1>3, <1>4
     DEF IInv, EndIntervals, AliasesPending, Admitted, BeforePlacement, placeVars

-----------------------------------------------------------------------------
(* A tensor that joins a slot begins after every lifetime placed in it: its*)
(* own end then bounds all of them, and no dedicated slot qualifies because*)
(* a lifetime begins before MaxU64.                                        *)
LEMMA PlaceInSlotKeeps ==
  ASSUME IInv, NEW t \in Tensors, NEW s \in DOMAIN slots, PlaceInSlot(t, s)
  PROVE  IInv'
<1>1. /\ phase = "place" /\ phase' = "place"
      /\ request' = request /\ program' = program /\ intervals' = intervals
      /\ slots' = slots
      /\ available_after' = [available_after EXCEPT ![s] = intervals[t].last]
      /\ slot_of' = [slot_of EXCEPT ![t] = s]
      /\ ~intervals[t].dedicated
      /\ available_after[s] < intervals[t].first
      /\ StorageBytes(t) <= slots[s]
  BY DEF PlaceInSlot, BestFit, Reusable, program, spanVars
<1>2. /\ intervals[t].first \in 0 .. program.count
      /\ intervals[t].last \in 0 .. program.count
      /\ intervals[t].first <= intervals[t].last
      /\ program.count \in Nat /\ program.count < MaxU64 /\ MaxU64 \in Nat
  BY MaxU64Assumption DEF IInv, TypeOK, IsRequest, IsProgram, program, SpansOrdered
<1>3. /\ s \in 1 .. Len(slots) /\ s \in 1 .. Len(available_after)
      /\ available_after \in Seq(0 .. MaxU64)
      /\ slot_of \in [Tensors -> 0 .. Len(slots)]
  BY DEF IInv, TypeOK
<1>4. /\ available_after' \in Seq(0 .. MaxU64)
      /\ Len(available_after') = Len(available_after)
      /\ \A c \in 1 .. Len(slots) : available_after'[c] =
           IF c = s THEN intervals[t].last ELSE available_after[c]
  BY <1>1, <1>2, <1>3 DEF IInv
<1>5. slot_of' \in [Tensors -> 0 .. Len(slots)]
  BY <1>1, <1>3
<1>6. TypeOK'
  BY <1>1, <1>4, <1>5 DEF IInv, TypeOK, PlaceInSlot, scanVars, aliasVars, spanVars
<1>7. \A u \in Tensors : slot_of[u] = s =>
        ~intervals[u].dedicated /\ intervals[u].last < intervals[t].first
  <2> SUFFICES ASSUME NEW u \in Tensors, slot_of[u] = s
      PROVE  ~intervals[u].dedicated /\ intervals[u].last < intervals[t].first
    OBVIOUS
  <2>1. intervals[u].last <= available_after[s]
        /\ (intervals[u].dedicated => available_after[s] = MaxU64)
    BY <1>3 DEF IInv, Released, Assigned
  <2>2. /\ intervals[u].last \in Int
        /\ available_after[s] \in Int
        /\ intervals[t].first \in Int
    <3>1. intervals[u].last \in 0 .. program.count
      BY DEF IInv, TypeOK
    <3>2. available_after[s] \in 0 .. MaxU64
      BY <1>3, ElementOfSeq, Zenon
    <3>3. QED
      BY <1>2, <3>1, <3>2
  <2>3. intervals[u].last < intervals[t].first
    BY <1>1, <2>1, <2>2
  <2>4. ~intervals[u].dedicated
    BY <1>1, <1>2, <2>1, <2>2
  <2>5. QED
    BY <2>3, <2>4
<1>8. Released'
  <2> SUFFICES ASSUME NEW u \in Tensors, slot_of'[u] # 0
      PROVE  /\ intervals[u].last <= available_after'[slot_of'[u]]
             /\ intervals[u].dedicated => available_after'[slot_of'[u]] = MaxU64
             /\ StorageBytes(u) <= slots[slot_of'[u]]
    BY <1>1 DEF Released, Assigned, StorageBytes, AlignUp, program
  <2>1. CASE u = t
    BY <1>1, <1>2, <1>3, <1>4, <2>1
  <2>2. CASE u # t /\ slot_of[u] = s
    <3>1. intervals[u].last \in Int
      BY DEF IInv, TypeOK
    <3>2. QED
      BY <1>1, <1>2, <1>3, <1>4, <1>7, <2>2, <3>1 DEF IInv, Released, Assigned
  <2>3. CASE u # t /\ slot_of[u] # s
    BY <1>1, <1>3, <1>4, <2>3 DEF IInv, Released, Assigned
  <2>4. QED
    BY <2>1, <2>2, <2>3
<1>9. StorageDisjoint'
  <2> SUFFICES ASSUME NEW u \in Tensors, NEW v \in Tensors, u # v,
                      slot_of'[u] # 0, slot_of'[u] = slot_of'[v]
      PROVE  /\ ~intervals[u].dedicated /\ ~intervals[v].dedicated
             /\ \/ intervals[u].last < intervals[v].first
                \/ intervals[v].last < intervals[u].first
    BY <1>1 DEF StorageDisjoint, Assigned
  <2>1. CASE u = t
    BY <1>1, <1>3, <1>7, <2>1
  <2>2. CASE v = t
    BY <1>1, <1>3, <1>7, <2>2
  <2>3. CASE u # t /\ v # t
    BY <1>1, <1>3, <2>3 DEF IInv, StorageDisjoint, Assigned
  <2>4. QED
    BY <2>1, <2>2, <2>3
<1>10. ChaseOK' /\ ScanSound' /\ AliasesPending'
  BY <1>1 DEF IInv, PlaceInSlot, ChaseOK, ScanSound, AliasesPending, scanVars, aliasVars
<1>11. QED
  BY <1>1, <1>4, <1>6, <1>8, <1>9, <1>10
     DEF IInv, SpansOrdered, Admitted, BeforePlacement

LEMMA PlaceInNewSlotKeeps ==
  ASSUME IInv, NEW t \in Tensors, PlaceInNewSlot(t) PROVE IInv'
<1>1. CASE Fail
  BY <1>1, FailKeeps
<1>2. CASE ~Fail
  <2> DEFINE n == Len(slots) + 1
             until == IF intervals[t].dedicated THEN MaxU64 ELSE intervals[t].last
  <2>1. /\ phase = "place" /\ phase' = "place"
        /\ request' = request /\ program' = program /\ intervals' = intervals
        /\ total_bytes <= MaxU64 - StorageBytes(t)
        /\ slots' = Append(slots, StorageBytes(t))
        /\ available_after' = Append(available_after, until)
        /\ slot_of' = [slot_of EXCEPT ![t] = n]
        /\ total_bytes' = total_bytes + StorageBytes(t)
        /\ todo' = todo \ {t}
        /\ UNCHANGED <<index, scanVars, aliasVars, spanVars>>
    BY <1>2 DEF PlaceInNewSlot, Fits, program, spanVars
  <2>2. /\ intervals[t].last \in 0 .. program.count
        /\ program.count \in Nat /\ program.count < MaxU64 /\ MaxU64 \in Nat
        /\ total_bytes \in 0 .. MaxU64
        /\ slots \in Seq(0 .. MaxU64) /\ available_after \in Seq(0 .. MaxU64)
        /\ Len(available_after) = Len(slots)
        /\ slot_of \in [Tensors -> 0 .. Len(slots)]
    BY MaxU64Assumption DEF IInv, TypeOK, IsRequest, IsProgram, program
  <2>3. StorageBytes(t) \in Nat
    <3>1. program.bytes[t] \in Nat
      BY BytesTyped
    <3>2. request.alignment \in Nat /\ request.alignment > 0
      BY <2>1 DEF IInv, Admitted, TypeOK, IsRequest
    <3>3. QED
      BY <3>1, <3>2, AlignUpCovers DEF StorageBytes
  <2>4. StorageBytes(t) \in 0 .. MaxU64 /\ total_bytes' \in 0 .. MaxU64
    BY <2>1, <2>2, <2>3
  <2>5. until \in 0 .. MaxU64
    BY <2>2
  <2>6. intervals[t].last <= until
        /\ (intervals[t].dedicated => until = MaxU64)
    BY <2>2
  <2> HIDE DEF until
  <2>7. /\ slots' \in Seq(0 .. MaxU64) /\ Len(slots') = n
        /\ slots'[n] = StorageBytes(t)
        /\ \A c \in 1 .. Len(slots) : slots'[c] = slots[c]
    BY <2>1, <2>2, <2>4
  <2>8. /\ available_after' \in Seq(0 .. MaxU64) /\ Len(available_after') = n
        /\ available_after'[n] = until
        /\ \A c \in 1 .. Len(slots) : available_after'[c] = available_after[c]
    BY <2>1, <2>2, <2>5
  <2>9. slot_of' \in [Tensors -> 0 .. n] /\ n \notin 0 .. Len(slots) /\ n # 0
    BY <2>1, <2>2
  <2>10. TypeOK'
    BY <2>1, <2>4, <2>7, <2>8, <2>9 DEF IInv, TypeOK, scanVars, aliasVars, spanVars
  <2>11. Released'
    <3> SUFFICES ASSUME NEW u \in Tensors, slot_of'[u] # 0
        PROVE  /\ intervals[u].last <= available_after'[slot_of'[u]]
               /\ intervals[u].dedicated => available_after'[slot_of'[u]] = MaxU64
               /\ StorageBytes(u) <= slots'[slot_of'[u]]
      BY <2>1 DEF Released, Assigned, StorageBytes, AlignUp, program
    <3>1. CASE u = t
      BY <2>1, <2>2, <2>3, <2>6, <2>7, <2>8, <3>1
    <3>2. CASE u # t
      <4>1. slot_of'[u] = slot_of[u] /\ slot_of[u] \in 1 .. Len(slots)
        BY <2>1, <2>2, <3>2
      <4>2. QED
        BY <2>7, <2>8, <4>1 DEF IInv, Released, Assigned
    <3>3. QED
      BY <3>1, <3>2
  <2>12. StorageDisjoint'
    <3> SUFFICES ASSUME NEW u \in Tensors, NEW v \in Tensors, u # v,
                        slot_of'[u] # 0, slot_of'[u] = slot_of'[v]
        PROVE  /\ ~intervals[u].dedicated /\ ~intervals[v].dedicated
               /\ \/ intervals[u].last < intervals[v].first
                  \/ intervals[v].last < intervals[u].first
      BY <2>1 DEF StorageDisjoint, Assigned
    <3>1. u # t /\ v # t
      BY <2>1, <2>2, <2>9
    <3>2. QED
      BY <2>1, <2>2, <3>1 DEF IInv, StorageDisjoint, Assigned
  <2>13. ChaseOK' /\ ScanSound' /\ AliasesPending'
    BY <2>1 DEF IInv, ChaseOK, ScanSound, AliasesPending, scanVars, aliasVars
  <2>14. QED
    BY <2>1, <2>7, <2>8, <2>10, <2>11, <2>12, <2>13
       DEF IInv, SpansOrdered, Admitted, BeforePlacement
<1>3. QED
  BY <1>1, <1>2

LEMMA EndPlacementKeeps == ASSUME IInv, EndPlacement PROVE IInv'
<1>1. request' = request /\ program' = program
  BY DEF EndPlacement, program
<1>2. TypeOK'
  BY <1>1 DEF IInv, TypeOK, EndPlacement, scanVars, aliasVars, spanVars, placeVars
<1>3. ChaseOK' /\ ScanSound' /\ (Len(available_after) = Len(slots))'
  BY <1>1 DEF IInv, EndPlacement, ChaseOK, ScanSound, scanVars, aliasVars, placeVars
<1>4. SpansOrdered' /\ Released' /\ StorageDisjoint'
  BY SameStorage DEF IInv, EndPlacement
<1>5. QED
  BY <1>1, <1>2, <1>3, <1>4
     DEF IInv, EndPlacement, AliasesPending, Admitted, BeforePlacement, placeVars

-----------------------------------------------------------------------------
LEMMA NextKeeps == ASSUME IInv, [Next]_vars PROVE IInv'
<1>1. CASE UNCHANGED vars
  <2>1. request' = request /\ program' = program /\ aliases' = aliases
    BY <1>1 DEF vars, program, aliases
  <2>2. TypeOK' /\ ChaseOK' /\ AliasesPending' /\ ScanSound'
    BY <1>1, <2>1 DEF IInv, TypeOK, ChaseOK, AliasesPending, ScanSound, vars, scanVars,
                 aliasVars, spanVars, placeVars
  <2>3. SpansOrdered' /\ Released' /\ StorageDisjoint'
    BY <1>1, SameStorage DEF IInv, vars
  <2>4. QED
    BY <1>1, <2>1, <2>2, <2>3 DEF IInv, Admitted, BeforePlacement, vars, placeVars
<1>2. CASE Next
  BY <1>2, EnterKeeps, ScanKeeps, EndScanKeeps, BeginAliasKeeps, FollowAliasKeeps,
     RecordAliasKeeps, EndAliasesKeeps, MakeIntervalKeeps, EndIntervalsKeeps,
     PlaceInSlotKeeps, PlaceInNewSlotKeeps, EndPlacementKeeps DEF Next
<1>3. QED
  BY <1>1, <1>2

LEMMA Inductive == Spec => []IInv
  BY InitIInv, NextKeeps, PTL DEF Spec

(* plan_memory: every counter of the planner keeps to its word and every   *)
(* recorded position to the program, whatever the program and arguments.   *)
THEOREM TypeCorrect == Spec => []TypeOK
<1>1. IInv => TypeOK
  BY DEF IInv
<1>2. QED
  BY <1>1, Inductive, PTL

(* plan_memory: tensors that share a slot have disjoint lifetimes and no   *)
(* dedicated tensor shares, at every moment of planning.                   *)
THEOREM SharedSlotsDisjoint == Spec => []StorageDisjoint
<1>1. IInv => StorageDisjoint
  BY DEF IInv
<1>2. QED
  BY <1>1, Inductive, PTL

(* plan_memory: a tensor's slot has room for its bytes, because slots are  *)
(* sized and compared in aligned bytes and alignment only rounds up.       *)
THEOREM SlotsLargeEnough == Spec => []FitsSlot
<1>1. IInv => FitsSlot
  <2> SUFFICES ASSUME IInv, NEW t \in Tensors, Assigned(t)
      PROVE  program.bytes[t] <= slots[slot_of[t]]
    BY DEF FitsSlot
  <2>1. slot_of[t] \in 1 .. Len(slots)
    BY DEF IInv, TypeOK, Assigned
  <2>2. request.alignment \in Nat /\ request.alignment > 0
    BY <2>1 DEF IInv, TypeOK, IsRequest
  <2>3. program.bytes[t] \in Nat /\ slots[slot_of[t]] \in Nat
    <3>1. program.bytes[t] \in 0 .. MaxU64
      BY DEF IInv, TypeOK, IsRequest, IsProgram, program
    <3>2. slots \in Seq(0 .. MaxU64)
      BY DEF IInv, TypeOK
    <3>3. slots[slot_of[t]] \in 0 .. MaxU64
      BY <2>1, <3>2, ElementOfSeq, Zenon
    <3>4. QED
      BY <3>1, <3>3, MaxU64Assumption
  <2>4. /\ StorageBytes(t) \in Nat /\ program.bytes[t] <= StorageBytes(t)
        /\ StorageBytes(t) <= slots[slot_of[t]]
    BY <2>2, <2>3, AlignUpCovers DEF StorageBytes, IInv, Released
  <2>5. QED
    BY <2>3, <2>4
<1>2. QED
  BY <1>1, Inductive, PTL

-----------------------------------------------------------------------------
(* That a tensor is kept alive through all its uses: the half of slot      *)
(* sharing that SharedSlotsDisjoint does not say.                          *)

(* Nothing the scan has passed is missing from its maps, and what it has   *)
(* not reached is not in them.                                             *)
Met(t) ==
  /\ \A i \in Producers(program, t) : i < index => producer[t] = i
  /\ \A i \in Consumers(program, t) : i < index =>
       first_consumer[t] # Unset /\ first_consumer[t] <= i /\ i <= last_consumer[t]

ScanComplete == \A t \in Tensors : producer[t] < index /\ (Verified(program) => Met(t))

ScanOver ==
  phase \in {"aliases", "intervals", "place", "planned"} => index = program.count

(* The root of an alias remembers a reader no earlier than the alias's own.*)
AliasCovers ==
  \A o \in Tensors : alias_roots[o] # Unset =>
    last_consumer[o] <= alias_last_consumer[alias_roots[o]]

(* The lifetime stored for a tensor is the one its uses ask for.           *)
Spans(t) == /\ intervals[t].first = FirstOperation(t)
            /\ intervals[t].last = LastOperation(t)

IntervalsMade ==
  phase = "intervals" => \A t \in Tensors \ todo : Unplanned(t) \/ Spans(t)
AwaitingPlace ==
  phase = "place" => \A t \in todo : Spans(t)
PlacedWithSpan ==
  \A t \in Tensors : Assigned(t) =>
    Spans(t) /\ Verified(program) /\ index = program.count

AliasesLater ==
  phase \in {"entry", "scan"} => \A o \in Tensors : alias_roots[o] = Unset

UInv == /\ ScanComplete /\ ScanOver /\ AliasCovers /\ AliasesLater
        /\ IntervalsMade /\ AwaitingPlace /\ PlacedWithSpan

-----------------------------------------------------------------------------
(* Before the best-fit loop no tensor has a slot.                          *)
LEMMA NoneAssigned ==
  ASSUME TypeOK, phase \in BeforePlacement => slots = <<>>, phase \in BeforePlacement
  PROVE  \A t \in Tensors : ~Assigned(t)
  BY DEF TypeOK, Assigned

(* What a lifetime is computed from.                                       *)
LEMMA SameSpans ==
  ASSUME UNCHANGED <<request, index, scanVars, alias_roots, alias_last_consumer>>
  PROVE  /\ program' = program /\ aliases' = aliases
         /\ ScanComplete => ScanComplete'
         /\ AliasCovers => AliasCovers'
         /\ \A t \in Tensors :
              /\ FirstOperation(t)' = FirstOperation(t)
              /\ LastOperation(t)' = LastOperation(t)
              /\ Unplanned(t)' = Unplanned(t)
<1>1. program' = program /\ aliases' = aliases
  BY DEF program, aliases
<1>2. ScanComplete => ScanComplete'
  BY <1>1 DEF ScanComplete, Met, scanVars
<1>3. AliasCovers => AliasCovers'
  BY DEF AliasCovers, scanVars
<1>4. ASSUME NEW t \in Tensors
      PROVE  /\ FirstOperation(t)' = FirstOperation(t)
             /\ LastOperation(t)' = LastOperation(t)
             /\ Unplanned(t)' = Unplanned(t)
  BY <1>1 DEF FirstOperation, LastOperation, StreamedFirst, Unplanned, scanVars
<1>5. QED
  BY <1>1, <1>2, <1>3, <1>4

(* A step that changes neither slots nor lifetimes nor what they are       *)
(* computed from keeps all that does not speak of the phase.               *)
LEMMA SameUses ==
  ASSUME UInv, UNCHANGED <<request, index, scanVars, alias_roots, alias_last_consumer,
                           spanVars, slot_of>>
  PROVE  /\ ScanComplete' /\ AliasCovers' /\ PlacedWithSpan'
         /\ program' = program /\ aliases' = aliases
         /\ \A t \in Tensors : Spans(t)' = Spans(t) /\ Unplanned(t)' = Unplanned(t)
<1>1. /\ program' = program /\ aliases' = aliases /\ ScanComplete' /\ AliasCovers'
      /\ \A t \in Tensors : Spans(t)' = Spans(t) /\ Unplanned(t)' = Unplanned(t)
  BY SameSpans DEF UInv, Spans, spanVars
<1>2. PlacedWithSpan'
  BY <1>1 DEF UInv, PlacedWithSpan, Assigned
<1>3. QED
  BY <1>1, <1>2

LEMMA FailKeepsUses == ASSUME UInv, Fail PROVE UInv'
<1>1. ScanComplete' /\ AliasCovers' /\ PlacedWithSpan'
  BY SameUses DEF Fail, aliasVars, placeVars
<1>2. QED
  BY <1>1 DEF UInv, Fail, ScanOver, AliasesLater, IntervalsMade, AwaitingPlace

LEMMA UsesStart == Init => UInv
<1> SUFFICES ASSUME Init PROVE UInv
  OBVIOUS
<1>1. program.count \in Nat
  BY RequestsAssumption DEF Init, IsRequest, IsProgram, program
<1>2. ScanComplete
  BY <1>1 DEF Init, ScanComplete, Met, Producers, Consumers, Operations, Unset
<1>3. QED
  BY <1>2 DEF Init, UInv, ScanOver, AliasCovers, AliasesLater, IntervalsMade,
     AwaitingPlace, PlacedWithSpan, Assigned

LEMMA EnterKeepsUses == ASSUME UInv, Enter PROVE UInv'
<1>1. CASE Fail
  BY <1>1, FailKeepsUses
<1>2. CASE ~Fail
  <2>1. ScanComplete' /\ AliasCovers' /\ PlacedWithSpan'
    BY <1>2, SameUses DEF Enter, aliasVars, placeVars
  <2>2. QED
    BY <1>2, <2>1 DEF UInv, Enter, ScanOver, AliasesLater, IntervalsMade,
       AwaitingPlace, aliasVars
<1>3. QED
  BY <1>1, <1>2

(* One turn of the scan: of a tensor's uses, only those at index are new.  *)
LEMMA ScanKeepsUses == ASSUME IInv, UInv, Scan PROVE UInv'
<1>1. /\ index \in Operations(program) /\ index' = index + 1 /\ index \in Nat
      /\ program' = program /\ phase = "scan" /\ phase' = "scan"
      /\ alias_roots' = alias_roots
  BY DEF IInv, TypeOK, IsRequest, IsProgram, Scan, Operations, program, aliasVars
<1>2. ASSUME Verified(program), NEW t \in Tensors,
             NEW i \in Producers(program, t), i < index'
      PROVE  producer'[t] = i
  <2>1. i \in Operations(program) /\ t \in program.outputs[i] /\ i \in Int
    BY DEF Producers, Operations
  <2>2. CASE i < index
    <3>1. producer[t] = i /\ i # Unset
      BY <1>2, <2>1, <2>2 DEF UInv, ScanComplete, Met, Unset, Operations
    <3>2. QED
      BY <3>1 DEF Scan
  <2>3. CASE i = index
    <3>1. producer[t] = Unset
      <4>1. producer[t] \in {Unset} \cup Operations(program) /\ producer[t] < index
        BY DEF IInv, TypeOK, UInv, ScanComplete
      <4>2. producer[t] # Unset => t \in program.outputs[producer[t]]
        BY DEF IInv, ScanSound
      <4>3. SUFFICES ASSUME producer[t] # Unset PROVE FALSE
        OBVIOUS
      <4>4. producer[t] \in Operations(program) /\ producer[t] # i
        BY <1>1, <2>3, <4>1, <4>3 DEF Operations
      <4>5. program.outputs[producer[t]] \cap program.outputs[i] = {}
        BY <1>2, <2>1, <4>4 DEF Verified
      <4>6. QED
        BY <2>1, <4>2, <4>3, <4>5
    <3>2. QED
      BY <2>1, <2>3, <3>1 DEF Scan
  <2>4. QED
    BY <1>1, <1>2, <2>1, <2>2, <2>3
<1>3. ASSUME Verified(program), NEW t \in Tensors,
             NEW i \in Consumers(program, t), i < index'
      PROVE  first_consumer'[t] # Unset /\ first_consumer'[t] <= i /\ i <= last_consumer'[t]
  <2>1. i \in Operations(program) /\ t \in program.inputs[i] /\ i \in Nat
    BY DEF Consumers, Operations
  <2>2. /\ first_consumer[t] \in Int /\ last_consumer[t] \in Int
        /\ first_consumer[t] < index /\ last_consumer[t] < index
    BY DEF IInv, TypeOK, ScanSound, Operations, Unset
  <2>3. CASE i < index
    <3>1. /\ first_consumer[t] # Unset
          /\ first_consumer[t] <= i /\ i <= last_consumer[t]
      BY <1>3, <2>3 DEF UInv, ScanComplete, Met
    <3>2. QED
      BY <1>1, <2>1, <2>2, <2>3, <3>1 DEF Scan
  <2>4. CASE i = index
    BY <1>1, <2>1, <2>2, <2>4 DEF Scan, Unset
  <2>5. QED
    BY <1>1, <1>3, <2>1, <2>3, <2>4
<1>4. \A t \in Tensors : producer'[t] < index'
  <2> SUFFICES ASSUME NEW t \in Tensors PROVE producer'[t] < index'
    OBVIOUS
  <2>1. producer[t] \in Int /\ producer[t] < index
    BY DEF IInv, TypeOK, UInv, ScanComplete, Operations, Unset
  <2>2. QED
    BY <1>1, <2>1 DEF Scan
<1>5. ScanComplete'
  BY <1>1, <1>2, <1>3, <1>4 DEF ScanComplete, Met
<1>6. \A t \in Tensors : ~Assigned(t)'
  BY <1>1, NoneAssigned DEF IInv, Scan, BeforePlacement, Assigned, placeVars
<1>7. QED
  BY <1>1, <1>5, <1>6 DEF UInv, ScanOver, AliasCovers, AliasesLater, IntervalsMade,
     AwaitingPlace, PlacedWithSpan

LEMMA EndScanKeepsUses == ASSUME IInv, UInv, EndScan PROVE UInv'
<1>1. ScanComplete' /\ AliasCovers' /\ PlacedWithSpan' /\ program' = program
  BY SameUses DEF EndScan, aliasVars, placeVars
<1>2. QED
  BY <1>1 DEF UInv, EndScan, ScanOver, AliasesLater, IntervalsMade, AwaitingPlace

-----------------------------------------------------------------------------
(* The alias loop, while the chase goes on.                                *)
LEMMA ChaseKeepsUses ==
  ASSUME UInv, phase = "aliases", phase' = "aliases",
         UNCHANGED <<request, index, scanVars, alias_roots, alias_last_consumer,
                     spanVars, placeVars>>
  PROVE  UInv'
<1>1. ScanComplete' /\ AliasCovers' /\ PlacedWithSpan' /\ program' = program
  BY SameUses DEF placeVars
<1>2. QED
  BY <1>1 DEF UInv, ScanOver, AliasesLater, IntervalsMade, AwaitingPlace

LEMMA RecordAliasKeepsUses == ASSUME IInv, UInv, RecordAlias PROVE UInv'
<1>1. /\ phase = "aliases" /\ phase' = "aliases" /\ program' = program
      /\ UNCHANGED <<request, index, scanVars, slot_of>>
      /\ chase.output \in Tensors /\ chase.root \in Tensors
  BY DEF IInv, ChaseOK, RecordAlias, program, placeVars
<1>2. ScanComplete'
  BY <1>1 DEF UInv, ScanComplete, Met, scanVars
<1>3. AliasCovers'
  <2> SUFFICES ASSUME NEW o \in Tensors, alias_roots'[o] # Unset
      PROVE  last_consumer[o] <= alias_last_consumer'[alias_roots'[o]]
    BY <1>1 DEF AliasCovers, scanVars
  <2> DEFINE r == alias_roots'[o]
  <2>1. /\ last_consumer \in [Tensors -> Int]
        /\ alias_last_consumer \in [Tensors -> Int]
    BY DEF IInv, TypeOK, Operations, Unset
  <2>2. r \in Tensors /\ (r = chase.root \/ r = alias_roots[o])
        /\ (o # chase.output => r = alias_roots[o])
    BY <1>1 DEF IInv, TypeOK, RecordAlias
  <2>3. alias_last_consumer'[r] =
          IF r = chase.root
          THEN Larger(alias_last_consumer[r], last_consumer[chase.output])
          ELSE alias_last_consumer[r]
    BY <1>1, <2>1, <2>2 DEF RecordAlias
  <2>4. CASE o = chase.output
    <3>1. r = chase.root
      BY <1>1, <2>4 DEF IInv, TypeOK, RecordAlias
    <3>2. QED
      BY <1>1, <2>1, <2>2, <2>3, <2>4, <3>1 DEF Larger
  <2>5. CASE o # chase.output
    <3>1. last_consumer[o] <= alias_last_consumer[r]
      BY <2>2, <2>5 DEF UInv, AliasCovers
    <3>2. QED
      BY <1>1, <2>1, <2>2, <2>3, <3>1 DEF Larger
  <2>6. QED
    BY <2>4, <2>5
<1>4. \A t \in Tensors : ~Assigned(t)'
  BY <1>1, NoneAssigned DEF IInv, BeforePlacement, Assigned
<1>5. QED
  BY <1>1, <1>2, <1>3, <1>4 DEF UInv, ScanOver, AliasesLater, IntervalsMade,
     AwaitingPlace, PlacedWithSpan

LEMMA EndAliasesKeepsUses == ASSUME UInv, EndAliases PROVE UInv'
<1>1. ScanComplete' /\ AliasCovers' /\ PlacedWithSpan' /\ program' = program
  BY SameUses DEF EndAliases, aliasVars, placeVars
<1>2. QED
  BY <1>1 DEF UInv, EndAliases, ScanOver, AliasesLater, IntervalsMade, AwaitingPlace

-----------------------------------------------------------------------------
LEMMA MakeIntervalKeepsUses ==
  ASSUME IInv, UInv, NEW t \in Tensors, MakeInterval(t) PROVE UInv'
<1>1. CASE Fail
  BY <1>1, FailKeepsUses
<1>2. CASE ~Fail
  <2>1. /\ phase = "intervals" /\ phase' = "intervals" /\ todo' = todo \ {t}
        /\ UNCHANGED <<request, index, scanVars, alias_roots, alias_last_consumer, slot_of>>
    BY <1>2 DEF MakeInterval, aliasVars, placeVars
  <2>2. /\ program' = program /\ ScanComplete' /\ AliasCovers'
        /\ \A u \in Tensors : /\ FirstOperation(u)' = FirstOperation(u)
                              /\ LastOperation(u)' = LastOperation(u)
                              /\ Unplanned(u)' = Unplanned(u)
    BY <2>1, SameSpans DEF UInv
  <2>3. \A u \in Tensors : ~Assigned(u)'
    BY <2>1, NoneAssigned DEF IInv, BeforePlacement, Assigned
  <2>4. \A u \in Tensors \ {t} : intervals'[u] = intervals[u]
    BY <1>2 DEF MakeInterval, spanVars, IInv, TypeOK
  <2>5. Unplanned(t) \/ (/\ intervals'[t].first = FirstOperation(t)
                         /\ intervals'[t].last = LastOperation(t))
    BY <1>2 DEF MakeInterval, IInv, TypeOK
  <2>6. \A u \in Tensors : Unplanned(u)' \/ Spans(u)' \/ u \in todo'
    <3> SUFFICES ASSUME NEW u \in Tensors, u \notin todo'
        PROVE Unplanned(u)' \/ Spans(u)'
      OBVIOUS
    <3>1. CASE u = t
      BY <2>2, <2>5, <3>1 DEF Spans
    <3>2. CASE u # t
      BY <2>1, <2>2, <2>4, <3>2 DEF UInv, IntervalsMade, Spans
    <3>3. QED
      BY <3>1, <3>2
  <2>7. QED
    BY <2>1, <2>2, <2>3, <2>6 DEF UInv, ScanOver, AliasesLater, IntervalsMade,
       AwaitingPlace, PlacedWithSpan
<1>3. QED
  BY <1>1, <1>2

LEMMA EndIntervalsKeepsUses == ASSUME UInv, EndIntervals PROVE UInv'
<1>1. /\ ScanComplete' /\ AliasCovers' /\ PlacedWithSpan' /\ program' = program
      /\ \A t \in Tensors : Spans(t)' = Spans(t) /\ Unplanned(t)' = Unplanned(t)
  BY SameUses DEF EndIntervals, aliasVars, placeVars
<1>2. \A t \in todo' : Spans(t)'
  BY <1>1 DEF UInv, EndIntervals, IntervalsMade
<1>3. QED
  BY <1>1, <1>2 DEF UInv, EndIntervals, ScanOver, AliasesLater, IntervalsMade, AwaitingPlace

-----------------------------------------------------------------------------
(* A tensor is placed with the lifetime it was given.                      *)
LEMMA PlacingKeepsUses ==
  ASSUME IInv, UInv, NEW t \in todo, phase = "place", phase' = "place",
         UNCHANGED <<request, index, scanVars, aliasVars, spanVars>>,
         todo' = todo \ {t},
         \A u \in Tensors \ {t} : slot_of'[u] = slot_of[u]
  PROVE  UInv'
<1>1. /\ program' = program /\ ScanComplete' /\ AliasCovers'
      /\ \A u \in Tensors : Spans(u)' = Spans(u)
  BY SameSpans DEF UInv, Spans, aliasVars, spanVars
<1>2. Verified(program) /\ index = program.count /\ t \in Tensors
  BY DEF IInv, TypeOK, Admitted, UInv, ScanOver
<1>3. PlacedWithSpan'
  <2> SUFFICES ASSUME NEW u \in Tensors, Assigned(u)' PROVE Spans(u)
    BY <1>1, <1>2 DEF PlacedWithSpan
  <2>1. CASE u = t
    BY <2>1 DEF UInv, AwaitingPlace
  <2>2. CASE u # t
    BY <2>2 DEF UInv, PlacedWithSpan, Assigned
  <2>3. QED
    BY <2>1, <2>2
<1>4. \A u \in todo' : Spans(u)'
  BY <1>1 DEF UInv, AwaitingPlace, IInv, TypeOK
<1>5. QED
  BY <1>1, <1>2, <1>3, <1>4 DEF UInv, ScanOver, AliasesLater, IntervalsMade, AwaitingPlace

LEMMA PlaceInSlotKeepsUses ==
  ASSUME IInv, UInv, NEW t \in Tensors, NEW s \in DOMAIN slots, PlaceInSlot(t, s)
  PROVE  UInv'
<1>1. slot_of' = [slot_of EXCEPT ![t] = s] /\ slot_of \in [Tensors -> 0 .. Len(slots)]
  BY DEF IInv, TypeOK, PlaceInSlot
<1>2. QED
  BY <1>1, PlacingKeepsUses DEF PlaceInSlot, Next_in_order

LEMMA PlaceInNewSlotKeepsUses ==
  ASSUME IInv, UInv, NEW t \in Tensors, PlaceInNewSlot(t) PROVE UInv'
<1>1. CASE Fail
  BY <1>1, FailKeepsUses
<1>2. CASE ~Fail
  <2>1. /\ slot_of' = [slot_of EXCEPT ![t] = Len(slots) + 1]
        /\ slot_of \in [Tensors -> 0 .. Len(slots)]
    BY <1>2 DEF IInv, TypeOK, PlaceInNewSlot
  <2>2. QED
    BY <1>2, <2>1, PlacingKeepsUses DEF PlaceInNewSlot, Next_in_order
<1>3. QED
  BY <1>1, <1>2

LEMMA EndPlacementKeepsUses == ASSUME UInv, EndPlacement PROVE UInv'
<1>1. ScanComplete' /\ AliasCovers' /\ PlacedWithSpan' /\ program' = program
  BY SameUses DEF EndPlacement, aliasVars, placeVars
<1>2. QED
  BY <1>1 DEF UInv, EndPlacement, ScanOver, AliasesLater, IntervalsMade, AwaitingPlace

-----------------------------------------------------------------------------
LEMMA NextKeepsUses == ASSUME IInv, UInv, [Next]_vars PROVE UInv'
<1>1. CASE UNCHANGED vars
  <2>1. /\ ScanComplete' /\ AliasCovers' /\ PlacedWithSpan' /\ program' = program
        /\ \A t \in Tensors : Spans(t)' = Spans(t) /\ Unplanned(t)' = Unplanned(t)
    BY <1>1, SameUses DEF vars, aliasVars, placeVars
  <2>2. QED
    BY <1>1, <2>1 DEF UInv, vars, aliasVars, ScanOver, AliasesLater, IntervalsMade,
       AwaitingPlace, IInv, TypeOK
<1>2. CASE \E o \in Tensors : BeginAlias(o)
  BY <1>2, ChaseKeepsUses, FailKeepsUses DEF BeginAlias
<1>3. CASE FollowAlias
  BY <1>3, ChaseKeepsUses, FailKeepsUses DEF FollowAlias
<1>4. CASE Next /\ ~FollowAlias /\ ~\E o \in Tensors : BeginAlias(o)
  BY <1>4, EnterKeepsUses, ScanKeepsUses, EndScanKeepsUses, RecordAliasKeepsUses,
     EndAliasesKeepsUses, MakeIntervalKeepsUses, EndIntervalsKeepsUses,
     PlaceInSlotKeepsUses, PlaceInNewSlotKeepsUses, EndPlacementKeepsUses DEF Next
<1>5. QED
  BY <1>1, <1>2, <1>3, <1>4

LEMMA UsesInductive == Spec => [](IInv /\ UInv)
<1>1. IInv /\ UInv /\ [Next]_vars => IInv' /\ UInv'
  BY NextKeeps, NextKeepsUses
<1>2. Init => IInv /\ UInv
  BY InitIInv, UsesStart
<1>3. QED
  BY <1>1, <1>2, PTL DEF Spec

-----------------------------------------------------------------------------
(* What the lifetime computed from the maps of a finished scan covers.     *)
LEMMA LifetimeCovers ==
  ASSUME IInv, UInv, NEW t \in Tensors, Assigned(t)
  PROVE  /\ \A i \in Producers(program, t) :
              intervals[t].first <= i /\ i <= intervals[t].last
         /\ \A i \in Consumers(program, t) :
              /\ intervals[t].first <= i /\ i <= intervals[t].last
              /\ Streamed(t) => intervals[t].first <= Larger(i - request.distance, 0)
         /\ \A o \in Tensors : alias_roots[o] = t =>
              \A i \in Consumers(program, o) : i <= intervals[t].last
         /\ HasRole(program, t, "Output") => intervals[t].last = program.count
<1>1. /\ intervals[t].first = FirstOperation(t) /\ intervals[t].last = LastOperation(t)
      /\ Verified(program) /\ index = program.count
  BY DEF UInv, PlacedWithSpan, Spans
<1>2. /\ program.count \in Nat /\ request.distance \in Nat
      /\ producer[t] \in {Unset} \cup Operations(program)
      /\ first_consumer[t] \in {Unset} \cup Operations(program)
      /\ \A o \in Tensors : last_consumer[o] \in {Unset} \cup Operations(program)
      /\ alias_last_consumer[t] \in {Unset} \cup Operations(program)
  BY DEF IInv, TypeOK, IsRequest, IsProgram, program
<1>3. \A o \in Tensors : Met(o)
  BY <1>1 DEF UInv, ScanComplete
<1>4. FirstOperation(t) <= LastOperation(t)
  BY <1>1, LifetimeOrdered
<1>5. FirstOperation(t) \in 0 .. program.count /\ LastOperation(t) \in 0 .. program.count
  BY <1>1, LifetimeOrdered
<1>6. last_consumer[t] <= LastOperation(t) /\ alias_last_consumer[t] <= LastOperation(t)
  BY <1>2, <1>5 DEF LastOperation, Larger, Operations, Unset
<1>7. ASSUME NEW i \in Producers(program, t) PROVE FirstOperation(t) = i
  <2>1. i \in Operations(program) /\ t \in program.outputs[i] /\ i < index /\ i \in Nat
    BY <1>1, <1>2 DEF Producers, Operations
  <2>2. producer[t] = i
    BY <1>3, <1>7, <2>1 DEF Met
  <2>3. ~HasRole(program, t, "Streamed")
    BY <1>1, <2>1 DEF Verified, Bound
  <2>4. QED
    BY <2>1, <2>2, <2>3 DEF FirstOperation, Unset
<1>8. ASSUME NEW i \in Consumers(program, t)
      PROVE  /\ FirstOperation(t) <= i /\ i <= LastOperation(t)
             /\ Streamed(t) => FirstOperation(t) <= Larger(i - request.distance, 0)
  <2>1. i \in Operations(program) /\ t \in program.inputs[i] /\ i < index /\ i \in Nat
    BY <1>1, <1>2 DEF Consumers, Operations
  <2>2. first_consumer[t] # Unset /\ first_consumer[t] <= i /\ i <= last_consumer[t]
    BY <1>3, <1>8, <2>1 DEF Met
  <2>3. i <= LastOperation(t)
    BY <1>2, <1>5, <1>6, <2>1, <2>2 DEF Operations, Unset
  <2>4. CASE HasRole(program, t, "Streamed")
    <3>1. FirstOperation(t) = Larger(first_consumer[t] - request.distance, 0)
      BY <2>2, <2>4 DEF FirstOperation, StreamedFirst
    <3>2. QED
      BY <1>2, <2>1, <2>2, <2>3, <3>1 DEF Larger, Operations, Unset
  <2>5. CASE ~HasRole(program, t, "Streamed")
    <3>1. FirstOperation(t) <= i
      <4>1. CASE producer[t] = Unset
        BY <2>1, <2>5, <4>1 DEF FirstOperation
      <4>2. CASE producer[t] # Unset
        <5>1. t \in program.outputs[producer[t]] /\ producer[t] \in Operations(program)
          BY <1>2, <4>2 DEF IInv, ScanSound
        <5>2. ~Bound(program, t)
          BY <1>1, <5>1 DEF Verified
        <5>3. PICK j \in Operations(program) : j < i /\ t \in program.outputs[j]
          BY <1>1, <2>1, <5>2 DEF Verified
        <5>4. j = producer[t]
          BY <1>1, <5>1, <5>3 DEF Verified
        <5>5. QED
          BY <2>1, <2>5, <4>2, <5>3, <5>4 DEF FirstOperation, Operations
      <4>3. QED
        BY <4>1, <4>2
    <3>2. QED
      BY <2>3, <2>5, <3>1 DEF Streamed
  <2>6. QED
    BY <2>4, <2>5
<1>9. ASSUME NEW o \in Tensors, alias_roots[o] = t, NEW i \in Consumers(program, o)
      PROVE  i <= LastOperation(t)
  <2>1. i \in Operations(program) /\ i < index /\ i \in Nat
    BY <1>1, <1>2 DEF Consumers, Operations
  <2>2. i <= last_consumer[o]
    BY <1>3, <1>9, <2>1 DEF Met
  <2>3. last_consumer[o] <= alias_last_consumer[t]
    <3>1. t # Unset
      BY TensorsAssumption DEF Unset
    <3>2. QED
      BY <1>9, <3>1 DEF UInv, AliasCovers
  <2>4. QED
    BY <1>2, <1>5, <1>6, <2>1, <2>2, <2>3 DEF Operations, Unset
<1>10. HasRole(program, t, "Output") => LastOperation(t) = program.count
  BY <1>2 DEF LastOperation, Larger, Operations, Unset
<1>11. QED
  <2>1. \A i \in Producers(program, t) :
          intervals[t].first <= i /\ i <= intervals[t].last
    BY <1>1, <1>2, <1>4, <1>5, <1>7 DEF Producers, Operations
  <2>2. QED
    BY <1>1, <1>8, <1>9, <1>10, <2>1

(* plan_memory: a tensor that has a slot keeps it from its producer, or    *)
(* from its earliest prefetch, to its last reader, to the last reader of   *)
(* its aliases and, as an output, to the end.  With SharedSlotsDisjoint:   *)
(* no operation finds a slot taken over.                                   *)
THEOREM LifetimesCoverUses == Spec => []AliveThroughUses
<1>1. IInv /\ UInv => AliveThroughUses
  BY LifetimeCovers DEF AliveThroughUses
<1>2. QED
  BY <1>1, UsesInductive, PTL
-----------------------------------------------------------------------------
(* What the maps hold, in the words of the closed form.                    *)
FirstReads ==
  \A t \in Tensors : first_consumer[t] # Unset => t \in program.inputs[first_consumer[t]]

(* The root search: what is chased has not been recorded, and leads to     *)
(* where the search stands; what is recorded is the end of its chain.      *)
Chasing ==
  phase = "aliases" /\ chase # NoChase =>
    /\ chase.output \in DOMAIN aliases \ todo
    /\ alias_roots[chase.output] = Unset
    /\ Leads(aliases, chase.output, chase.root)

RootsFound ==
  \A o \in Tensors : alias_roots[o] # Unset =>
    /\ o \in DOMAIN aliases
    /\ Terminal(aliases, alias_roots[o])
    /\ Leads(aliases, o, alias_roots[o])

Idle == phase \in {"entry", "scan"} =>
          chase = NoChase /\ \A t \in Tensors : alias_last_consumer[t] = Unset

Resolved ==
  /\ phase = "aliases" =>
       /\ \A o \in todo : alias_roots[o] = Unset
       /\ \A o \in DOMAIN aliases \ todo :
            alias_roots[o] # Unset \/ (chase # NoChase /\ chase.output = o)
  /\ phase \in {"intervals", "place", "planned"} =>
       \A o \in DOMAIN aliases : alias_roots[o] # Unset

(* The last reader a root remembers is that of one of its aliases.         *)
AliasAttained ==
  \A t \in Tensors : alias_last_consumer[t] # Unset =>
    \E o \in Tensors : alias_roots[o] = t /\ alias_last_consumer[t] = last_consumer[o]

AliasesFound == Chasing /\ RootsFound /\ Idle /\ Resolved /\ AliasAttained

(* The lifetime stored for every tensor that needs storage.                *)
LifetimeOf(t) ==
  [first |-> FirstOperation(t), last |-> LastOperation(t), dedicated |-> Dedicated(t)]

LifetimesMade ==
  /\ phase = "intervals" =>
       \A t \in Tensors \ todo : Unplanned(t) \/ intervals[t] = LifetimeOf(t)
  /\ phase \in {"place", "planned"} =>
       \A t \in Tensors : Unplanned(t) \/ intervals[t] = LifetimeOf(t)

(* The best-fit loop: the plan so far is the closed form's after as many   *)
(* placements, and the tensors placed are the first ones in the order.     *)
Awaiting == {t \in Tensors : ~Unplanned(t)}
Placed   == Awaiting \ todo
Current  == [slots |-> slots, until |-> available_after, slot |-> slot_of]

Placing ==
  phase \in {"place", "planned"} =>
    /\ todo \subseteq Awaiting
    /\ \A t \in Tensors : Assigned(t) => t \in Awaiting
    /\ \A u \in Placed, t \in todo : Before(u, t)
    /\ \A g : Table(g, request, Cardinality(Awaiting)) => g[1 .. Cardinality(Placed)] = Current
    /\ phase = "planned" => todo = {}

RInv == phase # "failed" => FirstReads /\ AliasesFound /\ LifetimesMade /\ Placing

-----------------------------------------------------------------------------
(* A finished scan and finished root search give each tensor the lifetime  *)
(* of the closed form.                                                     *)
LEMMA AliasesTyped == ASSUME IInv PROVE IsAliases(aliases)
  BY DEF IInv, TypeOK, IsRequest, IsAliases, aliases

LEMMA RootsKnown ==
  ASSUME IInv, RInv, phase \in {"intervals", "place", "planned"}
  PROVE  /\ \A t \in Tensors :
              Root(aliases, t) = IF t \in DOMAIN aliases THEN alias_roots[t] ELSE t
         /\ \A t \in Tensors : alias_roots[t] # Unset <=> t \in DOMAIN aliases
<1>1. /\ RootsFound /\ \A o \in DOMAIN aliases : alias_roots[o] # Unset
      /\ DOMAIN aliases \subseteq Tensors
  BY AliasesTyped DEF RInv, AliasesFound, Resolved, IsAliases
<1>2. \A t \in Tensors : alias_roots[t] # Unset <=> t \in DOMAIN aliases
  BY <1>1 DEF RootsFound
<1>3. Ends(aliases, alias_roots)
  BY <1>1 DEF Ends, RootsFound
<1>4. QED
  BY <1>2, <1>3, AliasesTyped, RootIs

LEMMA AwaitingIsPlanned ==
  ASSUME IInv, RInv, phase \in {"intervals", "place", "planned"}
  PROVE  Awaiting = Planned(request)
  BY RootsKnown DEF Awaiting, Unplanned, Planned, aliases

(* The scan's maps are first and last positions.                           *)
LEMMA ScanExtremes ==
  ASSUME IInv, UInv, FirstReads, Verified(program), index = program.count, NEW t \in Tensors
  PROVE  /\ Earliest(Consumers(program, t)) = first_consumer[t]
         /\ Latest(Consumers(program, t)) = last_consumer[t]
         /\ Earliest(Producers(program, t)) = producer[t]
<1> DEFINE C == Consumers(program, t)
           P == Producers(program, t)
<1>1. /\ program.count \in Nat
      /\ producer[t] \in {Unset} \cup Operations(program)
      /\ first_consumer[t] \in {Unset} \cup Operations(program)
      /\ last_consumer[t] \in {Unset} \cup Operations(program)
  BY DEF IInv, TypeOK, IsRequest, IsProgram, program
<1>2. /\ producer[t] # Unset => t \in program.outputs[producer[t]]
      /\ last_consumer[t] # Unset => t \in program.inputs[last_consumer[t]]
      /\ first_consumer[t] # Unset => t \in program.inputs[first_consumer[t]]
      /\ first_consumer[t] = Unset <=> last_consumer[t] = Unset
  BY DEF IInv, ScanSound, FirstReads
<1>3. /\ \A i \in P : producer[t] = i
      /\ \A i \in C : first_consumer[t] # Unset /\ first_consumer[t] <= i /\ i <= last_consumer[t]
  <2>1. Met(t)
    BY DEF UInv, ScanComplete
  <2>2. \A i \in P \cup C : i < index
    BY <1>1 DEF Producers, Consumers, Operations
  <2>3. QED
    BY <2>1, <2>2 DEF Met
<1>4. C \subseteq Int /\ P \subseteq Int
  BY <1>1 DEF Consumers, Producers, Operations
<1>5. /\ first_consumer[t] # Unset => first_consumer[t] \in C
      /\ last_consumer[t] # Unset => last_consumer[t] \in C
      /\ producer[t] # Unset => producer[t] \in P
  BY <1>1, <1>2 DEF Consumers, Producers
<1> HIDE DEF C, P
<1>6. ASSUME first_consumer[t] = Unset
      PROVE  Earliest(C) = first_consumer[t] /\ Latest(C) = last_consumer[t]
  <2>1. C = {} /\ last_consumer[t] = Unset
    BY <1>2, <1>3, <1>6
  <2>2. Earliest(C) = first_consumer[t] /\ Latest(C) = last_consumer[t]
    BY <1>6, <2>1 DEF Earliest, Latest, Unset
  <2>3. QED
    BY <2>2
<1>7. ASSUME first_consumer[t] # Unset
      PROVE  Earliest(C) = first_consumer[t] /\ Latest(C) = last_consumer[t]
  <2>1. C # {} /\ first_consumer[t] \in C /\ last_consumer[t] \in C
    BY <1>2, <1>5, <1>7
  <2>2. Min(C) = first_consumer[t] /\ Max(C) = last_consumer[t]
    BY <1>3, <1>4, <2>1, MinIs, MaxIs
  <2>3. Earliest(C) = first_consumer[t] /\ Latest(C) = last_consumer[t]
    BY <2>1, <2>2 DEF Earliest, Latest
  <2>4. QED
    BY <2>3
<1>8. Earliest(P) = producer[t]
  <2>1. CASE producer[t] = Unset
    <3>1. P = {}
      <4>1. \A i \in P : i \in Operations(program) /\ i = Unset
        BY <1>3, <2>1 DEF P, Producers
      <4>2. QED
        BY <1>1, <4>1 DEF Operations, Unset
    <3>2. QED
      BY <2>1, <3>1 DEF Earliest, Unset
  <2>2. CASE producer[t] # Unset
    <3>1. producer[t] \in P /\ \A i \in P : producer[t] <= i
      BY <1>3, <1>4, <1>5, <2>2
    <3>2. Min(P) = producer[t]
      BY <1>4, <3>1, MinIs
    <3>3. QED
      BY <3>1, <3>2 DEF Earliest
  <2>3. QED
    BY <2>1, <2>2
<1>9. QED
  BY <1>6, <1>7, <1>8 DEF C, P

LEMMA OwnLifetime ==
  ASSUME IInv, UInv, FirstReads, Verified(program), index = program.count, NEW t \in Tensors
  PROVE  /\ Lifetime(request, t).first = FirstOperation(t)
         /\ Lifetime(request, t).dedicated = Dedicated(t)
         /\ Lifetime(request, t) =
              [first |-> Lifetime(request, t).first,
               last |-> Max(
                  {IF HasRole(program, t, "Output") THEN program.count
                   ELSE IF last_consumer[t] = Unset THEN FirstOperation(t) ELSE last_consumer[t]}
                  \cup {last_consumer[o] :
                          o \in {o \in DOMAIN aliases : Root(aliases, o) = t}}),
               dedicated |-> Lifetime(request, t).dedicated]
<1> DEFINE reads == Consumers(program, t)
           first == IF HasRole(program, t, "Streamed")
                    THEN Max({0, Earliest(reads) - request.distance})
                    ELSE Max({0, Earliest(Producers(program, t))})
           views == {o \in DOMAIN aliases : Root(aliases, o) = t}
           own == IF HasRole(program, t, "Output") THEN program.count
                  ELSE Max({first, Latest(reads)})
           ended == {Latest(Consumers(program, o)) : o \in views}
<1>1. /\ program.count \in Nat /\ request.distance \in Nat
      /\ producer[t] \in {Unset} \cup Operations(program)
      /\ first_consumer[t] \in {Unset} \cup Operations(program)
      /\ last_consumer[t] \in {Unset} \cup Operations(program)
  BY DEF IInv, TypeOK, IsRequest, IsProgram, program
<1>2. /\ Earliest(Consumers(program, t)) = first_consumer[t]
      /\ Latest(Consumers(program, t)) = last_consumer[t]
      /\ Earliest(Producers(program, t)) = producer[t]
  BY ScanExtremes
<1>3. \A a, b \in Int : Max({a, b}) = Larger(a, b)
  <2> SUFFICES ASSUME NEW a \in Int, NEW b \in Int PROVE Max({a, b}) = Larger(a, b)
    OBVIOUS
  <2>1. /\ {a, b} \subseteq Int /\ Larger(a, b) \in {a, b}
        /\ \A x \in {a, b} : x <= Larger(a, b)
    BY DEF Larger
  <2>2. QED
    BY <2>1, MaxIs
<1>4. first = FirstOperation(t)
  <2>1. CASE HasRole(program, t, "Streamed")
    <3>1. first = Larger(0, first_consumer[t] - request.distance)
      BY <1>1, <1>2, <1>3, <2>1 DEF Operations, Unset
    <3>2. QED
      BY <1>1, <2>1, <3>1 DEF FirstOperation, StreamedFirst, Larger, Operations, Unset
  <2>2. CASE ~HasRole(program, t, "Streamed")
    <3>1. first = Larger(0, producer[t])
      BY <1>1, <1>2, <1>3, <2>2 DEF Operations, Unset
    <3>2. QED
      BY <1>1, <2>2, <3>1 DEF FirstOperation, Larger, Operations, Unset
  <2>3. QED
    BY <2>1, <2>2
<1>5. own = IF HasRole(program, t, "Output") THEN program.count
            ELSE IF last_consumer[t] = Unset THEN FirstOperation(t) ELSE last_consumer[t]
  <2>1. /\ FirstOperation(t) \in 0 .. program.count
        /\ last_consumer[t] # Unset => FirstOperation(t) <= last_consumer[t]
    BY LifetimeOrdered
  <2> HIDE DEF first
  <2>2. Max({first, last_consumer[t]}) = Larger(FirstOperation(t), last_consumer[t])
    BY <1>1, <1>3, <1>4, <2>1 DEF Operations, Unset
  <2>3. QED
    BY <1>1, <1>2, <2>1, <2>2 DEF Larger, Operations, Unset
<1>6. ended = {last_consumer[o] : o \in views}
  <2>1. ASSUME NEW o \in views PROVE Latest(Consumers(program, o)) = last_consumer[o]
    BY AliasesTyped, ScanExtremes DEF IsAliases
  <2> HIDE DEF views
  <2>2. QED
    BY <2>1
<1> DEFINE dedicated == \/ HasRole(program, t, "Input") \/ HasRole(program, t, "Output")
                        \/ HasRole(program, t, "Constant") /\ ~HasRole(program, t, "Streamed")
                        \/ t \in request.persistent
<1>7. Lifetime(request, t) =
        [first |-> first, last |-> Max({own} \cup ended), dedicated |-> dedicated]
  BY DEF Lifetime, program, aliases, Consumers, Producers, HasRole, Operations
<1>8. dedicated = Dedicated(t)
  BY DEF Dedicated
<1> HIDE DEF first, own, ended, dedicated
<1>9. QED
  BY <1>4, <1>5, <1>6, <1>7, <1>8

LEMMA LifetimeAgrees ==
  ASSUME IInv, UInv, RInv, phase \in {"intervals", "place", "planned"}, NEW t \in Tensors
  PROVE  Lifetime(request, t) = LifetimeOf(t)
<1>1. Verified(program) /\ index = program.count /\ FirstReads
  BY DEF IInv, Admitted, UInv, ScanOver, RInv
<1> DEFINE own == IF HasRole(program, t, "Output") THEN program.count
                  ELSE IF last_consumer[t] = Unset THEN FirstOperation(t) ELSE last_consumer[t]
           views == {o \in DOMAIN aliases : Root(aliases, o) = t}
           ends == {own} \cup {last_consumer[o] : o \in views}
<1>2. /\ Lifetime(request, t) =
           [first |-> Lifetime(request, t).first, last |-> Max(ends),
            dedicated |-> Lifetime(request, t).dedicated]
      /\ Lifetime(request, t).first = FirstOperation(t)
      /\ Lifetime(request, t).dedicated = Dedicated(t)
  BY <1>1, OwnLifetime
<1>3. \A o \in Tensors : o \in views <=> alias_roots[o] = t
  <2>1. /\ \A o \in Tensors :
             Root(aliases, o) = IF o \in DOMAIN aliases THEN alias_roots[o] ELSE o
        /\ \A o \in Tensors : alias_roots[o] # Unset <=> o \in DOMAIN aliases
    BY RootsKnown
  <2>2. t # Unset
    BY TensorsAssumption DEF Unset
  <2>3. QED
    BY <2>1, <2>2
<1>4. /\ program.count \in Nat /\ last_consumer \in [Tensors -> {Unset} \cup Operations(program)]
      /\ alias_last_consumer[t] \in {Unset} \cup Operations(program)
  BY DEF IInv, TypeOK, IsRequest, IsProgram, program
<1>5. own \in Nat
  <2>1. FirstOperation(t) \in 0 .. program.count
    BY <1>1, LifetimeOrdered
  <2>2. QED
    BY <1>4, <2>1 DEF Operations, Unset
<1>6. views \subseteq Tensors
  BY AliasesTyped DEF IsAliases
<1>7. \A o \in views : last_consumer[o] <= alias_last_consumer[t]
  <2>1. t # Unset
    BY TensorsAssumption DEF Unset
  <2>2. QED
    BY <1>3, <1>6, <2>1 DEF UInv, AliasCovers
<1>8. alias_last_consumer[t] # Unset => \E o \in views : alias_last_consumer[t] = last_consumer[o]
  BY <1>3 DEF RInv, AliasesFound, AliasAttained
<1>9. LastOperation(t) = Larger(own, alias_last_consumer[t])
  BY DEF LastOperation
<1> HIDE DEF own, views
<1>10. Max(ends) = LastOperation(t)
  <2>1. ends \subseteq Int
    BY <1>4, <1>5, <1>6 DEF Operations, Unset
  <2>2. LastOperation(t) \in ends
    BY <1>4, <1>5, <1>8, <1>9 DEF Larger, Operations, Unset
  <2>3. \A x \in ends : x <= LastOperation(t)
    <3> SUFFICES ASSUME NEW x \in ends PROVE x <= LastOperation(t)
      OBVIOUS
    <3>1. x = own \/ \E o \in views : x = last_consumer[o]
      OBVIOUS
    <3>2. x = own \/ x <= alias_last_consumer[t]
      BY <1>7, <3>1
    <3>3. QED
      BY <1>4, <1>5, <1>9, <2>1, <3>2 DEF Larger, Operations, Unset
  <2> HIDE DEF ends
  <2>4. QED
    BY <2>1, <2>2, <2>3, MaxIs
<1>11. QED
  BY <1>2, <1>10 DEF LifetimeOf

-----------------------------------------------------------------------------
(* Steps before the best-fit loop.                                         *)
LEMMA SameMaps ==
  ASSUME UNCHANGED <<request, scanVars, alias_roots, alias_last_consumer>>
  PROVE  /\ FirstReads => FirstReads'
         /\ RootsFound => RootsFound'
         /\ AliasAttained => AliasAttained'
         /\ program' = program /\ aliases' = aliases
         /\ \A t \in Tensors : LifetimeOf(t)' = LifetimeOf(t) /\ Unplanned(t)' = Unplanned(t)
         /\ Awaiting' = Awaiting
<1>1. program' = program /\ aliases' = aliases
  BY DEF program, aliases
<1>2. /\ FirstReads => FirstReads'
      /\ RootsFound => RootsFound'
      /\ AliasAttained => AliasAttained'
  BY <1>1 DEF FirstReads, RootsFound, AliasAttained, scanVars
<1>3. ASSUME NEW t \in Tensors
      PROVE  LifetimeOf(t)' = LifetimeOf(t) /\ Unplanned(t)' = Unplanned(t)
  <2>1. FirstOperation(t)' = FirstOperation(t)
    BY <1>1 DEF FirstOperation, StreamedFirst, scanVars
  <2>2. LastOperation(t)' = LastOperation(t)
    BY <1>1, <2>1 DEF LastOperation, scanVars
  <2>3. Dedicated(t)' = Dedicated(t)
    BY <1>1 DEF Dedicated
  <2>4. QED
    BY <2>1, <2>2, <2>3 DEF LifetimeOf, Unplanned
<1>4. Awaiting' = Awaiting
  BY <1>3 DEF Awaiting
<1>5. QED
  BY <1>1, <1>2, <1>3, <1>4

LEMMA ReferenceStart == Init => RInv
  BY DEF Init, RInv, FirstReads, AliasesFound, Chasing, RootsFound, Idle, Resolved,
     AliasAttained, LifetimesMade, Placing

LEMMA FailKeepsReference == ASSUME Fail PROVE RInv'
  BY DEF Fail, RInv

LEMMA EnterKeepsReference == ASSUME RInv, Enter PROVE RInv'
<1>1. CASE ~Fail
  <2>1. /\ phase' = "scan" /\ phase = "entry"
        /\ UNCHANGED <<request, index, todo, scanVars, aliasVars, spanVars, placeVars>>
    BY <1>1 DEF Enter
  <2>2. FirstReads' /\ RootsFound' /\ AliasAttained'
    BY <2>1, SameMaps DEF RInv, AliasesFound, aliasVars
  <2>3. QED
    BY <2>1, <2>2 DEF RInv, AliasesFound, Chasing, Idle, Resolved, LifetimesMade, Placing,
       aliasVars
<1>2. QED
  BY <1>1, FailKeepsReference

LEMMA ScanKeepsReference == ASSUME IInv, UInv, RInv, Scan PROVE RInv'
<1>1. /\ phase = "scan" /\ phase' = "scan" /\ program' = program
      /\ UNCHANGED aliasVars
      /\ first_consumer' = [t \in Tensors |->
           IF t \in program.inputs[index] /\ first_consumer[t] = Unset
           THEN index ELSE first_consumer[t]]
  BY DEF Scan, program
<1>2. FirstReads'
  BY <1>1 DEF RInv, FirstReads
<1>3. \A o \in Tensors : alias_roots[o] = Unset /\ alias_last_consumer[o] = Unset
  BY <1>1 DEF UInv, AliasesLater, RInv, AliasesFound, Idle
<1>4. AliasesFound'
  BY <1>1, <1>3 DEF RInv, AliasesFound, Chasing, RootsFound, Idle, Resolved, AliasAttained,
     aliasVars
<1>5. QED
  BY <1>1, <1>2, <1>4 DEF RInv, LifetimesMade, Placing

LEMMA EndScanKeepsReference == ASSUME IInv, UInv, RInv, EndScan PROVE RInv'
<1>1. /\ phase = "scan" /\ phase' = "aliases" /\ todo' = DOMAIN aliases /\ chase = NoChase
      /\ UNCHANGED <<request, scanVars, aliasVars>>
      /\ \A o \in Tensors : alias_roots[o] = Unset
  BY DEF EndScan, RInv, AliasesFound, Idle, UInv, AliasesLater
<1>2. FirstReads' /\ RootsFound' /\ AliasAttained' /\ aliases' = aliases
  BY <1>1, SameMaps DEF RInv, AliasesFound, aliasVars
<1>3. (\A o \in todo : alias_roots[o] = Unset)'
  BY <1>1, AliasesTyped DEF IsAliases, aliasVars
<1>4. QED
  BY <1>1, <1>2, <1>3 DEF RInv, AliasesFound, Chasing, Idle, Resolved, LifetimesMade, Placing,
     aliasVars

LEMMA BeginAliasKeepsReference ==
  ASSUME IInv, RInv, NEW o \in Tensors, BeginAlias(o) PROVE RInv'
<1>1. CASE ~Fail
  <2>1. /\ chase' = [output |-> o, root |-> aliases[o], seen |-> {o}]
        /\ chase = NoChase /\ o \in todo /\ todo' = todo \ {o}
        /\ UNCHANGED <<request, phase, scanVars, alias_roots, alias_last_consumer>>
        /\ phase = "aliases"
    BY <1>1 DEF BeginAlias
  <2>2. FirstReads' /\ RootsFound' /\ AliasAttained' /\ aliases' = aliases
    BY <2>1, SameMaps DEF RInv, AliasesFound
  <2>3. o \in DOMAIN aliases /\ alias_roots[o] = Unset
    BY <2>1 DEF IInv, AliasesPending, RInv, AliasesFound, Resolved
  <2>4. Leads(aliases, o, aliases[o])
    BY <2>3, LeadsToNext DEF Leads
  <2>5. Chasing'
    BY <2>1, <2>2, <2>3, <2>4 DEF Chasing
  <2>6. chase' # NoChase
    BY <2>1, TensorsAssumption DEF NoChase, Unset
  <2>7. Resolved'
    BY <2>1, <2>2, <2>6 DEF RInv, AliasesFound, Resolved
  <2>8. QED
    BY <2>1, <2>2, <2>5, <2>7 DEF RInv, AliasesFound, Idle, LifetimesMade, Placing
<1>2. QED
  BY <1>1, FailKeepsReference

LEMMA FollowAliasKeepsReference == ASSUME IInv, RInv, FollowAlias PROVE RInv'
<1>1. CASE ~Fail
  <2>1. /\ chase' = [chase EXCEPT !.root = aliases[chase.root], !.seen = @ \cup {chase.root}]
        /\ chase # NoChase /\ chase.root \in DOMAIN aliases
        /\ UNCHANGED <<request, phase, todo, scanVars, alias_roots, alias_last_consumer>>
        /\ phase = "aliases"
    BY <1>1 DEF FollowAlias
  <2>2. FirstReads' /\ RootsFound' /\ AliasAttained' /\ aliases' = aliases
    BY <2>1, SameMaps DEF RInv, AliasesFound
  <2>3. /\ chase.output \in Tensors
        /\ chase'.output = chase.output /\ chase'.root = aliases[chase.root]
    BY <2>1 DEF IInv, TypeOK, ChaseOK
  <2>4. Leads(aliases, chase.output, aliases[chase.root])
    BY <2>1, LeadsToNext DEF RInv, AliasesFound, Chasing
  <2>5. Chasing'
    BY <2>1, <2>2, <2>3, <2>4 DEF RInv, AliasesFound, Chasing
  <2>6. chase' # NoChase
    BY <2>3, TensorsAssumption DEF NoChase, Unset
  <2>7. Resolved'
    BY <2>1, <2>2, <2>3, <2>6 DEF RInv, AliasesFound, Resolved
  <2>8. QED
    BY <2>1, <2>2, <2>5, <2>7 DEF RInv, AliasesFound, Idle, LifetimesMade, Placing
<1>2. QED
  BY <1>1, FailKeepsReference

LEMMA RecordAliasKeepsReference == ASSUME IInv, RInv, RecordAlias PROVE RInv'
<1>1. /\ phase = "aliases" /\ phase' = "aliases" /\ chase' = NoChase /\ chase # NoChase
      /\ UNCHANGED <<request, todo, scanVars>> /\ program' = program /\ aliases' = aliases
      /\ alias_roots' = [alias_roots EXCEPT ![chase.output] = chase.root]
      /\ alias_last_consumer' = [alias_last_consumer EXCEPT
           ![chase.root] = Larger(@, last_consumer[chase.output])]
  BY DEF RecordAlias, program, aliases
<1>2. /\ chase.output \in Tensors /\ Terminal(aliases, chase.root)
      /\ chase.output \in DOMAIN aliases \ todo /\ alias_roots[chase.output] = Unset
      /\ Leads(aliases, chase.output, chase.root)
  BY <1>1 DEF IInv, ChaseOK, Terminal, RecordAlias, RInv, AliasesFound, Chasing
<1>3. /\ \A o \in Tensors :
           alias_roots'[o] = IF o = chase.output THEN chase.root ELSE alias_roots[o]
      /\ \A t \in Tensors :
           alias_last_consumer'[t] =
             IF t = chase.root THEN Larger(alias_last_consumer[t], last_consumer[chase.output])
             ELSE alias_last_consumer[t]
  BY <1>1, <1>2 DEF IInv, TypeOK
<1>4. chase.root \in Tensors /\ chase.root # Unset
  BY <1>2, TensorsAssumption DEF Terminal, Unset
<1>5. RootsFound'
  BY <1>1, <1>2, <1>3 DEF RInv, AliasesFound, RootsFound
<1>6. Resolved'
  <2>1. DOMAIN aliases \subseteq Tensors /\ todo \subseteq Tensors
    BY AliasesTyped DEF IsAliases, IInv, TypeOK
  <2>2. ASSUME NEW o \in todo PROVE alias_roots'[o] = Unset
    BY <1>1, <1>2, <1>3, <2>1 DEF RInv, AliasesFound, Resolved
  <2>3. ASSUME NEW o \in DOMAIN aliases \ todo PROVE alias_roots'[o] # Unset
    BY <1>1, <1>2, <1>3, <1>4, <2>1 DEF RInv, AliasesFound, Resolved
  <2>4. QED
    BY <1>1, <2>2, <2>3 DEF Resolved
<1>7. AliasAttained'
  <2> SUFFICES ASSUME NEW t \in Tensors, alias_last_consumer'[t] # Unset
      PROVE  \E o \in Tensors : /\ alias_roots'[o] = t
                                /\ alias_last_consumer'[t] = last_consumer[o]
    BY <1>1 DEF AliasAttained, scanVars
  <2>1. CASE t = chase.root /\ alias_last_consumer'[t] = last_consumer[chase.output]
    BY <1>2, <1>3, <2>1
  <2>2. CASE alias_last_consumer'[t] = alias_last_consumer[t]
    <3>1. PICK o \in Tensors : /\ alias_roots[o] = t
                               /\ alias_last_consumer[t] = last_consumer[o]
      BY <1>1, <2>2 DEF RInv, AliasesFound, AliasAttained
    <3>2. t # Unset
      BY TensorsAssumption DEF Unset
    <3>3. alias_roots'[o] = t
      BY <1>2, <1>3, <3>1, <3>2
    <3>4. QED
      BY <2>2, <3>1, <3>3
  <2>3. QED
    BY <1>3, <2>1, <2>2 DEF Larger
<1>8. FirstReads'
  BY <1>1 DEF RInv, FirstReads, scanVars
<1>9. QED
  BY <1>1, <1>5, <1>6, <1>7, <1>8 DEF RInv, AliasesFound, Chasing, Idle, LifetimesMade, Placing

LEMMA EndAliasesKeepsReference == ASSUME RInv, EndAliases PROVE RInv'
<1>1. /\ phase = "aliases" /\ phase' = "intervals" /\ chase = NoChase /\ todo = {}
      /\ todo' = Tensors /\ UNCHANGED <<request, scanVars, aliasVars>>
  BY DEF EndAliases
<1>2. FirstReads' /\ RootsFound' /\ AliasAttained' /\ aliases' = aliases
  BY <1>1, SameMaps DEF RInv, AliasesFound, aliasVars
<1>3. Resolved'
  BY <1>1, <1>2 DEF RInv, AliasesFound, Resolved, aliasVars
<1>4. QED
  BY <1>1, <1>2, <1>3 DEF RInv, AliasesFound, Chasing, Idle, LifetimesMade, Placing

-----------------------------------------------------------------------------
(* The interval loop.                                                      *)
LEMMA MakeIntervalKeepsReference ==
  ASSUME IInv, RInv, NEW t \in Tensors, MakeInterval(t) PROVE RInv'
<1>1. CASE ~Fail
  <2>1. /\ phase = "intervals" /\ phase' = "intervals" /\ t \in todo /\ todo' = todo \ {t}
        /\ UNCHANGED <<request, scanVars, aliasVars>>
        /\ \/ Unplanned(t) /\ UNCHANGED spanVars
           \/ intervals' = [intervals EXCEPT ![t] = LifetimeOf(t)]
    BY <1>1 DEF MakeInterval, LifetimeOf
  <2>2. /\ FirstReads' /\ RootsFound' /\ AliasAttained' /\ aliases' = aliases
        /\ \A u \in Tensors : LifetimeOf(u)' = LifetimeOf(u) /\ Unplanned(u)' = Unplanned(u)
    BY <2>1, SameMaps DEF RInv, AliasesFound, aliasVars
  <2>3. AliasesFound'
    BY <2>1, <2>2 DEF RInv, AliasesFound, Chasing, Idle, Resolved, aliasVars
  <2>4. ASSUME NEW u \in Tensors \ todo'
        PROVE  Unplanned(u) \/ intervals'[u] = LifetimeOf(u)
    <3>1. CASE u = t
      BY <2>1, <3>1 DEF IInv, TypeOK
    <3>2. CASE u # t
      <4>1. Unplanned(u) \/ intervals[u] = LifetimeOf(u)
        BY <2>1, <3>2 DEF RInv, LifetimesMade
      <4>2. intervals'[u] = intervals[u]
        BY <2>1, <3>2 DEF spanVars, IInv, TypeOK
      <4>3. QED
        BY <4>1, <4>2
    <3>3. QED
      BY <3>1, <3>2
  <2>5. LifetimesMade'
    BY <2>1, <2>2, <2>4 DEF LifetimesMade
  <2>6. QED
    BY <2>1, <2>2, <2>3, <2>5 DEF RInv, Placing
<1>2. QED
  BY <1>1, FailKeepsReference

(* Before the first placement the plan is the one the closed form starts   *)
(* from.                                                                   *)
LEMMA EndIntervalsKeepsReference ==
  ASSUME IInv, UInv, RInv, EndIntervals PROVE RInv'
<1>1. /\ phase = "intervals" /\ phase' = "place" /\ todo = {} /\ todo' = Awaiting
      /\ UNCHANGED <<request, index, scanVars, aliasVars, spanVars, placeVars>>
  BY DEF EndIntervals, Awaiting
<1>2. /\ FirstReads' /\ RootsFound' /\ AliasAttained' /\ aliases' = aliases
      /\ \A u \in Tensors : LifetimeOf(u)' = LifetimeOf(u) /\ Unplanned(u)' = Unplanned(u)
      /\ Awaiting' = Awaiting
  BY <1>1, SameMaps DEF RInv, AliasesFound, aliasVars
<1>3. AliasesFound'
  BY <1>1, <1>2 DEF RInv, AliasesFound, Chasing, Idle, Resolved, aliasVars
<1>4. LifetimesMade'
  BY <1>1, <1>2 DEF RInv, LifetimesMade, spanVars
<1>5. Placed' = {}
  BY <1>1, <1>2 DEF Placed
<1>6. Current' = Nothing
  <2>1. slots = <<>> /\ Len(available_after) = 0 /\ available_after \in Seq(0 .. MaxU64)
    BY <1>1 DEF IInv, TypeOK, BeforePlacement
  <2>2. available_after = <<>>
    BY <2>1
  <2>3. slot_of = [t \in Tensors |-> 0]
    BY <1>1, NoneAssigned DEF IInv, TypeOK, BeforePlacement, Assigned
  <2>4. QED
    BY <1>1, <2>1, <2>2, <2>3 DEF Current, Nothing, placeVars
<1>7. Cardinality(Awaiting) \in Nat /\ Cardinality({}) = 0
  <2>1. IsFiniteSet(Awaiting)
    BY FS_Subset, TensorsAssumption DEF Awaiting
  <2>2. QED
    BY <2>1, FS_CardinalityType, FS_EmptySet
<1>8. ASSUME NEW g, Table(g, request, Cardinality(Awaiting))
      PROVE  g[1 .. Cardinality(Placed')] = Current'
  BY <1>5, <1>6, <1>7, <1>8, TableSteps
<1>9. \A t \in Tensors : ~Assigned(t)'
  BY <1>1, NoneAssigned DEF IInv, BeforePlacement, Assigned, placeVars
<1>10. Placing'
  BY <1>1, <1>2, <1>5, <1>8, <1>9 DEF Placing
<1>11. QED
  BY <1>2, <1>3, <1>4, <1>10 DEF RInv

-----------------------------------------------------------------------------
(* The best-fit loop takes the tensors in the order of the closed form.    *)
LEMMA BeforeOneWay ==
  ASSUME IInv, NEW t \in Tensors, NEW u \in Tensors, Before(t, u) PROVE ~Before(u, t)
<1>1. /\ intervals[t].first \in Nat /\ intervals[u].first \in Nat
      /\ intervals[t].dedicated \in BOOLEAN /\ intervals[u].dedicated \in BOOLEAN
      /\ t \in Nat /\ u \in Nat
  <2>1. program.count \in Nat
    BY DEF IInv, TypeOK, IsRequest, IsProgram, program
  <2>2. QED
    BY <2>1, TensorsAssumption DEF IInv, TypeOK
<1>2. CASE intervals[t].dedicated # intervals[u].dedicated
  BY <1>1, <1>2 DEF Before
<1>3. CASE intervals[t].dedicated = intervals[u].dedicated
  BY <1>1, <1>3 DEF Before
<1>4. QED
  BY <1>2, <1>3

LEMMA NextInQueue ==
  ASSUME IInv, UInv, RInv, phase = "place", NEW t \in Tensors, Next_in_order(t)
  PROVE  /\ Cardinality(Placed) \in 0 .. Cardinality(Awaiting) - 1
         /\ Cardinality(Awaiting) \in Nat
         /\ Queue(request)[Cardinality(Placed) + 1] = t
         /\ Lives(request)[t] = intervals[t]
         /\ Rounded(request, t) = StorageBytes(t)
         /\ Cardinality(Placed \cup {t}) = Cardinality(Placed) + 1
<1> DEFINE life == Lives(request)
           E(u) == {v \in Awaiting \ {u} : Before(v, u)}
           k == Cardinality(Placed)
<1>1. /\ todo \subseteq Awaiting /\ t \in todo /\ Placed \subseteq Awaiting
      /\ Placed \cap todo = {} /\ Awaiting \subseteq Tensors /\ Awaiting = Placed \cup todo
      /\ \A u \in todo \ {t} : Before(t, u)
      /\ \A u \in Placed, v \in todo : Before(u, v)
  BY DEF RInv, Placing, Next_in_order, Placed, Awaiting
<1>2. Awaiting = Planned(request)
  BY AwaitingIsPlanned
<1>3. \A u \in Awaiting : life[u] = intervals[u]
  <2> SUFFICES ASSUME NEW u \in Awaiting PROVE Lifetime(request, u) = intervals[u]
    BY <1>2 DEF Lives
  <2>1. u \in Tensors /\ intervals[u] = LifetimeOf(u)
    BY DEF RInv, LifetimesMade, Awaiting
  <2>2. QED
    BY <2>1, LifetimeAgrees
<1>4. DOMAIN life = Awaiting
  BY <1>2 DEF Lives
<1>5. \A S \in SUBSET Awaiting : IsFiniteSet(S) /\ Cardinality(S) \in Nat
  <2>1. IsFiniteSet(Awaiting)
    BY <1>1, FS_Subset, TensorsAssumption
  <2>2. QED
    BY <2>1, FS_Subset, FS_CardinalityType
<1> HIDE DEF life
<1>6. \A u \in Awaiting : E(u) = {v \in Awaiting \ {u} : PlacedBefore(life[v], life[u], v, u)}
  BY <1>3 DEF Before, PlacedBefore
<1>7. Cardinality(Placed \cup {t}) = k + 1
  BY <1>1, <1>5, FS_AddElement
<1>8. Cardinality(E(t)) = k
  <2>1. E(t) = Placed
    BY <1>1, BeforeOneWay
  <2>2. QED
    BY <2>1
<1>9. ASSUME NEW u \in Awaiting, u # t PROVE Cardinality(E(u)) # k
  <2>1. CASE u \in Placed
    <3>1. E(u) \subseteq Placed \ {u}
      BY <1>1, <2>1, BeforeOneWay
    <3>2. Cardinality(Placed \ {u}) = k - 1
      BY <1>1, <1>5, <2>1, FS_RemoveElement
    <3>3. Cardinality(E(u)) <= Cardinality(Placed \ {u})
      <4>1. Placed \ {u} \in SUBSET Awaiting
        BY <1>1
      <4> HIDE DEF E
      <4>2. QED
        BY <1>5, <3>1, <4>1, FS_Subset
    <3>4. QED
      <4>1. E(u) \in SUBSET Awaiting /\ Placed \in SUBSET Awaiting
        BY <1>1
      <4>2. Cardinality(E(u)) \in Nat /\ k \in Nat
        BY <1>5, <4>1
      <4> HIDE DEF E, k
      <4>3. QED
        BY <3>2, <3>3, <4>2
  <2>2. CASE u \in todo
    <3>1. Placed \cup {t} \subseteq E(u)
      BY <1>1, <1>9, <2>2
    <3>2. Cardinality(Placed \cup {t}) <= Cardinality(E(u))
      <4>1. E(u) \in SUBSET Awaiting
        OBVIOUS
      <4> HIDE DEF E
      <4>2. QED
        BY <1>5, <3>1, <4>1, FS_Subset
    <3>3. QED
      <4>1. E(u) \in SUBSET Awaiting /\ Placed \in SUBSET Awaiting
        BY <1>1
      <4>2. Cardinality(E(u)) \in Nat /\ k \in Nat
        BY <1>5, <4>1
      <4> HIDE DEF E, k
      <4>3. QED
        BY <1>7, <3>2, <4>2
  <2>3. QED
    BY <1>1, <2>1, <2>2
<1>10. k \in 0 .. Cardinality(Awaiting) - 1 /\ Cardinality(Awaiting) \in Nat
  <2>1. Placed \cup {t} \subseteq Awaiting /\ Awaiting \in SUBSET Awaiting /\ Placed \in SUBSET Awaiting
    BY <1>1
  <2>2. Cardinality(Placed \cup {t}) <= Cardinality(Awaiting)
    BY <1>5, <2>1, FS_Subset
  <2>3. QED
    BY <1>5, <1>7, <2>1, <2>2
<1>11. Queue(request)[k + 1] = t
  <2>1. k + 1 \in 1 .. Cardinality(Awaiting) /\ (k + 1) - 1 = k
    BY <1>10
  <2>2. Queue(request)[k + 1] =
          CHOOSE u \in Awaiting :
            Cardinality({v \in Awaiting \ {u} : PlacedBefore(life[v], life[u], v, u)})
              = (k + 1) - 1
    <3> HIDE DEF k
    <3>1. QED
      BY <1>4, <2>1 DEF Queue, life, Ordered, Cardinality
  <2>3. t \in Awaiting
    BY <1>1
  <2>4. \A u \in Awaiting :
          Cardinality({v \in Awaiting \ {u} : PlacedBefore(life[v], life[u], v, u)})
              = (k + 1) - 1  <=> u = t
    <3>1. \A u \in Awaiting : Cardinality(E(u)) = k <=> u = t
      BY <1>8, <1>9
    <3>2. QED
      BY <1>6, <2>1, <3>1
  <2>5. QED
    BY <2>2, <2>3, <2>4
<1>12. Rounded(request, t) = StorageBytes(t)
  BY DEF Rounded, StorageBytes, AlignUp, program
<1>13. Lives(request)[t] = intervals[t]
  BY <1>1, <1>3 DEF life
<1>14. QED
  BY <1>7, <1>10, <1>11, <1>12, <1>13

(* A placement is the next entry of the table of the closed form.          *)
LEMMA PlacementFollows ==
  ASSUME IInv, UInv, RInv, phase = "place", phase' = "place", NEW t \in Tensors,
         Next_in_order(t), todo' = todo \ {t},
         UNCHANGED <<request, index, scanVars, aliasVars, spanVars>>,
         \A u \in Tensors \ {t} : slot_of'[u] = slot_of[u],
         PlaceNext(Current, t, intervals[t], StorageBytes(t)) = Current'
  PROVE  RInv'
<1>1. /\ FirstReads' /\ RootsFound' /\ AliasAttained' /\ aliases' = aliases
      /\ \A u \in Tensors : LifetimeOf(u)' = LifetimeOf(u) /\ Unplanned(u)' = Unplanned(u)
      /\ Awaiting' = Awaiting
  BY SameMaps DEF RInv, AliasesFound, aliasVars
<1>2. AliasesFound'
  BY <1>1 DEF RInv, AliasesFound, Chasing, Idle, Resolved, aliasVars
<1>3. LifetimesMade'
  BY <1>1 DEF RInv, LifetimesMade, spanVars
<1>4. /\ todo \subseteq Awaiting /\ t \in todo
      /\ \A u \in Tensors : Assigned(u) => u \in Awaiting
      /\ \A u \in todo \ {t} : Before(t, u)
      /\ \A u \in Placed, v \in todo : Before(u, v)
      /\ \A g : Table(g, request, Cardinality(Awaiting)) => g[1 .. Cardinality(Placed)] = Current
  BY DEF RInv, Placing, Next_in_order
<1>5. Placed' = Placed \cup {t}
  BY <1>1, <1>4 DEF Placed
<1>6. \A u, v : Before(u, v)' = Before(u, v)
  BY DEF Before, spanVars
<1>7. \A u \in Placed', v \in todo' : Before(u, v)
  BY <1>4, <1>5
<1>8. ASSUME NEW g, Table(g, request, Cardinality(Awaiting))
      PROVE  g[1 .. Cardinality(Placed')] = Current'
  <2> DEFINE k == Cardinality(Placed)
             n == Cardinality(Awaiting)
  <2>1. /\ k \in 0 .. n - 1 /\ n \in Nat /\ Queue(request)[k + 1] = t
        /\ Lives(request)[t] = intervals[t]
        /\ Rounded(request, t) = StorageBytes(t)
        /\ Cardinality(Placed') = k + 1
    BY <1>5, NextInQueue
  <2>2. g[1 .. k] = Current
    BY <1>4, <1>8
  <2> HIDE DEF k, n
  <2>3. Steps(g, request, n)
    BY <1>8, <2>1, TableSteps DEF n
  <2>4. g[1 .. k + 1] = Step(request, k + 1, g[1 .. k])
    BY <2>1, <2>3 DEF Steps
  <2>5. QED
    BY <2>1, <2>2, <2>4 DEF Step
<1>9. \A u \in Tensors : Assigned(u)' => u \in Awaiting
  BY <1>4 DEF Assigned
<1>10. Placing'
  BY <1>1, <1>4, <1>6, <1>7, <1>8, <1>9 DEF Placing
<1>11. QED
  BY <1>1, <1>2, <1>3, <1>10 DEF RInv

LEMMA PlaceInSlotKeepsReference ==
  ASSUME IInv, UInv, RInv, NEW t \in Tensors, NEW s \in DOMAIN slots, PlaceInSlot(t, s)
  PROVE  RInv'
<1> DEFINE free == {c \in DOMAIN slots : /\ ~intervals[t].dedicated
                                         /\ available_after[c] < intervals[t].first
                                         /\ slots[c] >= StorageBytes(t)
                                         /\ slots[c] < MaxU64}
           best == CHOOSE b \in free : \A c \in free :
                     slots[b] < slots[c] \/ (slots[b] = slots[c] /\ b <= c)
<1>1. /\ free = Reusable(t) /\ s \in free
      /\ \A c \in free : slots[s] < slots[c] \/ (slots[s] = slots[c] /\ s <= c)
  BY DEF PlaceInSlot, BestFit, Reusable
<1>2. ~intervals[t].dedicated
  BY <1>1
<1>3. \A c \in free : c \in Nat /\ slots[c] \in Nat
  <2>1. slots \in Seq(0 .. MaxU64) /\ MaxU64 \in Nat
    BY MaxU64Assumption DEF IInv, TypeOK
  <2>2. \A c \in DOMAIN slots : c \in 1 .. Len(slots) /\ slots[c] \in 0 .. MaxU64
    BY <2>1, ElementOfSeq
  <2>3. QED
    BY <2>1, <2>2
<1> HIDE DEF free
<1>4. best = s
  <2>1. \A b \in free :
          (\A c \in free : slots[b] < slots[c] \/ (slots[b] = slots[c] /\ b <= c)) <=> b = s
    BY <1>1, <1>3
  <2>2. QED
    BY <1>1, <2>1
<1>5. PlaceNext(Current, t, intervals[t], StorageBytes(t)) =
        [slots |-> slots, until |-> [available_after EXCEPT ![best] = intervals[t].last],
         slot  |-> [slot_of EXCEPT ![t] = best]]
  <2>1. free # {}
    BY <1>1
  <2>2. QED
    BY <1>2, <2>1 DEF Current, PlaceNext, free
<1>6. Current' = [slots |-> slots, until |-> [available_after EXCEPT ![s] = intervals[t].last],
                  slot  |-> [slot_of EXCEPT ![t] = s]]
  BY DEF Current, PlaceInSlot
<1> HIDE DEF best
<1>7. PlaceNext(Current, t, intervals[t], StorageBytes(t)) = Current'
  BY <1>4, <1>5, <1>6
<1>8. /\ phase = "place" /\ phase' = "place" /\ Next_in_order(t) /\ todo' = todo \ {t}
      /\ UNCHANGED <<request, index, scanVars, aliasVars, spanVars>>
      /\ \A u \in Tensors \ {t} : slot_of'[u] = slot_of[u]
  BY DEF PlaceInSlot, IInv, TypeOK
<1>9. QED
  BY <1>7, <1>8, PlacementFollows

LEMMA PlaceInNewSlotKeepsReference ==
  ASSUME IInv, UInv, RInv, NEW t \in Tensors, PlaceInNewSlot(t)
  PROVE  RInv'
<1>1. CASE ~Fail
  <2>1. /\ phase = "place" /\ phase' = "place" /\ Next_in_order(t) /\ todo' = todo \ {t}
        /\ UNCHANGED <<request, index, scanVars, aliasVars, spanVars>>
        /\ Reusable(t) = {}
        /\ slots' = Append(slots, StorageBytes(t))
        /\ available_after' = Append(available_after,
             IF intervals[t].dedicated THEN MaxU64 ELSE intervals[t].last)
        /\ slot_of' = [slot_of EXCEPT ![t] = Len(slots) + 1]
        /\ \A u \in Tensors \ {t} : slot_of'[u] = slot_of[u]
    BY <1>1 DEF PlaceInNewSlot, IInv, TypeOK
  <2> DEFINE free == {c \in DOMAIN slots : /\ ~intervals[t].dedicated
                                           /\ available_after[c] < intervals[t].first
                                           /\ slots[c] >= StorageBytes(t)
                                           /\ slots[c] < MaxU64}
  <2>2. free = {}
    BY <2>1 DEF Reusable
  <2> HIDE DEF free
  <2>3. PlaceNext(Current, t, intervals[t], StorageBytes(t)) =
          [slots |-> Append(slots, StorageBytes(t)),
           until |-> Append(available_after,
                       IF intervals[t].dedicated THEN MaxU64 ELSE intervals[t].last),
           slot  |-> [slot_of EXCEPT ![t] = Len(slots) + 1]]
    BY <2>2 DEF Current, PlaceNext, free
  <2>4. PlaceNext(Current, t, intervals[t], StorageBytes(t)) = Current'
    BY <2>1, <2>3 DEF Current
  <2>5. QED
    BY <2>1, <2>4, PlacementFollows
<1>2. QED
  BY <1>1, FailKeepsReference

LEMMA StillReference ==
  ASSUME RInv, UNCHANGED <<request, index, todo, scanVars, aliasVars, spanVars, placeVars>>,
         phase' = phase \/ EndPlacement
  PROVE  RInv'
<1>1. /\ FirstReads => FirstReads'
      /\ RootsFound => RootsFound'
      /\ AliasAttained => AliasAttained'
      /\ aliases' = aliases
      /\ \A u \in Tensors : LifetimeOf(u)' = LifetimeOf(u) /\ Unplanned(u)' = Unplanned(u)
      /\ Awaiting' = Awaiting
  BY SameMaps DEF aliasVars
<1>2. /\ Placed' = Placed /\ Current' = Current
      /\ \A t \in Tensors : Assigned(t)' = Assigned(t)
      /\ \A u, v : Before(u, v)' = Before(u, v)
  BY <1>1 DEF Placed, Current, Assigned, Before, spanVars, placeVars
<1> SUFFICES ASSUME phase' # "failed" PROVE RInv'
  BY DEF RInv
<1>3. /\ phase # "failed" /\ FirstReads /\ AliasesFound /\ LifetimesMade /\ Placing
      /\ phase' = phase \/ (phase = "place" /\ phase' = "planned" /\ todo = {})
  BY DEF RInv, EndPlacement
<1>4. AliasesFound'
  BY <1>1, <1>3 DEF AliasesFound, Chasing, Idle, Resolved, aliasVars
<1>5. LifetimesMade'
  BY <1>1, <1>3 DEF LifetimesMade, spanVars
<1>6. Placing'
  BY <1>1, <1>2, <1>3 DEF Placing
<1>7. QED
  BY <1>1, <1>3, <1>4, <1>5, <1>6 DEF RInv

-----------------------------------------------------------------------------
LEMMA NextKeepsReference == ASSUME IInv, UInv, RInv, [Next]_vars PROVE RInv'
<1>1. CASE UNCHANGED vars
  BY <1>1, StillReference DEF vars
<1>2. CASE EndPlacement
  BY <1>2, StillReference DEF EndPlacement
<1>3. CASE Next /\ ~EndPlacement
  BY <1>3, EnterKeepsReference, ScanKeepsReference, EndScanKeepsReference,
     BeginAliasKeepsReference, FollowAliasKeepsReference, RecordAliasKeepsReference,
     EndAliasesKeepsReference, MakeIntervalKeepsReference, EndIntervalsKeepsReference,
     PlaceInSlotKeepsReference, PlaceInNewSlotKeepsReference DEF Next
<1>4. QED
  BY <1>1, <1>2, <1>3

LEMMA ReferenceInductive == Spec => [](IInv /\ UInv /\ RInv)
<1>1. IInv /\ UInv /\ RInv /\ [Next]_vars => IInv' /\ UInv' /\ RInv'
  BY NextKeeps, NextKeepsUses, NextKeepsReference
<1>2. Init => IInv /\ UInv /\ RInv
  BY InitIInv, UsesStart, ReferenceStart
<1>3. QED
  BY <1>1, <1>2, PTL DEF Spec

LEMMA PlannedAsReference ==
  ASSUME IInv, UInv, RInv, phase = "planned"
  PROVE  MatchesReference
<1>1. /\ todo = {} /\ Placed = Awaiting
      /\ \A g : Table(g, request, Cardinality(Awaiting)) => g[1 .. Cardinality(Placed)] = Current
  BY DEF RInv, Placing, Placed
<1>2. Awaiting = Planned(request)
  BY AwaitingIsPlanned
<1>3. Plan(request) = Current
  <2>1. PICK g : /\ Table(g, request, Cardinality(Awaiting))
                 /\ Plan(request) = g[1 .. Cardinality(Awaiting)]
    BY <1>2, PlanIs
  <2>2. QED
    BY <1>1, <2>1
<1>4. ASSUME NEW t \in Tensors, Assigned(t)
      PROVE  intervals[t] = Lifetime(request, t)
  <2>1. Lifetime(request, t) = LifetimeOf(t)
    BY LifetimeAgrees
  <2>2. intervals[t] = LifetimeOf(t)
    BY <1>4 DEF RInv, LifetimesMade, Placing, Awaiting
  <2>3. QED
    BY <2>1, <2>2
<1>5. QED
  BY <1>3, <1>4 DEF MatchesReference, Current

(* plan_memory: the plan the loops return is the one the closed form       *)
(* gives, and so are the lifetimes of the tensors in it.                   *)
THEOREM PlansAsReference == Spec => []MatchesReference
<1>1. IInv /\ UInv /\ RInv => MatchesReference
  BY PlannedAsReference DEF MatchesReference
<1>2. QED
  BY <1>1, ReferenceInductive, PTL

-----------------------------------------------------------------------------
(* plan_memory's sum is that of its slots.                                 *)
SlotsCounted == total_bytes = BytesOf(slots, DOMAIN slots)

LEMMA CountedStep == ASSUME IInv, SlotsCounted, [Next]_vars PROVE SlotsCounted'
<1>1. ASSUME UNCHANGED <<slots, total_bytes>> PROVE SlotsCounted'
  BY <1>1 DEF SlotsCounted
<1>2. ASSUME NEW t \in Tensors, PlaceInNewSlot(t) PROVE SlotsCounted'
  <2>1. CASE Fits(total_bytes, t)
    <3> DEFINE n == Len(slots)
               s == slots'
    <3>1. /\ slots' = Append(slots, StorageBytes(t))
          /\ total_bytes' = total_bytes + StorageBytes(t)
      BY <1>2, <2>1 DEF PlaceInNewSlot
    <3>2. slots \in Seq(Nat) /\ StorageBytes(t) \in Nat
      <4>1. request.alignment \in Nat /\ request.alignment > 0
        <5>1. phase = "place"
          BY <1>2 DEF PlaceInNewSlot
        <5>2. QED
          BY <5>1 DEF IInv, TypeOK, IsRequest, Admitted
      <4>2. slots \in Seq(0 .. MaxU64) /\ 0 .. MaxU64 \subseteq Nat
        BY MaxU64Assumption DEF IInv, TypeOK
      <4>3. slots \in Seq(Nat)
        BY <4>2, SeqMonotonic
      <4>4. StorageBytes(t) \in Nat
        BY <4>1, BytesTyped, AlignUpCovers DEF StorageBytes
      <4>5. QED
        BY <4>3, <4>4
    <3>3. /\ n \in Nat /\ DOMAIN slots = 1 .. n /\ DOMAIN s = (1 .. n) \cup {n + 1}
          /\ \A i \in 1 .. n : s[i] = slots[i] /\ s[i] \in Nat
          /\ s[n + 1] = StorageBytes(t) /\ n + 1 \notin 1 .. n
      <4>1. n \in Nat /\ DOMAIN slots = 1 .. n /\ n + 1 \notin 1 .. n
        BY <3>2
      <4>2. /\ Len(s) = n + 1 /\ \A i \in 1 .. n : s[i] = slots[i]
            /\ s[n + 1] = StorageBytes(t)
        BY <3>1, <3>2
      <4>3. DOMAIN s = 1 .. n + 1
        BY <3>1, <3>2
      <4>4. QED
        BY <3>2, <4>1, <4>2, <4>3
    <3> HIDE DEF s, n
    <3>4. IsFiniteSet(1 .. n)
      <4>1. 1 \in Int /\ n \in Int
        BY <3>3
      <4>2. QED
        BY <4>1, FS_Interval
    <3>5. BytesOf(s, (1 .. n) \cup {n + 1})
            = BytesOf(s, 1 .. n) + StorageBytes(t)
      <4>1. /\ \A i \in 1 .. n : s[i] \in Nat
            /\ n + 1 \notin 1 .. n /\ s[n + 1] \in Nat /\ s[n + 1] = StorageBytes(t)
        BY <3>2, <3>3
      <4> DEFINE I == 1 .. n
                 x == n + 1
      <4>2. /\ IsFiniteSet(I) /\ \A i \in I : s[i] \in Nat
            /\ x \notin I /\ s[x] \in Nat /\ s[x] = StorageBytes(t)
        BY <3>4, <4>1
      <4> HIDE DEF I, x
      <4>3. BytesOf(s, I \cup {x}) = BytesOf(s, I) + s[x]
        BY <4>2, SumAdds
      <4>4. QED
        BY <4>2, <4>3 DEF I, x
    <3>6. BytesOf(s, 1 .. n) = BytesOf(slots, 1 .. n)
      BY <3>3, SumSame
    <3>7. QED
      BY <3>1, <3>3, <3>5, <3>6 DEF SlotsCounted, s
  <2>2. CASE ~Fits(total_bytes, t)
    BY <1>1, <1>2, <2>2 DEF PlaceInNewSlot, Fail, placeVars
  <2>3. QED
    BY <2>1, <2>2
<1>3. QED
  <2>1. CASE UNCHANGED vars
    BY <1>1, <2>1 DEF vars, placeVars
  <2>2. CASE Enter \/ Scan \/ EndScan
    BY <1>1, <2>2 DEF Enter, Scan, EndScan, Fail, placeVars
  <2>3. CASE \E o \in Tensors : BeginAlias(o)
    BY <1>1, <2>3 DEF BeginAlias, Fail, placeVars
  <2>4. CASE FollowAlias \/ RecordAlias \/ EndAliases
    BY <1>1, <2>4 DEF FollowAlias, RecordAlias, EndAliases, Fail, placeVars
  <2>5. CASE \E t \in Tensors : MakeInterval(t)
    BY <1>1, <2>5 DEF MakeInterval, Fail, placeVars
  <2>6. CASE EndIntervals \/ EndPlacement
    BY <1>1, <2>6 DEF EndIntervals, EndPlacement, placeVars
  <2>7. CASE \E t \in Tensors, s \in DOMAIN slots : PlaceInSlot(t, s)
    BY <1>1, <2>7 DEF PlaceInSlot
  <2>8. CASE \E t \in Tensors : PlaceInNewSlot(t)
    BY <1>2, <2>8
  <2>9. QED
    BY <2>1, <2>2, <2>3, <2>4, <2>5, <2>6, <2>7, <2>8 DEF Next

LEMMA PlannedKeepsCeiling ==
  ASSUME IInv, MatchesReference, SlotsCounted, phase = "planned",
         request.excluded \cup request.replaced \cup request.persistent = {},
         NEW b \in Budgets
  PROVE  /\ Plannable(Question(b)) <=> b.above >= 0
         /\ Plannable(Question(b)) => CeilingKept(Question(b))
<1> DEFINE q == Question(b)
<1>1. /\ q.program = request.program /\ q.aliases = request.aliases
      /\ q.alignment = request.alignment /\ q.distance = request.distance
      /\ q.fixed = b.fixed /\ q.maximum = total_bytes + b.fixed + b.above
      /\ q.largest_first = b.largest_first
  BY DEF Question, program, aliases
<1>2. /\ IsRequest(request) /\ request.alignment > 0 /\ total_bytes \in Nat
      /\ b.above \in Int /\ b.fixed \in Nat /\ b.largest_first \in BOOLEAN
  BY BudgetsAssumption, MaxU64Assumption DEF IInv, Admitted, TypeOK
<1> HIDE DEF q
<1>3. Asks(q)
  BY <1>1, <1>2 DEF Asks, WellAsked, IsRequest
<1>4. PlanBytes(q, {}) = total_bytes
  <2>1. request.excluded = {} /\ request.replaced = {} /\ request.persistent = {}
    OBVIOUS
  <2>2. [program |-> q.program, alignment |-> q.alignment, distance |-> q.distance,
         excluded |-> {}, replaced |-> {}, persistent |-> {}, aliases |-> q.aliases] = request
    BY <1>1, <1>2, <2>1 DEF IsRequest
  <2>3. slots = Plan(request).slots
    BY DEF MatchesReference
  <2>4. QED
    BY <2>2, <2>3 DEF PlanBytes, SlotsCounted
<1>5. Plannable(q) <=> b.above >= 0
  BY <1>1, <1>2, <1>4 DEF Plannable, Baseline
<1>6. Plannable(q) => CeilingKept(q)
  BY <1>3, CeilingIsKept
<1>7. QED
  BY <1>5, <1>6 DEF q

(* plan_streamed_residency: a budget is accepted exactly when it covers    *)
(* the plan as it is; what it makes resident then keeps to it, with the    *)
(* totals it reports; and a constant stays streamed only if it would not   *)
(* have fitted.                                                            *)
THEOREM ResidencyKeepsToItsCeiling == Spec => []CeilingRespected
<1>1. Init => SlotsCounted
  <2>1. ASSUME Init PROVE SlotsCounted
    <3>1. slots = <<>> /\ total_bytes = 0 /\ DOMAIN slots = {}
      BY <2>1 DEF Init
    <3>2. QED
      BY <3>1, SumOfNone DEF SlotsCounted
  <2>2. QED
    BY <2>1
<1>2. IInv /\ SlotsCounted /\ [Next]_vars => SlotsCounted'
  BY CountedStep
<1>3. IInv /\ MatchesReference /\ SlotsCounted => CeilingRespected
  BY PlannedKeepsCeiling DEF CeilingRespected
<1>4. QED
  BY <1>1, <1>2, <1>3, Inductive, PlansAsReference, PTL DEF Spec
=============================================================================
