----------------------- MODULE RepeatedInvariantProofs -----------------------
(***************************************************************************)
(* The cache of repeated-invariant results is right for any number of      *)
(* runs, inputs, results and iterations, with failures anywhere, as long   *)
(* as no run is interrupted after it replaced the snapshots.               *)
(***************************************************************************)
EXTENDS RepeatedInvariant, TLAPS

Deciding  == phase \in {"idle", "decide"}
Executing == phase \in {"upload", "execute", "consume", "commit"}

HoldsAll(store, b) == \A r \in Results : store[r] = b

(* The loop of a computing iteration.                                      *)
Progress ==
  /\ preserved <= produced /\ produced <= preserved + 1
  /\ phase # "execute" \/ ready => produced = 0 /\ preserved = 0

(* Another iteration is under way.                                         *)
EarlierIteration == phase \in {"execute", "consume"} => iteration < Iterations

(* A run executes on the inputs its snapshots describe.                    *)
Bound ==
  /\ phase # "idle" => bindings \in Bindings
  /\ Executing => snapshots = bindings
  /\ phase = "commit" => ready

(* What the cache may be trusted for between runs and during one.          *)
Kept     == Deciding /\ valid /\ ~interrupted => HoldsAll(cache, snapshots)
Reusable == Executing /\ ready /\ ~interrupted => HoldsAll(cache, bindings)
Filled   == phase = "execute" /\ ~ready =>
              /\ \A r \in Results : r <= preserved => cache[r] = bindings
              /\ \A r \in Results : r <= produced => device[r] = bindings
Computed_ == phase = "consume" /\ ~ready =>
               HoldsAll(cache, bindings) /\ HoldsAll(device, bindings)
Restored  == phase = "consume" /\ ready /\ ~interrupted => HoldsAll(device, bindings)

IInv == /\ TypeOK /\ Progress /\ Bound /\ EarlierIteration
        /\ Kept /\ Reusable /\ Filled /\ Computed_ /\ Restored

-----------------------------------------------------------------------------
LEMMA InitIInv == Init => IInv
<1> SUFFICES ASSUME Init PROVE IInv
  OBVIOUS
<1>1. TypeOK
  <2>1. Empty \in Contents
    BY DEF Contents
  <2>2. Crossing \in Nat /\ Iterations \in Nat
    BY CrossingAssumption, IterationsAssumption
  <2>3. cache \in [Results -> Contents] /\ device \in [Results -> Contents]
    BY <2>1 DEF Init
  <2>4. iteration \in 0 .. Iterations /\ produced \in 0 .. Crossing /\ preserved \in 0 .. Crossing
    BY <2>2 DEF Init
  <2>5. ready \in BOOLEAN /\ valid \in BOOLEAN /\ interrupted \in BOOLEAN
    BY Zenon DEF Init
  <2>6. QED
    BY <2>1, <2>3, <2>4, <2>5 DEF Init, TypeOK
<1>2. Progress /\ Bound /\ EarlierIteration /\ Kept /\ Reusable /\ Filled /\ Computed_ /\ Restored
  BY DEF EarlierIteration, Init, Progress, Bound, Kept, Reusable, Filled, Computed_, Restored, Executing,
         Deciding
<1>3. QED
  BY <1>1, <1>2 DEF IInv

LEMMA CallKeeps == ASSUME IInv, NEW b \in Bindings, Call(b) PROVE IInv'
<1>1. TypeOK'
  BY DEF IInv, TypeOK, Call, keptVars, Contents
<1>2. Progress' /\ Bound' /\ EarlierIteration'
  BY DEF EarlierIteration, IInv, Call, keptVars, Progress, Bound, Executing
<1>3. Kept' /\ Reusable' /\ Filled' /\ Computed_' /\ Restored'
  BY DEF IInv, Call, keptVars, Kept, Reusable, Filled, Computed_, Restored, Executing,
         Deciding, HoldsAll
<1>4. QED
  BY <1>1, <1>2, <1>3 DEF IInv

(* Snapshots that agree with the bindings on every input are the bindings. *)
LEMMA UnchangedMeansEqual ==
  ASSUME TypeOK, bindings \in Bindings, Unchanged PROVE snapshots = bindings
  BY DEF TypeOK, Unchanged, Contents, Bindings

LEMMA DecideKeeps == ASSUME IInv, Decide PROVE IInv'
<1>1. bindings \in Bindings /\ (ready' => snapshots = bindings) /\ (ready' => valid)
  BY UnchangedMeansEqual DEF IInv, Bound, Decide
<1>2. snapshots' = bindings
  BY <1>1 DEF Decide
<1>3. TypeOK'
  BY <1>1, <1>2 DEF IInv, TypeOK, Decide, Contents
<1>4. Progress' /\ Bound' /\ EarlierIteration'
  BY <1>1, <1>2 DEF EarlierIteration, IInv, Decide, Progress, Bound, Executing
<1>5. Kept' /\ Reusable' /\ Filled' /\ Computed_' /\ Restored'
  BY <1>1, <1>2 DEF IInv, Decide, Kept, Reusable, Filled, Computed_, Restored,
                    Executing, Deciding, HoldsAll
<1>6. QED
  BY <1>3, <1>4, <1>5 DEF IInv

LEMMA UploadKeeps == ASSUME IInv, Upload PROVE IInv'
<1>1. TypeOK'
  BY IterationsAssumption DEF IInv, TypeOK, Upload, keptVars
<1>2. Progress' /\ Bound' /\ EarlierIteration'
  BY IterationsAssumption DEF EarlierIteration, IInv, Upload, keptVars, Progress, Bound, Executing
<1>3. Kept' /\ Reusable' /\ Filled' /\ Computed_' /\ Restored'
  BY CrossingAssumption
     DEF IInv, Upload, keptVars, Progress, Kept, Reusable, Filled, Computed_, Restored,
         Executing, Deciding, HoldsAll, Results
<1>4. QED
  BY <1>1, <1>2, <1>3 DEF IInv

LEMMA RestoreKeeps == ASSUME IInv, Restore PROVE IInv'
<1>1. TypeOK'
  BY DEF IInv, TypeOK, Restore
<1>2. Progress' /\ Bound' /\ EarlierIteration'
  BY DEF EarlierIteration, IInv, Restore, Progress, Bound, Executing
<1>3. Kept' /\ Reusable' /\ Filled' /\ Computed_' /\ Restored'
  BY DEF IInv, Restore, Kept, Reusable, Filled, Computed_, Restored, Executing,
         Deciding, HoldsAll
<1>4. QED
  BY <1>1, <1>2, <1>3 DEF IInv

-----------------------------------------------------------------------------
LEMMA ProduceKeeps == ASSUME IInv, Produce PROVE IInv'
<1>1. /\ produced \in Nat /\ produced + 1 \in Results /\ Crossing \in Nat
      /\ bindings \in Contents
      /\ device' = [device EXCEPT ![produced + 1] = bindings]
      /\ device \in [Results -> Contents]
  BY CrossingAssumption DEF IInv, TypeOK, Produce, Results
<1>2. TypeOK'
  BY <1>1 DEF IInv, TypeOK, Produce, Results
<1>3. Progress' /\ Bound' /\ EarlierIteration'
  BY <1>1 DEF EarlierIteration, IInv, TypeOK, Produce, Progress, Bound, Executing
<1>4. \A r \in Results : r <= produced' => device'[r] = bindings
  BY <1>1 DEF IInv, Filled, Produce, Results
<1>5. Kept' /\ Reusable' /\ Filled' /\ Computed_' /\ Restored'
  BY <1>4 DEF IInv, Produce, Kept, Reusable, Filled, Computed_, Restored, Executing,
              Deciding, HoldsAll
<1>6. QED
  BY <1>2, <1>3, <1>5 DEF IInv

LEMMA PreserveKeeps == ASSUME IInv, Preserve PROVE IInv'
<1>1. /\ produced \in Results /\ preserved \in Nat /\ produced = preserved + 1
      /\ cache' = [cache EXCEPT ![produced] = device[produced]]
      /\ device[produced] = bindings
      /\ cache \in [Results -> Contents] /\ device \in [Results -> Contents]
  BY CrossingAssumption DEF IInv, TypeOK, Progress, Filled, Preserve, Results
<1>2. TypeOK'
  BY <1>1 DEF IInv, TypeOK, Preserve, Results
<1>3. Progress' /\ Bound' /\ EarlierIteration'
  BY <1>1 DEF EarlierIteration, IInv, TypeOK, Preserve, Progress, Bound, Executing
<1>4. \A r \in Results : r <= preserved' => cache'[r] = bindings
  BY <1>1 DEF IInv, Filled, Preserve, Results
<1>5. Kept' /\ Reusable' /\ Filled' /\ Computed_' /\ Restored'
  BY <1>4 DEF IInv, Preserve, Kept, Reusable, Filled, Computed_, Restored, Executing,
              Deciding, HoldsAll
<1>6. QED
  BY <1>2, <1>3, <1>5 DEF IInv

LEMMA ComputedKeeps == ASSUME IInv, Computed PROVE IInv'
<1>1. preserved = Crossing /\ produced = Crossing
  BY CrossingAssumption DEF IInv, TypeOK, Progress, Computed, AllPreserved
<1>2. TypeOK'
  BY CrossingAssumption DEF IInv, TypeOK, Computed, keptVars
<1>3. Progress' /\ Bound' /\ EarlierIteration'
  BY DEF EarlierIteration, IInv, Computed, keptVars, Progress, Bound, Executing
<1>4. HoldsAll(cache, bindings) /\ HoldsAll(device, bindings)
  BY <1>1, CrossingAssumption DEF IInv, Filled, Computed, HoldsAll, Results
<1>5. Kept' /\ Reusable' /\ Filled' /\ Computed_' /\ Restored'
  BY <1>4 DEF IInv, Computed, keptVars, Kept, Reusable, Filled, Computed_, Restored,
              Executing, Deciding, HoldsAll
<1>6. QED
  BY <1>2, <1>3, <1>5 DEF IInv

LEMMA EndIterationKeeps == ASSUME IInv, EndIteration PROVE IInv'
<1>1. HoldsAll(cache, bindings) \/ interrupted'
  BY DEF IInv, TypeOK, Reusable, Computed_, EndIteration, Executing
<1>2. TypeOK'
  <2>1. iteration \in Nat /\ iteration <= Iterations /\ Iterations \in Nat
    BY IterationsAssumption DEF IInv, TypeOK
  <2>2. iteration < Iterations
    BY DEF IInv, EarlierIteration, EndIteration
  <2>3. QED
    BY <2>1, <2>2 DEF IInv, TypeOK, EndIteration, Again, keptVars
<1>3. Progress' /\ Bound' /\ EarlierIteration'
  BY IterationsAssumption DEF EarlierIteration, IInv, TypeOK, EndIteration, Again, keptVars, Progress, Bound, Executing
<1>4. Kept' /\ Reusable' /\ Filled' /\ Computed_' /\ Restored'
  BY <1>1 DEF IInv, EndIteration, Again, keptVars, Kept, Reusable, Filled, Computed_, Restored,
              Executing, Deciding, HoldsAll
<1>5. QED
  BY <1>2, <1>3, <1>4 DEF IInv

LEMMA CommitKeeps == ASSUME IInv, Commit PROVE IInv'
<1>1. TypeOK'
  BY DEF IInv, TypeOK, Commit
<1>2. Progress' /\ Bound' /\ EarlierIteration'
  BY DEF EarlierIteration, IInv, Commit, Progress, Bound, Executing
<1>3. Kept' /\ Reusable' /\ Filled' /\ Computed_' /\ Restored'
  BY DEF IInv, Commit, Bound, Kept, Reusable, Filled, Computed_, Restored, Executing,
         Deciding, HoldsAll
<1>4. QED
  BY <1>1, <1>2, <1>3 DEF IInv

(* What a failure leaves behind is either the cache of the run itself or   *)
(* an interruption.                                                        *)
LEMMA FailKeeps == ASSUME IInv, Fail PROVE IInv'
<1>1. TypeOK'
  BY CrossingAssumption DEF IInv, TypeOK, Fail, keptVars
<1>2. Progress' /\ Bound' /\ EarlierIteration'
  BY DEF EarlierIteration, IInv, Fail, keptVars, Progress, Bound, Executing
<1>3. Kept' /\ Reusable' /\ Filled' /\ Computed_' /\ Restored'
  BY DEF IInv, TypeOK, Fail, keptVars, Bound, Kept, Reusable, Filled, Computed_,
         Restored, Executing, Deciding, HoldsAll
<1>4. QED
  BY <1>1, <1>2, <1>3 DEF IInv

LEMMA NextKeeps == ASSUME IInv, [Next]_vars PROVE IInv'
<1>1. CASE UNCHANGED vars
  BY <1>1 DEF vars, runVars, keptVars, IInv, TypeOK, Progress, Bound, Kept, Reusable,
              Filled, Computed_, Restored, EarlierIteration, Executing, Deciding, HoldsAll
<1>2. CASE Next
  BY <1>2, CallKeeps, DecideKeeps, UploadKeeps, RestoreKeeps, ProduceKeeps,
     PreserveKeeps, ComputedKeeps, EndIterationKeeps, CommitKeeps, FailKeeps DEF Next
<1>3. QED
  BY <1>1, <1>2

LEMMA Inductive == Spec => []IInv
  BY InitIInv, NextKeeps, PTL DEF Spec

(* CudaPreparedExecution::run: the operations after the region read        *)
(* results computed from this run's inputs, for any history of runs and    *)
(* failures without an interruption.                                       *)
THEOREM ReuseIsSound == Spec => []ConsumesOwnInputs
<1>1. IInv => ConsumesOwnInputs
  BY DEF IInv, TypeOK, Computed_, Restored, ConsumesOwnInputs, HoldsAll
<1>2. QED
  BY <1>1, Inductive, PTL

(* Between runs, a valid cache holds the results of one computation.       *)
THEOREM CacheIsOneComputation == Spec => []CacheNotMixed
<1>1. IInv => CacheNotMixed
  BY DEF IInv, Kept, Deciding, CacheNotMixed, HoldsAll
<1>2. QED
  BY <1>1, Inductive, PTL

(* The variables of the cache keep their types.                            *)
THEOREM CacheTypeCorrect == Spec => []TypeOK
<1>1. IInv => TypeOK
  BY DEF IInv
<1>2. QED
  BY <1>1, Inductive, PTL
=============================================================================
