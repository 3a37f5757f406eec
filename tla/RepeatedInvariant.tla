------------------------- MODULE RepeatedInvariant -------------------------
(***************************************************************************)
(* The cache of repeated-invariant results that a prepared execution keeps *)
(* from one run() to the next: the operations of the region are executed   *)
(* once, their crossing results are copied to the cache, and later runs    *)
(* restore them while the inputs the region reads are unchanged.           *)
(*                                                                         *)
(* A result is represented by the input values it was computed from.       *)
(* Failures are exceptions that leave run() after its state was touched.   *)
(***************************************************************************)
EXTENDS Integers

CONSTANTS
  Inputs,      (* repeated_invariant_input_tensors_                        *)
  Values,      (* Contents an input tensor may have.                       *)
  Crossing,    (* How many results cross the boundary of the region.       *)
  Iterations,  (* Executions (warmups and measured) of one run.            *)
  Empty        (* Storage nothing was written to yet.                      *)

ASSUME CrossingAssumption   == Crossing \in Nat \ {0}
ASSUME IterationsAssumption == Iterations \in Nat \ {0}

ASSUME EmptyAssumption      == Empty \notin [Inputs -> Values]

VARIABLES
  phase,       (* Where in run() the caller is.                            *)
  bindings,    (* The inputs of the run under way.                         *)
  ready,       (* repeated_cache_ready, local to the run.                  *)
  iteration,   (* Iteration of the run under way.                          *)
  produced,    (* Crossing results computed in this iteration.             *)
  preserved,   (* Crossing results copied to the cache in this iteration.  *)
  snapshots,   (* repeated_invariant_input_snapshots_                      *)
  valid,       (* repeated_invariant_valid_                                *)
  cache,       (* repeated_invariant_cache_storage_                        *)
  device,      (* The crossing results in the program's own storage.       *)
  interrupted  (* A run replaced the snapshots of a valid cache and failed,*)
               (* and no run has filled the cache since.                   *)

runVars  == <<phase, bindings, ready, iteration, produced, preserved>>
keptVars == <<snapshots, valid, cache, device>>
vars == <<runVars, keptVars, interrupted>>

Results  == 1 .. Crossing
Bindings == [Inputs -> Values]
Contents == Bindings \cup {Empty}

Init ==
  /\ phase = "idle"
  /\ bindings = Empty
  /\ ready = FALSE
  /\ iteration = 0
  /\ produced = 0
  /\ preserved = 0
  /\ snapshots = Empty
  /\ valid = FALSE
  /\ cache  = [r \in Results |-> Empty]
  /\ device = [r \in Results |-> Empty]
  /\ interrupted = FALSE

(* run() with valid bindings; a call refused by validation changes nothing.*)
Call(b) ==
  /\ phase = "idle"
  /\ phase' = "decide"
  /\ bindings' = b
  /\ UNCHANGED <<ready, iteration, produced, preserved, keptVars, interrupted>>

(* Mutant: only one of the inputs is compared.                             *)
Unchanged_SomeInput ==
  /\ snapshots # Empty
  /\ \E i \in Inputs : snapshots[i] = bindings[i]

(* The byte comparison of every input the region reads.                    *)
Unchanged ==
  /\ snapshots # Empty
  /\ \A i \in Inputs : snapshots[i] = bindings[i]

Decide ==
  /\ phase = "decide"
  /\ ready' = (valid /\ Unchanged)
  /\ snapshots' = IF ready' THEN snapshots ELSE bindings
  /\ phase' = "upload"
  /\ UNCHANGED <<bindings, iteration, produced, preserved, valid, cache, device,
                 interrupted>>

(* Options checks and the upload of the inputs, before any execution.      *)
Upload ==
  /\ phase = "upload"
  /\ phase' = "execute"
  /\ iteration' = 0
  /\ UNCHANGED <<bindings, ready, produced, preserved, keptVars, interrupted>>

-----------------------------------------------------------------------------
(* execute(): restore every crossing result, or compute and preserve each. *)
Restore ==
  /\ phase = "execute" /\ ready
  /\ device' = cache
  /\ phase' = "consume"
  /\ UNCHANGED <<bindings, ready, iteration, produced, preserved, snapshots,
                 valid, cache, interrupted>>

Produce ==
  /\ phase = "execute" /\ ~ready
  /\ produced = preserved /\ produced < Crossing
  /\ device' = [device EXCEPT ![produced + 1] = bindings]
  /\ produced' = produced + 1
  /\ UNCHANGED <<phase, bindings, ready, iteration, preserved, snapshots, valid,
                 cache, interrupted>>

Preserve ==
  /\ phase = "execute" /\ ~ready
  /\ preserved < produced
  /\ cache' = [cache EXCEPT ![produced] = device[produced]]
  /\ preserved' = produced
  /\ UNCHANGED <<phase, bindings, ready, iteration, produced, snapshots, valid,
                 device, interrupted>>

AllPreserved_Short == preserved >= Crossing - 1   \* Mutant: the last is lost.
AllPreserved == preserved = Crossing

Computed ==
  /\ phase = "execute" /\ ~ready
  /\ AllPreserved
  /\ phase' = "consume"
  /\ produced' = 0
  /\ preserved' = 0
  /\ UNCHANGED <<bindings, ready, iteration, keptVars, interrupted>>

Again(i) == i < Iterations

(* The operations outside the region have read the crossing results and    *)
(* the iteration was synchronized: from now on the run reuses them.        *)
EndIteration ==
  /\ phase = "consume"
  /\ ready' = TRUE
  /\ iteration' = iteration + 1
  /\ phase' = IF Again(iteration') THEN "execute" ELSE "commit"
  /\ interrupted' = (interrupted /\ ready)
  /\ UNCHANGED <<bindings, produced, preserved, keptVars>>

(* After the last iteration the cache counts for later runs.               *)
Commit ==
  /\ phase = "commit"
  /\ valid' = TRUE
  /\ phase' = "idle"
  /\ UNCHANGED <<bindings, ready, iteration, produced, preserved, snapshots,
                 cache, device, interrupted>>

(* An exception leaves run(); nothing that was set is taken back.          *)
Fail ==
  /\ phase \in {"upload", "execute", "consume"}
  /\ phase' = "idle"
  /\ produced' = 0
  /\ preserved' = 0
  /\ interrupted' = (interrupted \/ (valid /\ ~ready))
  /\ UNCHANGED <<bindings, ready, iteration, keptVars>>

Next ==
  \/ \E b \in Bindings : Call(b)
  \/ Decide \/ Upload \/ Restore \/ Produce \/ Preserve \/ Computed
  \/ EndIteration \/ Commit \/ Fail

Spec == Init /\ [][Next]_vars
-----------------------------------------------------------------------------
TypeOK ==
  /\ phase \in {"idle", "decide", "upload", "execute", "consume", "commit"}
  /\ bindings \in Contents
  /\ ready \in BOOLEAN /\ valid \in BOOLEAN /\ interrupted \in BOOLEAN
  /\ iteration \in 0 .. Iterations
  /\ produced \in 0 .. Crossing /\ preserved \in 0 .. Crossing
  /\ snapshots \in Contents
  /\ cache \in [Results -> Contents]
  /\ device \in [Results -> Contents]

(* The crossing results the rest of the program reads were computed from   *)
(* the inputs of this run, unless a run was interrupted before.            *)
ConsumesOwnInputs ==
  phase = "consume" /\ ~interrupted => \A r \in Results : device[r] = bindings

(* The same without the exception: what RunOptions says of the cache.      *)
ReusedOnlyWhileUnchanged ==
  phase = "consume" => \A r \in Results : device[r] = bindings

(* Between runs a cache that counts as valid holds the results of one      *)
(* computation: a run that failed half way through refilling an older one  *)
(* is remembered as an interruption.                                       *)
CacheNotMixed ==
  phase = "idle" /\ valid /\ ~interrupted =>
    \A r, q \in Results : cache[r] = cache[q]
=============================================================================
