----------------------------- MODULE StageChain -----------------------------
(***************************************************************************)
(* run_chain: the stages of a benchmark recipe as child processes, with    *)
(* the content-addressed cache that lets a run skip a stage by restoring   *)
(* its outputs.  Several processes may run chains on one cache directory;  *)
(* each run has a work directory of its own.                               *)
(*                                                                         *)
(* A file is represented by the recipe input it was computed from, or Torn *)
(* when it was cut short or mixes two inputs.  Stages compute their outputs*)
(* from the files they read, and write all of them when they exit with 0.  *)
(***************************************************************************)
EXTENDS Integers, FiniteSets

CONSTANTS
  Chains,     (* The processes that call run_chain.                        *)
  Runs,       (* Bound on the runs of one process.                         *)
  Inputs,     (* What the recipe's input files may hold.                   *)
  Stages,     (* Positions of the recipe's stages.                         *)
  after,      (* ResolvedStage::after                                      *)
  reads,      (* The stages whose outputs a stage reads; a stage that reads*)
              (* none reads the recipe's input.                            *)
  cacheable,  (* The stages with a cache declaration; their key files are  *)
              (* the files they read.                                      *)
  Outputs,    (* How many files a stage produces.                          *)
  Large,      (* Stages whose outputs exceed digest_limit_bytes.           *)
  Torn,
  Absent      (* A file that does not exist.                               *)

(* parse_recipe and resolve_recipe: dependencies are earlier stages, and   *)
(* what a stage reads is a product of stages it comes after.               *)
ASSUME RecipeAssumption ==
  /\ Stages \subseteq Nat /\ cacheable \subseteq Stages /\ Large \subseteq Stages
  /\ after \in [Stages -> SUBSET Stages] /\ reads \in [Stages -> SUBSET Stages]
  /\ \A s \in Stages : reads[s] \subseteq after[s] /\ \A d \in after[s] : d < s
ASSUME OutputsAssumption == Outputs \in Nat \ {0} /\ Runs \in Nat
ASSUME TornAssumption == Torn \notin Inputs /\ Absent \notin Inputs /\ Torn # Absent

VARIABLES
  phase,      (* Where each chain is in run_chain.                         *)
  runs,       (* How many runs it has begun.                               *)
  input,      (* What the recipe's input holds in its current run.         *)
  at,         (* The stage it is looking at, restoring or storing.         *)
  copied,     (* How many outputs of that stage it has copied.             *)
  stage,      (* The state of every stage of its run.                      *)
  aborted,    (* aborted                                                   *)
  file,       (* The stages' outputs in its work directory.                *)
  cache,      (* What every entry of the cache directory holds.            *)
  manifest,   (* The entries that have a manifest.                         *)
  contested   (* Entries a chain stored into while another was storing, or *)
              (* when they had a manifest already.                         *)

chainVars == <<phase, runs, input, at, copied, stage, aborted, file>>
cacheVars == <<cache, manifest, contested>>
vars == <<chainVars, cacheVars>>

Files    == 1 .. Outputs
Contents == Inputs \cup {Torn}
Sized    == "the size only"

-----------------------------------------------------------------------------
(* stage_cache_key: the stage with the identity of what it reads.  Inputs  *)
(* outside the work directory are told apart by their modification time or *)
(* digest, products of the run by their digest while they are small.       *)
Identity_NoDigest(c, d) == Sized          \* Mutant: products by size only.
Identity(c, d) == IF d \in Large THEN Sized ELSE file[c][d]

Key(c, s) ==
  [stage |-> s,
   files |-> IF reads[s] = {} THEN {<<s, [f \in Files |-> input[c]]>>}
             ELSE {<<d, Identity(c, d)>> : d \in reads[s]}]

(* A manifest, and every output.                                           *)
Restorable(c, s) ==
  /\ s \in cacheable
  /\ Key(c, s) \in manifest
  /\ \A f \in Files : cache[Key(c, s)][f] # Absent

(* What a stage computes from the files it reads.                          *)
Computed(c, s) ==
  LET read == IF reads[s] = {} THEN {input[c]}
              ELSE UNION {{file[c][d][f] : f \in Files} : d \in reads[s]}
  IN  IF Cardinality(read) = 1 THEN CHOOSE x \in read : TRUE ELSE Torn

-----------------------------------------------------------------------------
Blank == [s \in Stages |-> [f \in Files |-> Absent]]

Init ==
  /\ phase   = [c \in Chains |-> "idle"]
  /\ runs    = [c \in Chains |-> 0]
  /\ input   = [c \in Chains |-> Absent]
  /\ at      = [c \in Chains |-> 0]
  /\ copied  = [c \in Chains |-> 0]
  /\ stage   = [c \in Chains |-> [s \in Stages |-> "waiting"]]
  /\ aborted = [c \in Chains |-> FALSE]
  /\ file    = [c \in Chains |-> Blank]
  /\ cache   = [k \in {} |-> 0]
  /\ manifest = {}
  /\ contested = {}

(* run_chain is called, in an empty work directory.                        *)
Fresh(c) ==
  /\ at'      = [at EXCEPT ![c] = 0]
  /\ copied'  = [copied EXCEPT ![c] = 0]
  /\ stage'   = [stage EXCEPT ![c] = [s \in Stages |-> "waiting"]]
  /\ aborted' = [aborted EXCEPT ![c] = FALSE]
  /\ file'    = [file EXCEPT ![c] = Blank]

Call(c, v) ==
  /\ phase[c] \in {"idle", "returned"}
  /\ runs[c] < Runs
  /\ runs'  = [runs EXCEPT ![c] = @ + 1]
  /\ input' = [input EXCEPT ![c] = v]
  /\ phase' = [phase EXCEPT ![c] = "launch"]
  /\ Fresh(c)
  /\ UNCHANGED cacheVars

(* The launch loop comes to the next stage that can start.                 *)
Ready(c) ==
  IF aborted[c] THEN {}
  ELSE {s \in Stages : /\ s >= at[c] /\ stage[c][s] = "waiting"
                       /\ \A d \in after[s] : stage[c][d] = "succeeded"}
IsNext(c, s) == s \in Ready(c) /\ \A r \in Ready(c) : s <= r
Running(c)   == {s \in Stages : stage[c][s] \in {"running", "exited", "broken"}}

Restore(c, s) ==
  /\ phase[c] = "launch" /\ IsNext(c, s)
  /\ Restorable(c, s)
  /\ phase'  = [phase EXCEPT ![c] = "restore"]
  /\ at'     = [at EXCEPT ![c] = s]
  /\ UNCHANGED <<runs, input, copied, stage, aborted, file, cacheVars>>

Hit_OnlyStarted == "failed"     \* Mutant: a hit does not count as a success.
Hit == "succeeded"

(* A hit: the stage has succeeded once its last output is copied.          *)
RestoreFile(c) ==
  LET s == at[c]  f == copied[c] + 1 IN
  /\ phase[c] = "restore"
  /\ file'   = [file EXCEPT ![c][s][f] = cache[Key(c, s)][f]]
  /\ copied' = [copied EXCEPT ![c] = f % Outputs]
  /\ IF f < Outputs THEN UNCHANGED <<phase, at, stage>>
     ELSE /\ stage' = [stage EXCEPT ![c][s] = Hit]
          /\ phase' = [phase EXCEPT ![c] = "launch"]
          /\ at'    = [at EXCEPT ![c] = s + 1]
  /\ UNCHANGED <<runs, input, aborted, cacheVars>>

Fork(c, s) ==
  /\ phase[c] = "launch" /\ IsNext(c, s)
  /\ ~Restorable(c, s)
  /\ stage' = [stage EXCEPT ![c][s] = "running"]
  /\ at'    = [at EXCEPT ![c] = s + 1]
  /\ UNCHANGED <<phase, runs, input, copied, aborted, file, cacheVars>>

(* Mutant: after a failure the children that still run are left alone.     *)
NothingRuns_Aborted(c) == aborted[c] \/ Running(c) = {}
NothingRuns(c) == Running(c) = {}

(* The loop has seen every stage: wait for a child, or return.             *)
EndLaunch(c) ==
  /\ phase[c] = "launch" /\ Ready(c) = {}
  /\ phase' = [phase EXCEPT ![c] = IF NothingRuns(c) THEN "returned" ELSE "wait"]
  /\ at'    = [at EXCEPT ![c] = 0]
  /\ UNCHANGED <<runs, input, copied, stage, aborted, file, cacheVars>>

(* The child processes, in their own time.                                 *)
Exit(c, s) ==
  /\ stage[c][s] = "running"
  /\ stage' = [stage EXCEPT ![c][s] = "exited"]
  /\ file'  = [file EXCEPT ![c][s] = [f \in Files |-> Computed(c, s)]]
  /\ UNCHANGED <<phase, runs, input, at, copied, aborted, cacheVars>>

Break(c, s) ==
  /\ stage[c][s] = "running"
  /\ stage' = [stage EXCEPT ![c][s] = "broken"]
  /\ file'  = [file EXCEPT ![c][s] = [f \in Files |-> Torn]]
  /\ UNCHANGED <<phase, runs, input, at, copied, aborted, cacheVars>>

(* Mutant: a failed child stays in the list of running ones.               *)
Reaped_Kept(c, s) == IF stage[c][s] = "exited" THEN "succeeded" ELSE "broken"
Reaped(c, s)      == IF stage[c][s] = "exited" THEN "succeeded" ELSE "failed"

(* wait4 returns one of the children that have ended.                      *)
Wait(c, s) ==
  /\ phase[c] = "wait"
  /\ stage[c][s] \in {"exited", "broken"}
  /\ stage'   = [stage EXCEPT ![c][s] = Reaped(c, s)]
  /\ aborted' = [aborted EXCEPT ![c] = @ \/ stage[c][s] = "broken"]
  /\ IF stage[c][s] = "exited" /\ s \in cacheable
     THEN phase' = [phase EXCEPT ![c] = "store"] /\ at' = [at EXCEPT ![c] = s]
     ELSE phase' = [phase EXCEPT ![c] = "launch"] /\ UNCHANGED at
  /\ UNCHANGED <<runs, input, copied, file, cacheVars>>

-----------------------------------------------------------------------------
(* store_to_cache: copy_file truncates the entry's file and writes it.  The*)
(* key is the one of the launch: what the stage reads has not changed.     *)
Storing(c)  == phase[c] \in {"store", "write"}
Entry(c)    == Key(c, at[c])
Put(k, f, x) ==
  [e \in DOMAIN cache \cup {k} |->
     IF e = k THEN [g \in Files |-> IF g = f THEN x
                                    ELSE IF k \in DOMAIN cache THEN cache[k][g] ELSE Absent]
     ELSE cache[e]]

MoreToStore(c) == copied[c] < Outputs

Truncate(c) ==
  /\ phase[c] = "store" /\ MoreToStore(c)
  /\ cache' = Put(Entry(c), copied[c] + 1, Torn)
  /\ contested' = contested \cup
       {k \in {Entry(c)} : k \in manifest \/ \E d \in Chains \ {c} : Storing(d) /\ Entry(d) = k}
  /\ phase' = [phase EXCEPT ![c] = "write"]
  /\ UNCHANGED <<runs, input, at, copied, stage, aborted, file, manifest>>

Write(c) ==
  /\ phase[c] = "write"
  /\ cache' = Put(Entry(c), copied[c] + 1, file[c][at[c]][copied[c] + 1])
  /\ copied' = [copied EXCEPT ![c] = @ + 1]
  /\ phase' = [phase EXCEPT ![c] = "store"]
  /\ UNCHANGED <<runs, input, at, stage, aborted, file, manifest, contested>>

AllStored_Short(c) == copied[c] >= Outputs - 1    \* Mutant: one file too early.
AllStored(c) == copied[c] = Outputs

Publish(c) ==
  /\ phase[c] = "store" /\ AllStored(c)
  /\ manifest' = manifest \cup {Entry(c)}
  /\ phase' = [phase EXCEPT ![c] = "launch"]
  /\ at'     = [at EXCEPT ![c] = 0]
  /\ copied' = [copied EXCEPT ![c] = 0]
  /\ UNCHANGED <<runs, input, stage, aborted, file, cache, contested>>

(* "store-failed": the chain goes on, the entry stays as it is.  When only *)
(* writing the manifest fails, the file exists all the same: for every     *)
(* other run that is Publish.                                              *)
StoreFails(c) ==
  /\ Storing(c)
  /\ phase' = [phase EXCEPT ![c] = "launch"]
  /\ at'     = [at EXCEPT ![c] = 0]
  /\ copied' = [copied EXCEPT ![c] = 0]
  /\ UNCHANGED <<runs, input, stage, aborted, file, cacheVars>>

(* An exception leaves run_chain, or its process is killed.  Nobody waits  *)
(* for the children any more; no later run uses their work directory.      *)
CutShort(c) ==
  /\ phase[c] \notin {"idle", "returned"}
  /\ phase' = [phase EXCEPT ![c] = "idle"]
  /\ input' = [input EXCEPT ![c] = Absent]
  /\ Fresh(c)
  /\ UNCHANGED <<runs, cacheVars>>

-----------------------------------------------------------------------------
ChainStep(c) ==
  \/ \E s \in Stages : Restore(c, s) \/ Fork(c, s) \/ Wait(c, s)
  \/ RestoreFile(c) \/ EndLaunch(c)
  \/ Truncate(c) \/ Write(c) \/ Publish(c) \/ StoreFails(c)

Ends(c, s) == Exit(c, s) \/ Break(c, s)

Next ==
  \E c \in Chains :
    \/ \E v \in Inputs : Call(c, v)
    \/ ChainStep(c)
    \/ \E s \in Stages : Ends(c, s)
    \/ CutShort(c)

(* A chain goes on unless it is blocked in wait4, and then one of its      *)
(* children ends some time.                                                *)
Spec ==
  /\ Init /\ [][Next]_vars
  /\ \A c \in Chains : WF_vars(ChainStep(c) \/ \E s \in Stages : Ends(c, s))
-----------------------------------------------------------------------------
TypeOK ==
  /\ phase \in [Chains -> {"idle", "launch", "restore", "wait", "store", "write", "returned"}]
  /\ runs \in [Chains -> 0 .. Runs]
  /\ input \in [Chains -> Inputs \cup {Absent}]
  /\ at \in [Chains -> Nat]
  /\ copied \in [Chains -> 0 .. Outputs]
  /\ stage \in [Chains -> [Stages -> {"waiting", "running", "exited", "broken",
                                      "succeeded", "failed"}]]
  /\ aborted \in [Chains -> BOOLEAN]
  /\ file \in [Chains -> [Stages -> [Files -> Contents \cup {Absent}]]]
  /\ \A k \in DOMAIN cache : cache[k] \in [Files -> Contents \cup {Absent}]
  /\ manifest \cup contested \subseteq DOMAIN cache

(* A run that returns without a failed stage has run, or restored, every   *)
(* stage: the one pass over the stages that follows every exit misses none.*)
CompletesAll ==
  \A c \in Chains : phase[c] = "returned" /\ ~aborted[c] =>
    \A s \in Stages : stage[c][s] = "succeeded"

(* When run_chain returns, also after a failure, none of its children is   *)
(* running or waits to be reaped.                                          *)
ReturnsAlone == \A c \in Chains : phase[c] = "returned" => Running(c) = {}

(* A manifest says that the entry is whole and is what its stage computes, *)
(* whatever was cut short before, as long as no other chain stored into    *)
(* the entry at the same time or after.  (Cached stages that read cached   *)
(* stages inherit what was contested there.)                               *)
Whole(k) == \A f \in Files : cache[k][f] \in Inputs /\ cache[k][f] = cache[k][1]
PublishedIsWhole == \A k \in manifest \ contested : Whole(k)

(* A run that succeeds leaves in its work directory what its stages would  *)
(* have computed from its own input, restored or not: the cache is not     *)
(* visible in the results.                                                 *)
OwnResults ==
  \A c \in Chains : phase[c] = "returned" /\ ~aborted[c] /\ contested = {} =>
    \A s \in Stages, f \in Files : file[c][s][f] = input[c]

(* Every call of run_chain ends.                                           *)
Returns == \A c \in Chains : phase[c] = "launch" ~> phase[c] \in {"returned", "idle"}
=============================================================================
