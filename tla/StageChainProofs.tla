-------------------------- MODULE StageChainProofs --------------------------
(***************************************************************************)
(* run_chain for every recipe, any number of processes and any failures:   *)
(* the counters and states it keeps, that a run which returns has reaped   *)
(* its children, that one which was not aborted left no stage out, and that*)
(* manifests and results are those of one input while nothing is contested.*)
(***************************************************************************)
EXTENDS StageChain, FiniteSetTheorems, WellFoundedInduction, TLAPS

Enabled(c, s) == \A d \in after[s] : stage[c][d] = "succeeded"

(* A stage that was started came after stages that have succeeded.         *)
InOrder(c) == \A s \in Stages : stage[c][s] # "waiting" => Enabled(c, s)

(* What the places in run_chain say about the stage at hand and its entry. *)
Restoring(c) ==
  phase[c] = "restore" =>
    /\ at[c] \in Stages /\ stage[c][at[c]] = "waiting" /\ Enabled(c, at[c])
    /\ copied[c] < Outputs /\ Entry(c) \in DOMAIN cache
StoringSound(c) ==
  /\ Storing(c) => at[c] \in Stages /\ stage[c][at[c]] = "succeeded"
  /\ phase[c] = "write" => copied[c] < Outputs
  /\ phase[c] = "write" \/ (phase[c] = "store" /\ copied[c] > 0) =>
       Entry(c) \in DOMAIN cache
Elsewhere(c) ==
  /\ phase[c] \in {"idle", "launch", "wait", "returned"} => copied[c] = 0
  /\ phase[c] = "wait" => at[c] = 0

(* Stages only come after earlier ones, so the launch loop never has to go *)
(* back: what it has passed and not started is waiting for something.      *)
Blocked(c, s) == stage[c][s] = "waiting" => ~Enabled(c, s)
Passed(c) ==
  phase[c] \in {"launch", "restore"} /\ ~aborted[c] =>
    \A s \in Stages : s < at[c] => Blocked(c, s)
FailuresAbort(c) == (\E s \in Stages : stage[c][s] = "failed") => aborted[c]
Finished(c) ==
  phase[c] = "returned" =>
    Running(c) = {} /\ (~aborted[c] => \A s \in Stages : Blocked(c, s))

CInv(c) == /\ InOrder(c) /\ Restoring(c) /\ StoringSound(c) /\ Elsewhere(c)
           /\ Passed(c) /\ FailuresAbort(c) /\ Finished(c)
RInv == TypeOK /\ \A c \in Chains : CInv(c)

-----------------------------------------------------------------------------
(* A key depends on the input and on the outputs of the stages it reads.   *)
LEMMA SameKey ==
  ASSUME NEW c \in Chains, NEW s \in Stages, input'[c] = input[c],
         \A d \in reads[s] : file'[c][d] = file[c][d]
  PROVE  Key(c, s)' = Key(c, s)
<1>1. \A d \in reads[s] : Identity(c, d)' = Identity(c, d)
  BY DEF Identity
<1>2. {<<d, Identity(c, d)'>> : d \in reads[s]} = {<<d, Identity(c, d)>> : d \in reads[s]}
  BY <1>1, Zenon
<1>3. QED
  BY <1>2 DEF Key

(* What a step leaves alone of one chain stays sound, however the cache    *)
(* grows.                                                                  *)
LEMMA Untouched ==
  ASSUME RInv, NEW c \in Chains,
         phase'[c] = phase[c], input'[c] = input[c], at'[c] = at[c],
         copied'[c] = copied[c], stage'[c] = stage[c], aborted'[c] = aborted[c],
         file'[c] = file[c], DOMAIN cache \subseteq DOMAIN cache'
  PROVE  CInv(c)'
<1>1. CInv(c)
  BY DEF RInv
<1>2. at[c] \in Stages => Entry(c)' = Entry(c)
  <2>1. at[c] \in Stages => Key(c, at[c])' = Key(c, at[c])
    <3> SUFFICES ASSUME at[c] \in Stages PROVE Key(c, at[c])' = Key(c, at[c])
      OBVIOUS
    <3> DEFINE s == at[c]
    <3>1. {<<d, Identity(c, d)'>> : d \in reads[s]} = {<<d, Identity(c, d)>> : d \in reads[s]}
      BY DEF Identity
    <3>2. QED
      BY <3>1 DEF Key
  <2>2. QED
    BY <2>1 DEF Entry
<1>3. InOrder(c)' /\ Restoring(c)' /\ StoringSound(c)' /\ Elsewhere(c)'
  BY <1>1, <1>2 DEF CInv, InOrder, Enabled, Restoring, StoringSound, Elsewhere, Storing
<1>4. Passed(c)' /\ FailuresAbort(c)' /\ Finished(c)'
  BY <1>1 DEF CInv, Passed, Blocked, Enabled, FailuresAbort, Finished, Running
<1>5. QED
  BY <1>3, <1>4 DEF CInv

(* A step of one chain.                                                    *)
OnlyOf(c) ==
  \A d \in Chains \ {c} :
    /\ phase'[d] = phase[d] /\ input'[d] = input[d] /\ at'[d] = at[d]
    /\ copied'[d] = copied[d] /\ stage'[d] = stage[d] /\ aborted'[d] = aborted[d]
    /\ file'[d] = file[d]

LEMMA OneChain ==
  ASSUME RInv, NEW c \in Chains, OnlyOf(c), TypeOK', CInv(c)',
         DOMAIN cache \subseteq DOMAIN cache'
  PROVE  RInv'
<1>1. \A d \in Chains \ {c} : CInv(d)'
  BY Untouched DEF OnlyOf
<1>2. QED
  BY <1>1 DEF RInv

(* The types of one chain, and of the chain as a part of TypeOK.           *)
LEMMA ChainTyped ==
  ASSUME RInv, NEW c \in Chains
  PROVE  /\ phase[c] \in {"idle", "launch", "restore", "wait", "store", "write", "returned"}
         /\ runs[c] \in 0 .. Runs /\ input[c] \in Inputs \cup {Absent} /\ at[c] \in Nat
         /\ copied[c] \in 0 .. Outputs /\ aborted[c] \in BOOLEAN
         /\ \A s \in Stages : stage[c][s] \in {"waiting", "running", "exited", "broken",
                                               "succeeded", "failed"}
         /\ \A s \in Stages, f \in Files : file[c][s][f] \in Contents \cup {Absent}
         /\ Outputs \in Nat \ {0} /\ Stages \subseteq Nat
  BY OutputsAssumption, RecipeAssumption DEF RInv, TypeOK

LEMMA BlankTyped == Blank \in [Stages -> [Files -> Contents \cup {Absent}]]
  BY DEF Blank

(* A chain whose stages all wait, outside of restoring and storing.        *)
LEMMA FreshSound ==
  ASSUME RInv, NEW c \in Chains, Fresh(c), phase'[c] \in {"idle", "launch"}
  PROVE  CInv(c)'
<1>1. /\ at'[c] = 0 /\ copied'[c] = 0 /\ \A s \in Stages : stage'[c][s] = "waiting"
  BY DEF Fresh, RInv, TypeOK
<1>2. QED
  BY <1>1, RecipeAssumption DEF CInv, InOrder, Restoring, StoringSound, Storing, Elsewhere,
     Passed, FailuresAbort, Finished

LEMMA InitSound == Init => RInv
<1> SUFFICES ASSUME Init PROVE RInv
  OBVIOUS
<1>1. TypeOK
  BY BlankTyped, OutputsAssumption DEF Init, TypeOK
<1>2. ASSUME NEW c \in Chains PROVE CInv(c)
  BY RecipeAssumption DEF Init, CInv, InOrder, Restoring, StoringSound, Storing, Elsewhere,
     Passed, FailuresAbort, Finished
<1>3. QED
  BY <1>1, <1>2 DEF RInv

LEMMA CallKeeps ==
  ASSUME RInv, NEW c \in Chains, NEW v \in Inputs, Call(c, v) PROVE RInv'
<1>1. OnlyOf(c) /\ cache' = cache /\ phase'[c] = "launch"
  BY DEF Call, Fresh, OnlyOf, cacheVars, RInv, TypeOK
<1>2. TypeOK'
  <2>1. runs' \in [Chains -> 0 .. Runs]
    BY OutputsAssumption DEF RInv, TypeOK, Call
  <2>2. /\ phase' \in [Chains -> {"idle", "launch", "restore", "wait", "store", "write",
                                  "returned"}]
        /\ input' \in [Chains -> Inputs \cup {Absent}]
    BY DEF RInv, TypeOK, Call
  <2>3. /\ at' \in [Chains -> Nat] /\ copied' \in [Chains -> 0 .. Outputs]
        /\ stage' \in [Chains -> [Stages -> {"waiting", "running", "exited", "broken",
                                             "succeeded", "failed"}]]
        /\ aborted' \in [Chains -> BOOLEAN]
        /\ file' \in [Chains -> [Stages -> [Files -> Contents \cup {Absent}]]]
    BY BlankTyped, OutputsAssumption DEF RInv, TypeOK, Call, Fresh
  <2>4. QED
    BY <2>1, <2>2, <2>3 DEF RInv, TypeOK, Call, cacheVars
<1>3. CInv(c)'
  BY <1>1, FreshSound DEF Call
<1>4. QED
  BY <1>1, <1>2, <1>3, OneChain

LEMMA CutShortKeeps == ASSUME RInv, NEW c \in Chains, CutShort(c) PROVE RInv'
<1>1. OnlyOf(c) /\ cache' = cache /\ phase'[c] = "idle"
  BY DEF CutShort, Fresh, OnlyOf, cacheVars, RInv, TypeOK
<1>2. TypeOK'
  <2>1. /\ phase' \in [Chains -> {"idle", "launch", "restore", "wait", "store", "write",
                                  "returned"}]
        /\ input' \in [Chains -> Inputs \cup {Absent}]
    BY DEF RInv, TypeOK, CutShort
  <2>2. /\ at' \in [Chains -> Nat] /\ copied' \in [Chains -> 0 .. Outputs]
        /\ stage' \in [Chains -> [Stages -> {"waiting", "running", "exited", "broken",
                                             "succeeded", "failed"}]]
        /\ aborted' \in [Chains -> BOOLEAN]
        /\ file' \in [Chains -> [Stages -> [Files -> Contents \cup {Absent}]]]
    BY BlankTyped, OutputsAssumption DEF RInv, TypeOK, CutShort, Fresh
  <2>3. QED
    BY <2>1, <2>2 DEF RInv, TypeOK, CutShort, cacheVars
<1>3. CInv(c)'
  BY <1>1, FreshSound DEF CutShort
<1>4. QED
  BY <1>1, <1>2, <1>3, OneChain

-----------------------------------------------------------------------------
(* The stages before the next one to start are all blocked.                *)
LEMMA PassedUpTo ==
  ASSUME RInv, NEW c \in Chains, phase[c] = "launch", NEW s \in Stages, IsNext(c, s)
  PROVE  /\ stage[c][s] = "waiting" /\ Enabled(c, s) /\ ~aborted[c]
         /\ \A r \in Stages : r < s => Blocked(c, r)
<1>1. s \in Ready(c) /\ \A r \in Ready(c) : s <= r
  BY DEF IsNext
<1>2. ~aborted[c] /\ stage[c][s] = "waiting" /\ Enabled(c, s)
  BY <1>1 DEF Ready, Enabled
<1>3. ASSUME NEW r \in Stages, r < s PROVE Blocked(c, r)
  <2>1. CASE r < at[c]
    BY <1>2, <2>1 DEF RInv, CInv, Passed
  <2>2. CASE ~(r < at[c])
    <3>1. r >= at[c] /\ ~(s <= r)
      BY <1>3, <2>2, ChainTyped
    <3>2. r \notin Ready(c)
      BY <1>1, <3>1
    <3>3. QED
      BY <1>2, <3>1, <3>2 DEF Ready, Blocked, Enabled
  <2>3. QED
    BY <2>1, <2>2
<1>4. QED
  BY <1>2, <1>3

LEMMA RestoreKeeps ==
  ASSUME RInv, NEW c \in Chains, NEW s \in Stages, Restore(c, s) PROVE RInv'
<1>1. /\ OnlyOf(c) /\ cache' = cache /\ phase[c] = "launch" /\ phase'[c] = "restore"
      /\ at'[c] = s /\ UNCHANGED <<input, copied, stage, aborted, file>>
  BY DEF Restore, OnlyOf, cacheVars, RInv, TypeOK
<1>2. TypeOK'
  BY ChainTyped DEF RInv, TypeOK, Restore, cacheVars
<1>3. /\ stage[c][s] = "waiting" /\ Enabled(c, s) /\ ~aborted[c]
      /\ \A r \in Stages : r < s => Blocked(c, r)
  BY PassedUpTo DEF Restore
<1>4. Key(c, s) \in DOMAIN cache
  BY DEF Restore, Restorable, RInv, TypeOK
<1>5. Entry(c)' = Key(c, s)
  <2>1. {<<d, Identity(c, d)'>> : d \in reads[s]} = {<<d, Identity(c, d)>> : d \in reads[s]}
    BY <1>1 DEF Identity
  <2>2. QED
    BY <1>1, <2>1 DEF Entry, Key
<1>6. copied[c] = 0 /\ Outputs > 0
  BY <1>1, ChainTyped DEF RInv, CInv, Elsewhere
<1>7. CInv(c)'
  BY <1>1, <1>3, <1>4, <1>5, <1>6 DEF RInv, CInv, InOrder, Enabled, Restoring, StoringSound,
     Storing, Elsewhere, Passed, Blocked, FailuresAbort, Finished
<1>8. QED
  BY <1>1, <1>2, <1>7, OneChain

LEMMA ForkKeeps ==
  ASSUME RInv, NEW c \in Chains, NEW s \in Stages, Fork(c, s) PROVE RInv'
<1>1. /\ OnlyOf(c) /\ cache' = cache /\ phase[c] = "launch" /\ phase' = phase
      /\ at'[c] = s + 1 /\ UNCHANGED <<input, copied, aborted, file>>
      /\ stage'[c][s] = "running"
      /\ \A r \in Stages \ {s} : stage'[c][r] = stage[c][r]
  BY DEF Fork, OnlyOf, cacheVars, RInv, TypeOK
<1>2. TypeOK'
  BY ChainTyped DEF RInv, TypeOK, Fork, cacheVars
<1>3. /\ stage[c][s] = "waiting" /\ Enabled(c, s) /\ ~aborted[c]
      /\ \A r \in Stages : r < s => Blocked(c, r)
  BY PassedUpTo DEF Fork
<1>4. \A r \in Stages : Enabled(c, r)' = Enabled(c, r)
  <2> SUFFICES ASSUME NEW r \in Stages, NEW d \in after[r]
      PROVE (stage'[c][d] = "succeeded") = (stage[c][d] = "succeeded")
    BY DEF Enabled
  <2>1. d \in Stages
    BY RecipeAssumption
  <2>2. QED
    BY <1>1, <1>3, <2>1
<1>5. \A r \in Stages : r < s + 1 => r < s \/ r = s
  BY ChainTyped
<1>6. InOrder(c)' /\ Passed(c)' /\ FailuresAbort(c)'
  BY <1>1, <1>3, <1>4, <1>5 DEF RInv, CInv, InOrder, Passed, Blocked, FailuresAbort
<1>7. CInv(c)'
  BY <1>1, <1>6 DEF RInv, CInv, Restoring, StoringSound, Storing, Elsewhere, Finished
<1>8. QED
  BY <1>1, <1>2, <1>7, OneChain

-----------------------------------------------------------------------------
LEMMA Remainder == ASSUME NEW a \in Nat, NEW n \in Nat, a < n PROVE a % n = a
  BY SMT
LEMMA NoRemainder == ASSUME NEW n \in Nat \ {0} PROVE n % n = 0
  BY SMT

(* The key of the stage at hand does not depend on what changes: the files *)
(* of a stage which is neither at hand nor one of those it reads.          *)
LEMMA EntryStands ==
  ASSUME RInv, NEW c \in Chains, NEW s \in Stages, at[c] \in Stages,
         at'[c] = at[c], input'[c] = input[c],
         \A d \in Stages \ {s} : file'[c][d] = file[c][d],
         s \notin after[at[c]]
  PROVE  Entry(c)' = Entry(c)
<1>1. reads[at[c]] \subseteq Stages \ {s}
  BY RecipeAssumption
<1>2. {<<d, Identity(c, d)'>> : d \in reads[at[c]]} = {<<d, Identity(c, d)>> : d \in reads[at[c]]}
  BY <1>1 DEF Identity
<1>3. QED
  BY <1>2 DEF Entry, Key

LEMMA RestoreFileKeeps == ASSUME RInv, NEW c \in Chains, RestoreFile(c) PROVE RInv'
<1> DEFINE s == at[c]
           f == copied[c] + 1
<1>1. /\ s \in Stages /\ stage[c][s] = "waiting" /\ Enabled(c, s) /\ s \in Nat
      /\ copied[c] \in Nat /\ copied[c] < Outputs /\ Outputs \in Nat \ {0}
      /\ Entry(c) \in DOMAIN cache /\ phase[c] = "restore" /\ f \in Files
  BY ChainTyped DEF RestoreFile, RInv, CInv, Restoring, Files
<1>2. /\ OnlyOf(c) /\ cache' = cache /\ UNCHANGED <<runs, input, aborted, manifest, contested>>
      /\ \A d \in Stages \ {s} : file'[c][d] = file[c][d]
      /\ copied'[c] = f % Outputs
  BY DEF RestoreFile, OnlyOf, cacheVars, RInv, TypeOK
<1>3. s \notin after[s] /\ \A r \in Stages : r < s => s \notin after[r]
  <2>1. \A r \in Stages : r \in Nat /\ \A d \in after[r] : d < r
    BY RecipeAssumption
  <2> HIDE DEF s
  <2>2. QED
    BY <1>1, <2>1
<1>4. file' \in [Chains -> [Stages -> [Files -> Contents \cup {Absent}]]]
  <2>1. cache[Key(c, s)][f] \in Contents \cup {Absent}
    BY <1>1 DEF RInv, TypeOK, Entry
  <2>2. file' = [file EXCEPT ![c][s][f] = cache[Key(c, s)][f]]
    BY DEF RestoreFile
  <2>3. QED
    BY <1>1, <2>1, <2>2 DEF RInv, TypeOK
<1>5. CASE f < Outputs
  <2>1. copied'[c] = f /\ copied' \in [Chains -> 0 .. Outputs]
    <3>1. copied' = [copied EXCEPT ![c] = f % Outputs] /\ f % Outputs = f
      BY <1>1, <1>5, Remainder DEF RestoreFile
    <3>2. QED
      BY <1>1, <1>5, <3>1 DEF RInv, TypeOK
  <2>2. UNCHANGED <<phase, at, stage>>
    BY <1>5 DEF RestoreFile
  <2>3. TypeOK'
    BY <1>2, <1>4, <2>1, <2>2 DEF RInv, TypeOK
  <2>4. Entry(c)' = Entry(c)
    BY <1>1, <1>2, <1>3, <2>2, EntryStands
  <2>5. CInv(c)'
    BY <1>1, <1>2, <1>5, <2>1, <2>2, <2>4 DEF RInv, CInv, InOrder, Enabled, Restoring,
       StoringSound, Storing, Elsewhere, Passed, Blocked, FailuresAbort, Finished
  <2>6. QED
    BY <1>2, <2>3, <2>5, OneChain
<1>6. CASE ~(f < Outputs)
  <2>1. f = Outputs
    BY <1>1, <1>6
  <2>2. copied'[c] = 0 /\ copied' \in [Chains -> 0 .. Outputs]
    <3>1. copied' = [copied EXCEPT ![c] = f % Outputs] /\ f % Outputs = 0
      BY <1>1, <2>1, NoRemainder DEF RestoreFile
    <3>2. QED
      BY <1>1, <3>1 DEF RInv, TypeOK
  <2>3. /\ stage' = [stage EXCEPT ![c][s] = "succeeded"]
        /\ phase' = [phase EXCEPT ![c] = "launch"]
        /\ at' = [at EXCEPT ![c] = s + 1]
    BY <1>6 DEF RestoreFile, Hit
  <2>4. /\ phase'[c] = "launch" /\ at'[c] = s + 1 /\ stage'[c][s] = "succeeded"
        /\ \A r \in Stages \ {s} : stage'[c][r] = stage[c][r]
    BY <1>1, <2>3 DEF RInv, TypeOK
  <2>5. TypeOK'
    BY <1>1, <1>2, <1>4, <2>2, <2>3 DEF RInv, TypeOK
  <2>6. \A r \in Stages : Enabled(c, r) => Enabled(c, r)'
    <3> SUFFICES ASSUME NEW r \in Stages, NEW d \in after[r], stage[c][d] = "succeeded"
        PROVE stage'[c][d] = "succeeded"
      BY DEF Enabled
    <3>1. d \in Stages
      BY RecipeAssumption
    <3>2. QED
      BY <2>4, <3>1
  <2>7. \A r \in Stages : r < s => (Enabled(c, r)' => Enabled(c, r))
    <3> SUFFICES ASSUME NEW r \in Stages, r < s, NEW d \in after[r],
                        stage'[c][d] = "succeeded"
        PROVE stage[c][d] = "succeeded"
      BY DEF Enabled
    <3>1. d \in Stages /\ d # s
      BY <1>3, RecipeAssumption
    <3>2. QED
      BY <2>4, <3>1
  <2>8. \A r \in Stages : r < s + 1 => r < s \/ r = s
    BY <1>1, ChainTyped
  <2>9. InOrder(c)' /\ Passed(c)' /\ FailuresAbort(c)'
    <3>1. InOrder(c)'
      BY <1>1, <2>4, <2>6 DEF RInv, CInv, InOrder
    <3>2. Passed(c)'
      BY <1>1, <1>2, <2>4, <2>7, <2>8 DEF RInv, CInv, Passed, Blocked
    <3>3. FailuresAbort(c)'
      BY <1>2, <2>4 DEF RInv, CInv, FailuresAbort
    <3>4. QED
      BY <3>1, <3>2, <3>3
  <2>10. CInv(c)'
    BY <2>2, <2>4, <2>9 DEF CInv, Restoring, StoringSound, Storing, Elsewhere, Finished
  <2>11. QED
    BY <1>2, <2>5, <2>10, OneChain
<1>7. QED
  BY <1>5, <1>6

LEMMA EndLaunchKeeps == ASSUME RInv, NEW c \in Chains, EndLaunch(c) PROVE RInv'
<1>1. /\ OnlyOf(c) /\ cache' = cache /\ phase[c] = "launch" /\ at'[c] = 0
      /\ UNCHANGED <<input, copied, stage, aborted, file>>
      /\ phase'[c] = IF Running(c) = {} THEN "returned" ELSE "wait"
  BY DEF EndLaunch, NothingRuns, OnlyOf, cacheVars, RInv, TypeOK
<1>2. TypeOK'
  BY DEF RInv, TypeOK, EndLaunch, cacheVars
<1>3. ~aborted[c] => \A s \in Stages : Blocked(c, s)
  <2> SUFFICES ASSUME ~aborted[c], NEW s \in Stages PROVE Blocked(c, s)
    OBVIOUS
  <2>1. CASE s < at[c]
    BY <1>1, <2>1 DEF RInv, CInv, Passed
  <2>2. CASE ~(s < at[c])
    <3>1. s >= at[c] /\ s \notin Ready(c)
      BY <2>2, ChainTyped DEF EndLaunch
    <3>2. QED
      BY <3>1 DEF Ready, Blocked, Enabled
  <2>3. QED
    BY <2>1, <2>2
<1>4. CInv(c)'
  <2>1. Running(c)' = Running(c) /\ \A s \in Stages : Blocked(c, s)' = Blocked(c, s)
    BY <1>1 DEF Running, Blocked, Enabled
  <2>2. QED
    BY <1>1, <1>3, <2>1 DEF RInv, CInv, InOrder, Enabled, Restoring, StoringSound, Storing,
       Elsewhere, Passed, FailuresAbort, Finished
<1>5. QED
  BY <1>1, <1>2, <1>4, OneChain

-----------------------------------------------------------------------------
LEMMA ComputedTyped ==
  ASSUME RInv, NEW c \in Chains, NEW s \in Stages
  PROVE  Computed(c, s) \in Contents \cup {Absent}
<1> DEFINE read == IF reads[s] = {} THEN {input[c]}
                   ELSE UNION {{file[c][d][f] : f \in Files} : d \in reads[s]}
<1>1. read \subseteq Contents \cup {Absent}
  BY ChainTyped, RecipeAssumption DEF Contents
<1>2. Cardinality(read) = 1 => read # {}
  BY FS_EmptySet
<1>3. Computed(c, s) = IF Cardinality(read) = 1 THEN CHOOSE x \in read : TRUE ELSE Torn
  BY DEF Computed
<1> HIDE DEF read
<1>4. QED
  BY <1>1, <1>2, <1>3 DEF Contents

(* A child ends in its own time, with whatever it leaves in its files:     *)
(* nothing run_chain relies on is about a stage that still runs.           *)
LEMMA ChildEndKeeps ==
  ASSUME RInv, NEW c \in Chains, NEW s \in Stages, stage[c][s] = "running",
         NEW end \in {"exited", "broken"}, NEW x \in Contents \cup {Absent},
         stage' = [stage EXCEPT ![c][s] = end],
         file' = [file EXCEPT ![c][s] = [f \in Files |-> x]],
         UNCHANGED <<phase, runs, input, at, copied, aborted, cacheVars>>
  PROVE  RInv'
<1>1. /\ OnlyOf(c) /\ cache' = cache /\ stage'[c][s] = end
      /\ \A d \in Stages \ {s} : file'[c][d] = file[c][d] /\ stage'[c][d] = stage[c][d]
  BY DEF OnlyOf, cacheVars, RInv, TypeOK
<1>2. TypeOK'
  BY DEF RInv, TypeOK, cacheVars
<1>3. \A r \in Stages : Enabled(c, r)' = Enabled(c, r)
  <2> SUFFICES ASSUME NEW r \in Stages, NEW d \in after[r]
      PROVE (stage'[c][d] = "succeeded") = (stage[c][d] = "succeeded")
    BY DEF Enabled
  <2>1. d \in Stages
    BY RecipeAssumption
  <2>2. QED
    BY <1>1, <2>1
<1>4. Restoring(c)' /\ StoringSound(c)'
  <2>1. ASSUME at[c] \in Stages, Enabled(c, at[c]) PROVE Entry(c)' = Entry(c)
    <3>1. s \notin after[at[c]]
      BY <2>1 DEF Enabled
    <3>2. QED
      BY <1>1, <2>1, <3>1, EntryStands
  <2>2. Storing(c) => at[c] \in Stages /\ Enabled(c, at[c])
    BY DEF RInv, CInv, StoringSound, InOrder
  <2>3. at[c] \in Stages /\ stage[c][at[c]] \in {"waiting", "succeeded"} =>
          stage'[c][at[c]] = stage[c][at[c]]
    BY <1>1
  <2>4. Restoring(c)'
    BY <1>1, <1>3, <2>1, <2>3 DEF RInv, CInv, Restoring
  <2>5. StoringSound(c)'
    BY <1>1, <2>1, <2>2, <2>3 DEF RInv, CInv, StoringSound, Storing
  <2>6. QED
    BY <2>4, <2>5
<1>5. CInv(c)'
  <2>1. InOrder(c)' /\ Passed(c)' /\ FailuresAbort(c)' /\ Elsewhere(c)'
    BY <1>1, <1>3 DEF RInv, CInv, InOrder, Passed, Blocked, FailuresAbort, Elsewhere
  <2>2. phase[c] # "returned"
    BY DEF RInv, CInv, Finished, Running
  <2>3. QED
    BY <1>4, <2>1, <2>2 DEF CInv, Finished
<1>6. QED
  BY <1>1, <1>2, <1>5, OneChain

LEMMA EndsKeeps == ASSUME RInv, NEW c \in Chains, NEW s \in Stages, Ends(c, s) PROVE RInv'
<1>1. CASE Exit(c, s)
  <2>1. Computed(c, s) \in Contents \cup {Absent}
    BY ComputedTyped
  <2>2. QED
    BY <1>1, <2>1, ChildEndKeeps DEF Exit
<1>2. CASE Break(c, s)
  BY <1>2, ChildEndKeeps DEF Break, Contents
<1>3. QED
  BY <1>1, <1>2 DEF Ends

LEMMA WaitKeeps == ASSUME RInv, NEW c \in Chains, NEW s \in Stages, Wait(c, s) PROVE RInv'
<1>1. /\ OnlyOf(c) /\ cache' = cache /\ phase[c] = "wait"
      /\ stage[c][s] \in {"exited", "broken"}
      /\ stage'[c][s] = Reaped(c, s)
      /\ \A d \in Stages \ {s} : stage'[c][d] = stage[c][d]
      /\ aborted'[c] = (aborted[c] \/ stage[c][s] = "broken")
      /\ UNCHANGED <<runs, input, copied, file, cacheVars>>
      /\ \/ /\ phase'[c] = "store" /\ at'[c] = s /\ stage[c][s] = "exited"
         \/ phase'[c] = "launch" /\ at'[c] = at[c]
  BY DEF Wait, OnlyOf, cacheVars, RInv, TypeOK
<1>2. Reaped(c, s) = "succeeded" \/ (Reaped(c, s) = "failed" /\ stage[c][s] = "broken")
  BY <1>1 DEF Reaped
<1>3. TypeOK'
  <2>1. aborted' \in [Chains -> BOOLEAN]
    <3> DEFINE b == aborted[c] \/ stage[c][s] = "broken"
    <3>1. b \in BOOLEAN
      OBVIOUS
    <3> HIDE DEF b
    <3>2. aborted' = [aborted EXCEPT ![c] = b]
      BY DEF Wait, b
    <3>3. QED
      BY <3>1, <3>2 DEF RInv, TypeOK
  <2>2. /\ at' \in [Chains -> Nat]
        /\ phase' \in [Chains -> {"idle", "launch", "restore", "wait", "store", "write",
                                  "returned"}]
    <3>1. s \in Nat
      BY RecipeAssumption
    <3>2. CASE phase' = [phase EXCEPT ![c] = "store"] /\ at' = [at EXCEPT ![c] = s]
      BY <3>1, <3>2 DEF RInv, TypeOK
    <3>3. CASE phase' = [phase EXCEPT ![c] = "launch"] /\ at' = at
      BY <3>3 DEF RInv, TypeOK
    <3>4. QED
      BY <3>2, <3>3 DEF Wait
  <2>3. stage' \in [Chains -> [Stages -> {"waiting", "running", "exited", "broken",
                                         "succeeded", "failed"}]]
    BY <1>2 DEF RInv, TypeOK, Wait
  <2>4. QED
    BY <1>1, <2>1, <2>2, <2>3 DEF RInv, TypeOK, cacheVars
<1>4. \A r \in Stages : Enabled(c, r) => Enabled(c, r)'
  <2> SUFFICES ASSUME NEW r \in Stages, NEW d \in after[r], stage[c][d] = "succeeded"
      PROVE stage'[c][d] = "succeeded"
    BY DEF Enabled
  <2>1. d \in Stages /\ d # s
    BY <1>1, RecipeAssumption
  <2>2. QED
    BY <1>1, <2>1
<1>5. InOrder(c)' /\ FailuresAbort(c)'
  <2>1. InOrder(c)'
    BY <1>1, <1>4 DEF RInv, CInv, InOrder
  <2>2. FailuresAbort(c)'
    BY <1>1, <1>2 DEF RInv, CInv, FailuresAbort
  <2>3. QED
    BY <2>1, <2>2
<1>6. copied'[c] = 0 /\ at[c] = 0 /\ \A r \in Stages : ~(r < 0)
  BY <1>1, RecipeAssumption DEF RInv, CInv, Elsewhere
<1>7. CInv(c)'
  BY <1>1, <1>2, <1>5, <1>6 DEF CInv, Restoring, StoringSound, Storing, Elsewhere, Passed,
     Finished, Reaped
<1>8. QED
  BY <1>1, <1>3, <1>7, OneChain

-----------------------------------------------------------------------------
(* Writing one file of an entry keeps what the cache holds typed.          *)
LEMMA PutTyped ==
  ASSUME RInv, NEW k, NEW f \in Files, NEW x \in Contents \cup {Absent}
  PROVE  /\ DOMAIN Put(k, f, x) = DOMAIN cache \cup {k}
         /\ \A e \in DOMAIN Put(k, f, x) : Put(k, f, x)[e] \in [Files -> Contents \cup {Absent}]
<1>1. DOMAIN Put(k, f, x) = DOMAIN cache \cup {k}
  BY DEF Put
<1>2. ASSUME NEW e \in DOMAIN cache \cup {k}
      PROVE  Put(k, f, x)[e] \in [Files -> Contents \cup {Absent}]
  <2>1. CASE e # k
    BY <2>1 DEF Put, RInv, TypeOK
  <2>2. CASE e = k /\ k \in DOMAIN cache
    <3>1. cache[k] \in [Files -> Contents \cup {Absent}]
      BY <2>2 DEF RInv, TypeOK
    <3>2. Put(k, f, x)[e] = [g \in Files |-> IF g = f THEN x ELSE cache[k][g]]
      BY <2>2 DEF Put
    <3>3. QED
      BY <3>1, <3>2
  <2>3. CASE e = k /\ k \notin DOMAIN cache
    <3>1. Put(k, f, x)[e] = [g \in Files |-> IF g = f THEN x ELSE Absent]
      BY <2>3 DEF Put
    <3>2. QED
      BY <3>1
  <2>4. QED
    BY <2>1, <2>2, <2>3
<1>3. QED
  BY <1>1, <1>2

LEMMA TruncateKeeps == ASSUME RInv, NEW c \in Chains, Truncate(c) PROVE RInv'
<1>1. /\ OnlyOf(c) /\ phase[c] = "store" /\ phase'[c] = "write"
      /\ UNCHANGED <<runs, input, at, copied, stage, aborted, file, manifest>>
      /\ cache' = Put(Entry(c), copied[c] + 1, Torn)
  BY DEF Truncate, OnlyOf, RInv, TypeOK
<1>2. copied[c] < Outputs /\ copied[c] + 1 \in Files
  BY ChainTyped DEF Truncate, MoreToStore, Files
<1>3. /\ DOMAIN cache' = DOMAIN cache \cup {Entry(c)}
      /\ \A k \in DOMAIN cache' : cache'[k] \in [Files -> Contents \cup {Absent}]
  BY <1>1, <1>2, PutTyped DEF Contents
<1>4. contested' \subseteq DOMAIN cache'
  BY <1>3 DEF Truncate, RInv, TypeOK
<1>5. TypeOK'
  <2>1. phase' \in [Chains -> {"idle", "launch", "restore", "wait", "store", "write",
                               "returned"}]
    BY DEF RInv, TypeOK, Truncate
  <2>2. QED
    BY <1>1, <1>3, <1>4, <2>1 DEF RInv, TypeOK
<1>6. Entry(c)' = Entry(c)
  BY <1>1 DEF Entry, Key, Identity
<1>7. CInv(c)'
  BY <1>1, <1>2, <1>3, <1>6 DEF RInv, CInv, InOrder, Enabled, Restoring, StoringSound,
     Storing, Elsewhere, Passed, FailuresAbort, Finished
<1>8. QED
  BY <1>1, <1>3, <1>5, <1>7, OneChain

LEMMA WriteKeeps == ASSUME RInv, NEW c \in Chains, Write(c) PROVE RInv'
<1>1. /\ OnlyOf(c) /\ phase[c] = "write" /\ phase'[c] = "store"
      /\ UNCHANGED <<runs, input, at, stage, aborted, file, manifest, contested>>
      /\ copied'[c] = copied[c] + 1
      /\ cache' = Put(Entry(c), copied[c] + 1, file[c][at[c]][copied[c] + 1])
  BY DEF Write, OnlyOf, RInv, TypeOK
<1>2. /\ at[c] \in Stages /\ stage[c][at[c]] = "succeeded" /\ copied[c] \in Nat
      /\ copied[c] < Outputs /\ copied[c] + 1 \in Files /\ copied[c] + 1 \in 0 .. Outputs
  BY <1>1, ChainTyped DEF RInv, CInv, StoringSound, Storing, Files
<1>3. /\ DOMAIN cache' = DOMAIN cache \cup {Entry(c)}
      /\ \A k \in DOMAIN cache' : cache'[k] \in [Files -> Contents \cup {Absent}]
  <2> DEFINE x == file[c][at[c]][copied[c] + 1]
             f == copied[c] + 1
  <2>1. x \in Contents \cup {Absent} /\ f \in Files /\ cache' = Put(Entry(c), f, x)
    BY <1>1, <1>2, ChainTyped
  <2> HIDE DEF x, f
  <2>2. QED
    BY <2>1, PutTyped
<1>4. TypeOK'
  <2>1. /\ phase' \in [Chains -> {"idle", "launch", "restore", "wait", "store", "write",
                                  "returned"}]
        /\ copied' \in [Chains -> 0 .. Outputs]
    BY <1>2 DEF RInv, TypeOK, Write
  <2>2. QED
    BY <1>1, <1>3, <2>1 DEF RInv, TypeOK
<1>5. Entry(c)' = Entry(c)
  BY <1>1 DEF Entry, Key, Identity
<1>6. CInv(c)'
  BY <1>1, <1>2, <1>3, <1>5 DEF RInv, CInv, InOrder, Enabled, Restoring, StoringSound,
     Storing, Elsewhere, Passed, FailuresAbort, Finished
<1>7. QED
  BY <1>1, <1>3, <1>4, <1>6, OneChain

(* Storing ends, with a manifest or without.                               *)
LEMMA StoredKeeps ==
  ASSUME RInv, NEW c \in Chains, Storing(c), cache' = cache, contested' = contested,
         manifest' \subseteq DOMAIN cache,
         phase' = [phase EXCEPT ![c] = "launch"],
         at' = [at EXCEPT ![c] = 0], copied' = [copied EXCEPT ![c] = 0],
         UNCHANGED <<runs, input, stage, aborted, file>>
  PROVE  RInv'
<1>1. /\ OnlyOf(c) /\ phase'[c] = "launch" /\ at'[c] = 0 /\ copied'[c] = 0
  BY DEF OnlyOf, RInv, TypeOK
<1>2. TypeOK'
  BY OutputsAssumption DEF RInv, TypeOK
<1>3. \A s \in Stages : ~(s < 0)
  BY RecipeAssumption
<1>4. CInv(c)'
  BY <1>1, <1>3 DEF RInv, CInv, InOrder, Enabled, Restoring, StoringSound, Storing,
     Elsewhere, Passed, FailuresAbort, Finished
<1>5. QED
  BY <1>1, <1>2, <1>4, OneChain

LEMMA PublishKeeps == ASSUME RInv, NEW c \in Chains, Publish(c) PROVE RInv'
<1>1. Storing(c) /\ phase[c] = "store" /\ copied[c] > 0
  BY ChainTyped DEF Publish, AllStored, Storing
<1>2. Entry(c) \in DOMAIN cache
  BY <1>1 DEF RInv, CInv, StoringSound
<1>3. manifest' \subseteq DOMAIN cache
  BY <1>2 DEF Publish, RInv, TypeOK
<1>4. QED
  BY <1>1, <1>3, StoredKeeps DEF Publish

LEMMA StoreFailsKeeps == ASSUME RInv, NEW c \in Chains, StoreFails(c) PROVE RInv'
<1>1. manifest' \subseteq DOMAIN cache
  BY DEF StoreFails, RInv, TypeOK, cacheVars
<1>2. QED
  BY <1>1, StoredKeeps DEF StoreFails, cacheVars

-----------------------------------------------------------------------------
LEMMA NextKeeps == ASSUME RInv, [Next]_vars PROVE RInv'
<1>1. CASE UNCHANGED vars
  <2>1. TypeOK'
    BY <1>1 DEF RInv, TypeOK, vars, chainVars, cacheVars
  <2>2. \A c \in Chains : CInv(c)'
    BY <1>1, Untouched DEF vars, chainVars, cacheVars
  <2>3. QED
    BY <2>1, <2>2 DEF RInv
<1>2. CASE Next
  <2>1. PICK c \in Chains : \/ \E v \in Inputs : Call(c, v)
                            \/ ChainStep(c)
                            \/ \E s \in Stages : Ends(c, s)
                            \/ CutShort(c)
    BY <1>2 DEF Next
  <2>2. CASE ChainStep(c)
    BY <2>2, RestoreKeeps, ForkKeeps, WaitKeeps, RestoreFileKeeps, EndLaunchKeeps,
       TruncateKeeps, WriteKeeps, PublishKeeps, StoreFailsKeeps DEF ChainStep
  <2>3. QED
    BY <2>1, <2>2, CallKeeps, EndsKeeps, CutShortKeeps
<1>3. QED
  BY <1>1, <1>2

LEMMA Inductive == Spec => []RInv
  BY InitSound, NextKeeps, PTL DEF Spec

(* run_chain: its states and counters, and that what has a manifest or was *)
(* contested is in the cache directory.                                    *)
THEOREM ChainTypeCorrect == Spec => []TypeOK
<1>1. RInv => TypeOK
  BY DEF RInv
<1>2. QED
  BY <1>1, Inductive, PTL

(* run_chain: it returns only when every child it forked has been reaped,  *)
(* whatever failed.                                                        *)
THEOREM ChildrenAreReaped == Spec => []ReturnsAlone
<1>1. RInv => ReturnsAlone
  BY DEF RInv, CInv, Finished, ReturnsAlone
<1>2. QED
  BY <1>1, Inductive, PTL

(* run_chain: a run that returns and was not aborted has started every     *)
(* stage: were some still waiting, the first of them would be waiting for  *)
(* stages that have all succeeded.                                         *)
THEOREM NoStageIsLeftOut == Spec => []CompletesAll
<1>1. ASSUME RInv, NEW c \in Chains, phase[c] = "returned", ~aborted[c], NEW s \in Stages
      PROVE  stage[c][s] = "succeeded"
  <2>1. \A r \in Stages : stage[c][r] \in {"waiting", "succeeded"}
    BY <1>1, ChainTyped DEF RInv, CInv, Finished, Running, FailuresAbort
  <2> DEFINE W == {r \in Stages : stage[c][r] = "waiting"}
  <2>2. SUFFICES ASSUME W # {} PROVE FALSE
    BY <2>1
  <2>3. PICK r \in W : \A d \in W : ~(<<d, r>> \in OpToRel(<, Nat))
    <3>1. W \subseteq Nat
      BY RecipeAssumption
    <3> HIDE DEF W
    <3>2. QED
      BY <2>2, <3>1, WFMin, NatLessThanWellFounded
  <2>4. r \in Stages /\ r \in Nat /\ \A d \in W : ~(d < r)
    BY <2>3, RecipeAssumption DEF OpToRel
  <2>5. \A d \in after[r] : d \in Stages /\ d < r
    BY <2>4, RecipeAssumption
  <2>6. Enabled(c, r)
    BY <2>1, <2>4, <2>5 DEF Enabled
  <2>7. QED
    BY <1>1, <2>3, <2>6 DEF RInv, CInv, Finished, Blocked
<1>2. RInv => CompletesAll
  BY <1>1 DEF CompletesAll
<1>3. QED
  BY <1>2, Inductive, PTL
-----------------------------------------------------------------------------
(* What the files hold.  The stages that neither are cached nor read, over *)
(* any number of stages, what a cached one produced.                       *)
Independent == UNION {T \in SUBSET (Stages \ cacheable) : \A s \in T : reads[s] \subseteq T}

(* Stages whose products can only be made from the input of their own run. *)
Pristine        == contested = {} /\ Large = {}
Trusted(s)      == s \in Independent \/ Pristine
ReadsTrusted(s) == \A d \in reads[s] : Trusted(d)

Own(c, s) == \A f \in Files : file[c][s][f] = input[c]

(* The key of stage k.stage in a run whose input is x.                     *)
Made(k, x) ==
  k.files = IF reads[k.stage] = {} THEN {<<k.stage, [f \in Files |-> x]>>}
            ELSE {<<d, [f \in Files |-> x]>> : d \in reads[k.stage]}

(* A chain that has begun to write the entry it stores.                    *)
Begun(c) == phase[c] = "write" \/ (phase[c] = "store" /\ copied[c] > 0)

InputKnown(c) ==
  /\ phase[c] = "idle" => \A s \in Stages : stage[c][s] = "waiting"
  /\ phase[c] # "idle" => input[c] \in Inputs
Computes(c) ==
  \A s \in Stages :
    /\ stage[c][s] = "exited" /\ ReadsTrusted(s) => Own(c, s)
    /\ stage[c][s] = "succeeded" /\ Trusted(s) => Own(c, s)
Restores(c) ==
  phase[c] = "restore" =>
    /\ at[c] \in cacheable /\ Entry(c) \in manifest
    /\ Trusted(at[c]) => \A f \in 1 .. copied[c] : file[c][at[c]][f] = input[c]
Stores(c) ==
  Storing(c) =>
    /\ at[c] \in cacheable
    /\ ReadsTrusted(at[c]) => Own(c, at[c])
    /\ ReadsTrusted(at[c]) /\ Entry(c) \notin contested =>
         \A f \in 1 .. copied[c] : cache[Entry(c)][f] = input[c]

(* Chains that have begun the same entry, or one that has a manifest, have *)
(* been seen to contest it.                                                *)
Alone ==
  \A c \in Chains :
    Begun(c) /\ Entry(c) \notin contested =>
      /\ Entry(c) \notin manifest
      /\ \A d \in Chains \ {c} : Begun(d) => Entry(d) # Entry(c)
Holds(k) ==
  \E x \in Inputs : /\ Pristine => Made(k, x)
                    /\ \A f \in Files : cache[k][f] = x
Published ==
  \A k \in manifest :
    /\ k.stage \in cacheable
    /\ k \notin contested /\ ReadsTrusted(k.stage) => Holds(k)

WInv == /\ \A c \in Chains : InputKnown(c) /\ Computes(c) /\ Restores(c) /\ Stores(c)
        /\ Alone /\ Published

LEMMA IndependentReads ==
  ASSUME NEW s \in Independent PROVE s \notin cacheable /\ reads[s] \subseteq Independent
<1>1. PICK T \in SUBSET (Stages \ cacheable) : s \in T /\ \A r \in T : reads[r] \subseteq T
  BY DEF Independent
<1>2. T \subseteq Independent
  BY <1>1 DEF Independent
<1>3. QED
  BY <1>1, <1>2

LEMMA TrustedReads == ASSUME NEW s, Trusted(s) PROVE ReadsTrusted(s)
  BY IndependentReads DEF Trusted, ReadsTrusted

LEMMA LessTrusted ==
  ASSUME contested \subseteq contested'
  PROVE  /\ Pristine' => Pristine
         /\ \A s : (Trusted(s)' => Trusted(s)) /\ (ReadsTrusted(s)' => ReadsTrusted(s))
<1>1. Pristine' => Pristine
  BY DEF Pristine
<1>2. \A s : Trusted(s)' => Trusted(s)
  BY <1>1 DEF Trusted
<1>3. QED
  BY <1>1, <1>2 DEF ReadsTrusted

(* What a stage reads in a chain whose started stages have their own files.*)
LEMMA OwnReads ==
  ASSUME NEW c \in Chains, NEW s \in Stages, Computes(c), Enabled(c, s), ReadsTrusted(s)
  PROVE  \A d \in reads[s] : d \in Stages /\ Own(c, d)
  BY RecipeAssumption DEF Computes, Enabled, ReadsTrusted

LEMMA ComputedOwn ==
  ASSUME NEW c \in Chains, NEW s \in Stages, Computes(c), Enabled(c, s), ReadsTrusted(s)
  PROVE  Computed(c, s) = input[c]
<1> DEFINE read == IF reads[s] = {} THEN {input[c]}
                   ELSE UNION {{file[c][d][f] : f \in Files} : d \in reads[s]}
<1>1. read = {input[c]}
  <2>1. 1 \in Files
    BY OutputsAssumption DEF Files
  <2>2. \A d \in reads[s], f \in Files : file[c][d][f] = input[c]
    BY OwnReads DEF Own
  <2>3. QED
    BY <2>1, <2>2
<1>2. Cardinality({input[c]}) = 1
  BY FS_Singleton
<1>3. Computed(c, s) = IF Cardinality(read) = 1 THEN CHOOSE x \in read : TRUE ELSE Torn
  BY DEF Computed
<1> HIDE DEF read
<1>4. QED
  BY <1>1, <1>2, <1>3

(* Digested products tell the key of which input they were made.           *)
LEMMA KeyMade ==
  ASSUME RInv, NEW c \in Chains, NEW s \in Stages, Computes(c), Enabled(c, s),
         ReadsTrusted(s), Large = {}
  PROVE  Made(Key(c, s), input[c])
<1>1. ASSUME NEW d \in reads[s] PROVE Identity(c, d) = [f \in Files |-> input[c]]
  <2>1. d \in Stages /\ Own(c, d)
    BY OwnReads
  <2>2. file[c][d] \in [Files -> Contents \cup {Absent}]
    BY <2>1 DEF RInv, TypeOK
  <2>3. QED
    BY <2>1, <2>2 DEF Identity, Own
<1>2. {<<d, Identity(c, d)>> : d \in reads[s]} = {<<d, [f \in Files |-> input[c]]>> : d \in reads[s]}
  BY <1>1
<1>3. QED
  BY <1>2 DEF Made, Key

LEMMA MadeOnce ==
  ASSUME NEW k, NEW x, NEW y, Made(k, x), Made(k, y) PROVE x = y
<1>1. [f \in Files |-> x] = [f \in Files |-> y]
  <2>1. CASE reads[k.stage] = {}
    <3>1. {<<k.stage, [f \in Files |-> x]>>} = {<<k.stage, [f \in Files |-> y]>>}
      BY <2>1 DEF Made
    <3>2. <<k.stage, [f \in Files |-> x]>> \in {<<k.stage, [f \in Files |-> y]>>}
      BY <3>1
    <3>3. <<k.stage, [f \in Files |-> x]>> = <<k.stage, [f \in Files |-> y]>>
      BY <3>2
    <3>4. QED
      BY <3>3
  <2>2. CASE reads[k.stage] # {}
    <3>1. PICK d : d \in reads[k.stage]
      BY <2>2
    <3>2. <<d, [f \in Files |-> x]>> \in {<<e, [f \in Files |-> y]>> : e \in reads[k.stage]}
      BY <2>2, <3>1 DEF Made
    <3>3. QED
      BY <3>2
  <2>3. QED
    BY <2>1, <2>2
<1>2. 1 \in Files
  BY OutputsAssumption DEF Files
<1>3. QED
  BY <1>1, <1>2

LEMMA SameEntry ==
  ASSUME NEW d, at'[d] = at[d], input'[d] = input[d], file'[d] = file[d]
  PROVE  Entry(d)' = Entry(d)
<1>1. {<<e, Identity(d, e)'>> : e \in reads[at[d]]} = {<<e, Identity(d, e)>> : e \in reads[at[d]]}
  BY DEF Identity
<1>2. QED
  BY <1>1 DEF Entry, Key

(* A step of one chain, which may write the entry it stores.               *)
LEMMA OthersOwn ==
  ASSUME RInv, WInv, NEW c \in Chains, OnlyOf(c), contested \subseteq contested',
         manifest \subseteq manifest', NEW d \in Chains \ {c},
         Begun(d) /\ Entry(d) \notin contested' => cache'[Entry(d)] = cache[Entry(d)]
  PROVE  /\ Entry(d)' = Entry(d) /\ Begun(d)' = Begun(d)
         /\ InputKnown(d)' /\ Computes(d)' /\ Restores(d)' /\ Stores(d)'
<1>1. /\ phase'[d] = phase[d] /\ input'[d] = input[d] /\ at'[d] = at[d]
      /\ copied'[d] = copied[d] /\ stage'[d] = stage[d] /\ file'[d] = file[d]
  BY DEF OnlyOf
<1>2. Entry(d)' = Entry(d)
  BY <1>1, SameEntry
<1>3. \A s : Own(d, s)' = Own(d, s)
  BY <1>1 DEF Own
<1>4. InputKnown(d)' /\ Computes(d)' /\ Restores(d)'
  BY <1>1, <1>2, <1>3, LessTrusted DEF WInv, InputKnown, Computes, Restores
<1>5. Stores(d)'
  <2>1. Storing(d)' = Storing(d)
    BY <1>1 DEF Storing
  <2>2. CASE Begun(d)
    BY <1>1, <1>2, <1>3, <2>1, <2>2, LessTrusted DEF WInv, Stores
  <2>3. CASE ~Begun(d)
    <3>1. Storing(d) => copied[d] = 0
      BY <2>3, ChainTyped DEF Begun, Storing
    <3>2. Storing(d) => \A f : f \notin 1 .. copied[d]
      BY <3>1
    <3>3. QED
      BY <1>1, <1>2, <1>3, <2>1, <3>2, LessTrusted DEF WInv, Stores
  <2>4. QED
    BY <2>2, <2>3
<1>6. Begun(d)' = Begun(d)
  BY <1>1 DEF Begun
<1>7. QED
  BY <1>2, <1>4, <1>5, <1>6

(* A step that leaves the cache directory alone.                           *)
LEMMA CacheAlone ==
  ASSUME RInv, WInv, NEW c \in Chains, OnlyOf(c), UNCHANGED cacheVars,
         Begun(c)' => Begun(c) /\ Entry(c)' = Entry(c),
         InputKnown(c)' /\ Computes(c)' /\ Restores(c)' /\ Stores(c)'
  PROVE  WInv'
<1>1. cache' = cache /\ manifest' = manifest /\ contested' = contested
  BY DEF cacheVars
<1>2. \A d \in Chains \ {c} : /\ Entry(d)' = Entry(d) /\ Begun(d)' = Begun(d)
                              /\ InputKnown(d)' /\ Computes(d)' /\ Restores(d)' /\ Stores(d)'
  BY <1>1, OthersOwn
<1>3. Alone'
  BY <1>1, <1>2 DEF WInv, Alone
<1>4. Published'
  <2>1. \A k : Holds(k)' = Holds(k)
    BY <1>1 DEF Holds, Pristine
  <2>2. \A k : ReadsTrusted(k.stage)' = ReadsTrusted(k.stage)
    BY <1>1 DEF ReadsTrusted, Trusted, Pristine
  <2>3. QED
    BY <1>1, <2>1, <2>2 DEF WInv, Published
<1>5. QED
  BY <1>2, <1>3, <1>4 DEF WInv

LEMMA InitOwn == Init => WInv
<1> SUFFICES ASSUME Init PROVE WInv
  OBVIOUS
<1>1. ASSUME NEW c \in Chains PROVE InputKnown(c) /\ Computes(c) /\ Restores(c) /\ Stores(c)
  BY <1>1 DEF Init, InputKnown, Computes, Restores, Stores, Storing
<1>2. Alone /\ Published
  BY DEF Init, Alone, Begun, Published
<1>3. QED
  BY <1>1, <1>2 DEF WInv

LEMMA FreshOwn ==
  ASSUME RInv, WInv, NEW c \in Chains, OnlyOf(c), Fresh(c), UNCHANGED cacheVars,
         \/ phase'[c] = "idle"
         \/ phase'[c] = "launch" /\ input'[c] \in Inputs
  PROVE  WInv'
<1>1. \A s \in Stages : stage'[c][s] = "waiting"
  BY DEF Fresh, RInv, TypeOK
<1>2. InputKnown(c)' /\ Computes(c)' /\ Restores(c)' /\ Stores(c)' /\ ~Begun(c)'
  BY <1>1 DEF InputKnown, Computes, Restores, Stores, Storing, Begun
<1>3. QED
  BY <1>2, CacheAlone

LEMMA CallOwn ==
  ASSUME RInv, WInv, NEW c \in Chains, NEW v \in Inputs, Call(c, v) PROVE WInv'
<1>1. OnlyOf(c) /\ phase'[c] = "launch" /\ input'[c] = v
  BY DEF Call, Fresh, OnlyOf, RInv, TypeOK
<1>2. QED
  BY <1>1, FreshOwn DEF Call

LEMMA CutShortOwn == ASSUME RInv, WInv, NEW c \in Chains, CutShort(c) PROVE WInv'
<1>1. OnlyOf(c) /\ phase'[c] = "idle"
  BY DEF CutShort, Fresh, OnlyOf, RInv, TypeOK
<1>2. QED
  BY <1>1, FreshOwn DEF CutShort

LEMMA RestoreOwn ==
  ASSUME RInv, WInv, NEW c \in Chains, NEW s \in Stages, Restore(c, s) PROVE WInv'
<1>1. /\ OnlyOf(c) /\ phase[c] = "launch" /\ phase'[c] = "restore" /\ at'[c] = s
      /\ UNCHANGED <<input, copied, stage, file, cacheVars>>
      /\ s \in cacheable /\ Key(c, s) \in manifest
  BY DEF Restore, Restorable, OnlyOf, RInv, TypeOK
<1>2. Entry(c)' = Key(c, s)
  <2>1. {<<d, Identity(c, d)'>> : d \in reads[s]} = {<<d, Identity(c, d)>> : d \in reads[s]}
    BY <1>1 DEF Identity
  <2>2. QED
    BY <1>1, <2>1 DEF Entry, Key
<1>3. copied'[c] = 0 /\ \A f : f \notin 1 .. 0
  BY <1>1 DEF RInv, CInv, Elsewhere
<1>4. InputKnown(c)' /\ Computes(c)' /\ Restores(c)' /\ Stores(c)' /\ ~Begun(c)'
  <2>1. \A r : Trusted(r)' = Trusted(r) /\ ReadsTrusted(r)' = ReadsTrusted(r)
    BY <1>1 DEF Trusted, ReadsTrusted, Pristine, cacheVars
  <2>2. Computes(c)'
    BY <1>1, <2>1 DEF WInv, Computes, Own
  <2>3. QED
    BY <1>1, <1>2, <1>3, <2>2 DEF WInv, InputKnown, Restores, Stores, Storing, Begun, cacheVars
<1>5. QED
  BY <1>1, <1>4, CacheAlone

LEMMA ForkOwn ==
  ASSUME RInv, WInv, NEW c \in Chains, NEW s \in Stages, Fork(c, s) PROVE WInv'
<1>1. /\ OnlyOf(c) /\ phase[c] = "launch" /\ phase' = phase
      /\ UNCHANGED <<input, copied, file, cacheVars>>
      /\ stage'[c][s] = "running"
      /\ \A r \in Stages \ {s} : stage'[c][r] = stage[c][r]
  BY DEF Fork, OnlyOf, RInv, TypeOK
<1>2. \A r : Trusted(r)' = Trusted(r) /\ ReadsTrusted(r)' = ReadsTrusted(r)
  BY <1>1 DEF Trusted, ReadsTrusted, Pristine, cacheVars
<1>3. Computes(c)'
  BY <1>1, <1>2 DEF WInv, Computes, Own
<1>4. InputKnown(c)' /\ Restores(c)' /\ Stores(c)' /\ ~Begun(c)'
  BY <1>1 DEF WInv, InputKnown, Restores, Stores, Storing, Begun
<1>5. QED
  BY <1>1, <1>3, <1>4, CacheAlone

LEMMA EndLaunchOwn == ASSUME RInv, WInv, NEW c \in Chains, EndLaunch(c) PROVE WInv'
<1>1. /\ OnlyOf(c) /\ phase[c] = "launch" /\ phase'[c] \in {"returned", "wait"}
      /\ UNCHANGED <<input, copied, stage, file, cacheVars>>
  BY DEF EndLaunch, OnlyOf, RInv, TypeOK
<1>2. \A r : Trusted(r)' = Trusted(r) /\ ReadsTrusted(r)' = ReadsTrusted(r)
  BY <1>1 DEF Trusted, ReadsTrusted, Pristine, cacheVars
<1>3. Computes(c)'
  BY <1>1, <1>2 DEF WInv, Computes, Own
<1>4. InputKnown(c)' /\ Restores(c)' /\ Stores(c)' /\ ~Begun(c)'
  BY <1>1 DEF WInv, InputKnown, Restores, Stores, Storing, Begun
<1>5. QED
  BY <1>1, <1>3, <1>4, CacheAlone

-----------------------------------------------------------------------------
(* Copying from an entry that holds what the run's input leads to.         *)
LEMMA RestoredOwn ==
  ASSUME RInv, WInv, NEW c \in Chains, phase[c] = "restore", Trusted(at[c])
  PROVE  \A f \in Files : cache[Entry(c)][f] = input[c]
<1>1. /\ at[c] \in Stages /\ Enabled(c, at[c]) /\ at[c] \in cacheable /\ Entry(c) \in manifest
      /\ Computes(c)
  BY DEF RInv, CInv, Restoring, WInv, Restores
<1>2. Pristine /\ ReadsTrusted(at[c])
  BY <1>1, IndependentReads, TrustedReads DEF Trusted
<1>3. Entry(c) = Key(c, at[c]) /\ Entry(c).stage = at[c]
  BY DEF Entry, Key
<1>4. PICK x \in Inputs : Made(Entry(c), x) /\ \A f \in Files : cache[Entry(c)][f] = x
  BY <1>1, <1>2, <1>3 DEF WInv, Published, Holds, Pristine
<1>5. Made(Entry(c), input[c])
  BY <1>1, <1>2, <1>3, KeyMade DEF Pristine
<1>6. QED
  BY <1>4, <1>5, MadeOnce

LEMMA RestoreFileOwn == ASSUME RInv, WInv, NEW c \in Chains, RestoreFile(c) PROVE WInv'
<1> SUFFICES ASSUME NEW s, s = at[c] PROVE WInv'
  OBVIOUS
<1> DEFINE f == copied[c] + 1
<1>1. /\ s \in Stages /\ stage[c][s] = "waiting" /\ Enabled(c, s) /\ s \in Nat
      /\ copied[c] \in Nat /\ copied[c] < Outputs /\ Outputs \in Nat \ {0}
      /\ phase[c] = "restore" /\ f \in Files /\ f \in Nat
  BY ChainTyped DEF RestoreFile, RInv, CInv, Restoring, Files
<1>2. /\ OnlyOf(c) /\ UNCHANGED <<runs, input, aborted>> /\ UNCHANGED cacheVars
      /\ \A d \in Stages \ {s} : file'[c][d] = file[c][d]
      /\ \A g \in Files : file'[c][s][g] = IF g = f THEN cache[Entry(c)][f] ELSE file[c][s][g]
      /\ copied'[c] = f % Outputs
  BY <1>1 DEF RestoreFile, OnlyOf, Entry, RInv, TypeOK
<1>3. s \notin after[s]
  <2>1. \A r \in Stages : r \in Nat /\ \A d \in after[r] : d < r
    BY RecipeAssumption
  <2>2. QED
    BY <1>1, <2>1
<1>4. \A r : Trusted(r)' = Trusted(r) /\ ReadsTrusted(r)' = ReadsTrusted(r)
  BY <1>2 DEF Trusted, ReadsTrusted, Pristine, cacheVars
<1>5. Trusted(s) => \A g \in 1 .. f : file'[c][s][g] = input[c]
  <2> SUFFICES ASSUME Trusted(s), NEW g \in 1 .. f PROVE file'[c][s][g] = input[c]
    OBVIOUS
  <2>1. g \in Files /\ (g = f \/ g \in 1 .. copied[c])
    BY <1>1 DEF Files
  <2>2. CASE g = f
    BY <1>1, <1>2, <2>1, <2>2, RestoredOwn
  <2>3. CASE g # f
    BY <1>1, <1>2, <2>1, <2>3 DEF WInv, Restores
  <2>4. QED
    BY <2>2, <2>3
<1>6. \A r \in Stages \ {s} : Own(c, r)' = Own(c, r)
  BY <1>2 DEF Own
<1>7. CASE f < Outputs
  <2>1. copied'[c] = f
    BY <1>1, <1>2, <1>7, Remainder
  <2>2. UNCHANGED <<phase, at, stage>>
    BY <1>7 DEF RestoreFile
  <2>3. Entry(c)' = Entry(c)
    BY <1>1, <1>2, <1>3, <2>2, EntryStands
  <2>4. Computes(c)'
    BY <1>1, <1>2, <1>4, <1>6, <2>2 DEF WInv, Computes
  <2>5. InputKnown(c)' /\ Restores(c)' /\ Stores(c)' /\ ~Begun(c)'
    BY <1>1, <1>2, <1>4, <1>5, <2>1, <2>2, <2>3 DEF WInv, InputKnown, Restores, Stores,
       Storing, Begun, cacheVars
  <2>6. QED
    BY <1>2, <2>4, <2>5, CacheAlone
<1>8. CASE ~(f < Outputs)
  <2>1. f = Outputs
    BY <1>1, <1>8
  <2>2. /\ phase'[c] = "launch" /\ stage'[c][s] = "succeeded"
        /\ \A r \in Stages \ {s} : stage'[c][r] = stage[c][r]
    BY <1>1, <1>8 DEF RestoreFile, Hit, RInv, TypeOK
  <2>3. Trusted(s) => Own(c, s)'
    BY <1>2, <1>5, <2>1 DEF Own, Files
  <2>4. Computes(c)'
    BY <1>2, <1>4, <1>6, <2>2, <2>3 DEF WInv, Computes
  <2>5. InputKnown(c)' /\ Restores(c)' /\ Stores(c)' /\ ~Begun(c)'
    BY <1>1, <1>2, <2>2 DEF WInv, InputKnown, Restores, Stores, Storing, Begun
  <2>6. QED
    BY <1>2, <2>4, <2>5, CacheAlone
<1>9. QED
  BY <1>7, <1>8

(* A child ends; when it exits with 0 it has made its files of its input.  *)
LEMMA ChildEndOwn ==
  ASSUME RInv, WInv, NEW c \in Chains, NEW s \in Stages, stage[c][s] = "running",
         NEW end \in {"exited", "broken"}, NEW x,
         stage' = [stage EXCEPT ![c][s] = end],
         file' = [file EXCEPT ![c][s] = [f \in Files |-> x]],
         UNCHANGED <<phase, runs, input, at, copied, aborted, cacheVars>>,
         end = "exited" => x = Computed(c, s)
  PROVE  WInv'
<1>1. /\ OnlyOf(c) /\ stage'[c][s] = end
      /\ file'[c][s] = [f \in Files |-> x]
      /\ \A d \in Stages \ {s} : file'[c][d] = file[c][d] /\ stage'[c][d] = stage[c][d]
  BY DEF OnlyOf, RInv, TypeOK
<1>2. \A r : Trusted(r)' = Trusted(r) /\ ReadsTrusted(r)' = ReadsTrusted(r)
  BY DEF Trusted, ReadsTrusted, Pristine, cacheVars
<1>3. \A r \in Stages \ {s} : Own(c, r)' = Own(c, r)
  BY <1>1 DEF Own
<1>4. ASSUME end = "exited", ReadsTrusted(s) PROVE Own(c, s)'
  <2>1. x = input[c]
    BY <1>4, ComputedOwn DEF RInv, CInv, InOrder, WInv
  <2>2. QED
    BY <1>1, <2>1 DEF Own
<1>5. Computes(c)'
  <2> SUFFICES ASSUME NEW r \in Stages
      PROVE  /\ stage'[c][r] = "exited" /\ ReadsTrusted(r)' => Own(c, r)'
             /\ stage'[c][r] = "succeeded" /\ Trusted(r)' => Own(c, r)'
    BY DEF Computes
  <2>1. CASE r = s
    BY <1>1, <1>2, <1>4, <2>1
  <2>2. CASE r # s
    BY <1>1, <1>2, <1>3, <2>2 DEF WInv, Computes
  <2>3. QED
    BY <2>1, <2>2
<1>6. ASSUME at[c] \in Stages, stage[c][at[c]] # "waiting" \/ Enabled(c, at[c])
      PROVE  Entry(c)' = Entry(c)
  <2>1. s \notin after[at[c]]
    BY <1>6 DEF RInv, CInv, InOrder, Enabled
  <2>2. QED
    BY <1>1, <1>6, <2>1, EntryStands
<1>7. Restores(c)'
  <2>1. phase[c] = "restore" => Entry(c)' = Entry(c) /\ at[c] \in Stages \ {s}
    BY <1>6 DEF RInv, CInv, Restoring
  <2>2. QED
    BY <1>1, <1>2, <2>1 DEF WInv, Restores, cacheVars
<1>8. Storing(c) => Entry(c)' = Entry(c) /\ at[c] \in Stages \ {s}
  BY <1>6 DEF RInv, CInv, StoringSound
<1>9. Stores(c)'
  BY <1>1, <1>2, <1>3, <1>8 DEF WInv, Stores, Storing, cacheVars
<1>10. InputKnown(c)'
  BY DEF WInv, InputKnown
<1>11. Begun(c)' => Begun(c) /\ Entry(c)' = Entry(c)
  BY <1>8 DEF Begun, Storing
<1>12. QED
  BY <1>1, <1>5, <1>7, <1>9, <1>10, <1>11, CacheAlone

LEMMA EndsOwn == ASSUME RInv, WInv, NEW c \in Chains, NEW s \in Stages, Ends(c, s) PROVE WInv'
<1>1. CASE Exit(c, s)
  BY <1>1, ChildEndOwn DEF Exit
<1>2. CASE Break(c, s)
  BY <1>2, ChildEndOwn DEF Break
<1>3. QED
  BY <1>1, <1>2 DEF Ends

LEMMA WaitOwn == ASSUME RInv, WInv, NEW c \in Chains, NEW s \in Stages, Wait(c, s) PROVE WInv'
<1>1. /\ OnlyOf(c) /\ phase[c] = "wait"
      /\ stage'[c][s] = Reaped(c, s)
      /\ \A d \in Stages \ {s} : stage'[c][d] = stage[c][d]
      /\ UNCHANGED <<input, copied, file, cacheVars>>
      /\ \/ /\ phase'[c] = "store" /\ at'[c] = s /\ stage[c][s] = "exited" /\ s \in cacheable
         \/ phase'[c] = "launch"
  BY DEF Wait, OnlyOf, RInv, TypeOK
<1>2. \A r : Trusted(r)' = Trusted(r) /\ ReadsTrusted(r)' = ReadsTrusted(r)
  BY <1>1 DEF Trusted, ReadsTrusted, Pristine, cacheVars
<1>3. \A r : Own(c, r)' = Own(c, r)
  BY <1>1 DEF Own
<1>4. Computes(c)'
  BY <1>1, <1>2, <1>3, TrustedReads DEF WInv, Computes, Reaped
<1>5. copied'[c] = 0 /\ \A f : f \notin 1 .. 0
  BY <1>1 DEF RInv, CInv, Elsewhere
<1>6. Stores(c)'
  BY <1>1, <1>2, <1>3, <1>5 DEF WInv, Computes, Stores, Storing
<1>7. InputKnown(c)' /\ Restores(c)' /\ ~Begun(c)'
  BY <1>1, <1>5 DEF WInv, InputKnown, Restores, Begun
<1>8. QED
  BY <1>1, <1>4, <1>6, <1>7, CacheAlone

-----------------------------------------------------------------------------
(* Writing one file of an entry: what else it holds, and every other entry.*)
LEMMA PutElse ==
  ASSUME RInv, NEW k \in DOMAIN cache, NEW f \in Files, NEW x
  PROVE  /\ \A e \in DOMAIN cache \ {k} : Put(k, f, x)[e] = cache[e]
         /\ Put(k, f, x)[k][f] = x
         /\ \A g \in Files \ {f} : Put(k, f, x)[k][g] = cache[k][g]
  BY DEF Put

(* The chain at the entry c writes to is the only one to have begun it,    *)
(* and it has no manifest, or the entry is contested from here on.         *)
LEMMA EntryWritten ==
  ASSUME RInv, RInv', WInv, NEW c \in Chains, OnlyOf(c), Storing(c),
         NEW f \in Files, NEW x, cache' = Put(Entry(c), f, x),
         contested \subseteq contested', manifest' = manifest,
         Entry(c) \notin contested' =>
           /\ Entry(c) \notin manifest
           /\ \A d \in Chains \ {c} : Begun(d) => Entry(d) # Entry(c),
         Entry(c)' = Entry(c),
         InputKnown(c)' /\ Computes(c)' /\ Restores(c)' /\ Stores(c)'
  PROVE  WInv'
<1>1. \A e \in DOMAIN cache \ {Entry(c)} : cache'[e] = cache[e]
  BY DEF Put
<1>2. ASSUME NEW d \in Chains \ {c}
      PROVE  /\ Entry(d)' = Entry(d) /\ Begun(d)' = Begun(d)
             /\ InputKnown(d)' /\ Computes(d)' /\ Restores(d)' /\ Stores(d)'
  <2>1. Begun(d) => Entry(d) \in DOMAIN cache
    BY DEF RInv, CInv, StoringSound, Begun
  <2>2. Begun(d) /\ Entry(d) \notin contested' => cache'[Entry(d)] = cache[Entry(d)]
    BY <1>1, <2>1
  <2>3. QED
    BY <2>2, OthersOwn
<1>3. Alone'
  <2> SUFFICES ASSUME NEW d \in Chains, Begun(d)', Entry(d)' \notin contested'
      PROVE  /\ Entry(d)' \notin manifest'
             /\ \A e \in Chains \ {d} : Begun(e)' => Entry(e)' # Entry(d)'
    BY DEF Alone
  <2>1. CASE d = c
    BY <1>2, <2>1
  <2>2. CASE d # c
    <3>1. Begun(d) /\ Entry(d)' = Entry(d) /\ Entry(d) \notin contested
      BY <1>2, <2>2
    <3>2. Entry(d) # Entry(c)
      BY <2>2, <3>1
    <3>3. QED
      BY <1>2, <2>2, <3>1, <3>2 DEF WInv, Alone
  <2>3. QED
    BY <2>1, <2>2
<1>4. Published'
  <2> SUFFICES ASSUME NEW k \in manifest'
      PROVE  /\ k.stage \in cacheable
             /\ k \notin contested' /\ ReadsTrusted(k.stage)' => Holds(k)'
    BY DEF Published
  <2>1. k \in manifest /\ k.stage \in cacheable /\ k \in DOMAIN cache
    BY DEF WInv, Published, RInv, TypeOK
  <2>2. ASSUME k \notin contested', ReadsTrusted(k.stage)' PROVE Holds(k)'
    <3>1. Holds(k)
      BY <2>1, <2>2, LessTrusted DEF WInv, Published
    <3>2. cache'[k] = cache[k]
      BY <1>1, <2>1, <2>2
    <3>3. Pristine' => Pristine
      BY LessTrusted
    <3>4. \A y : Made(k, y)' = Made(k, y)
      BY DEF Made
    <3>5. QED
      BY <3>1, <3>2, <3>3, <3>4 DEF Holds
  <2>3. QED
    BY <2>1, <2>2
<1>5. QED
  BY <1>2, <1>3, <1>4 DEF WInv

LEMMA TruncateOwn == ASSUME RInv, WInv, NEW c \in Chains, Truncate(c) PROVE WInv'
<1> DEFINE f == copied[c] + 1
<1>1. /\ OnlyOf(c) /\ Storing(c) /\ phase[c] = "store" /\ phase'[c] = "write"
      /\ UNCHANGED <<runs, input, at, copied, stage, aborted, file, manifest>>
      /\ cache' = Put(Entry(c), f, Torn) /\ contested \subseteq contested'
  BY DEF Truncate, Storing, OnlyOf, RInv, TypeOK
<1>2. copied[c] \in Nat /\ f \in Files /\ \A g \in 1 .. copied[c] : g \in Files /\ g # f
  BY ChainTyped DEF Truncate, MoreToStore, Files
<1>3. Entry(c)' = Entry(c)
  BY <1>1, SameEntry
<1>4. ASSUME Entry(c) \notin contested'
      PROVE  /\ Entry(c) \notin manifest
             /\ \A d \in Chains \ {c} : Begun(d) => Entry(d) # Entry(c)
  BY <1>4 DEF Truncate, Begun, Storing
<1>5. RInv'
  BY TruncateKeeps
<1>6. \A s : Own(c, s)' = Own(c, s)
  BY <1>1 DEF Own
<1>7. InputKnown(c)' /\ Computes(c)' /\ Restores(c)'
  BY <1>1, <1>6, LessTrusted DEF WInv, InputKnown, Computes, Restores
<1>8. ASSUME ReadsTrusted(at[c])', Entry(c) \notin contested', NEW g \in 1 .. copied[c]
      PROVE  cache'[Entry(c)][g] = input[c]
  <2>1. copied[c] > 0
    BY <1>2
  <2>2. Entry(c) \in DOMAIN cache
    BY <1>1, <2>1 DEF RInv, CInv, StoringSound
  <2>3. cache'[Entry(c)][g] = cache[Entry(c)][g]
    BY <1>1, <1>2, <2>2, PutElse
  <2>4. QED
    BY <1>1, <1>8, <2>3, LessTrusted DEF WInv, Stores
<1>9. Stores(c)'
  BY <1>1, <1>3, <1>6, <1>8, LessTrusted DEF WInv, Stores, Storing
<1>10. QED
  BY <1>1, <1>2, <1>3, <1>4, <1>5, <1>7, <1>9, EntryWritten

LEMMA WriteOwn == ASSUME RInv, WInv, NEW c \in Chains, Write(c) PROVE WInv'
<1> DEFINE f == copied[c] + 1
           x == file[c][at[c]][f]
<1>1. /\ OnlyOf(c) /\ Storing(c) /\ phase[c] = "write" /\ phase'[c] = "store"
      /\ UNCHANGED <<runs, input, at, stage, aborted, file, manifest, contested>>
      /\ copied'[c] = f /\ cache' = Put(Entry(c), f, x)
  BY DEF Write, Storing, OnlyOf, RInv, TypeOK
<1>2. /\ copied[c] \in Nat /\ f \in Files /\ Entry(c) \in DOMAIN cache
      /\ \A g \in 1 .. f : g \in Files /\ (g = f \/ g \in 1 .. copied[c])
  BY <1>1, ChainTyped DEF RInv, CInv, StoringSound, Files
<1>3. Entry(c)' = Entry(c)
  BY <1>1, SameEntry
<1>4. ASSUME Entry(c) \notin contested'
      PROVE  /\ Entry(c) \notin manifest
             /\ \A d \in Chains \ {c} : Begun(d) => Entry(d) # Entry(c)
  BY <1>1, <1>4 DEF WInv, Alone, Begun
<1>5. RInv'
  BY WriteKeeps
<1>6. \A s : Own(c, s)' = Own(c, s)
  BY <1>1 DEF Own
<1>7. InputKnown(c)' /\ Computes(c)' /\ Restores(c)'
  BY <1>1, <1>6, LessTrusted DEF WInv, InputKnown, Computes, Restores
<1>8. ASSUME ReadsTrusted(at[c])', Entry(c) \notin contested', NEW g \in 1 .. f
      PROVE  cache'[Entry(c)][g] = input[c]
  <2>1. ReadsTrusted(at[c]) /\ Entry(c) \notin contested
    BY <1>1, <1>8, LessTrusted
  <2>2. CASE g = f
    <3>1. cache'[Entry(c)][g] = x
      BY <1>1, <1>2, <2>2, PutElse
    <3>2. x = input[c]
      BY <1>1, <1>2, <2>1 DEF WInv, Stores, Own
    <3>3. QED
      BY <3>1, <3>2
  <2>3. CASE g # f
    <3>1. g \in 1 .. copied[c] /\ g \in Files \ {f}
      BY <1>2, <2>3
    <3>2. cache'[Entry(c)][g] = cache[Entry(c)][g]
      BY <1>1, <1>2, <3>1, PutElse
    <3>3. cache[Entry(c)][g] = input[c]
      BY <1>1, <2>1, <3>1 DEF WInv, Stores
    <3>4. QED
      BY <3>2, <3>3
  <2>4. QED
    BY <2>2, <2>3
<1>9. Stores(c)'
  BY <1>1, <1>3, <1>6, <1>8, LessTrusted DEF WInv, Stores, Storing
<1>10. QED
  BY <1>1, <1>2, <1>3, <1>4, <1>5, <1>7, <1>9, EntryWritten

LEMMA StoreFailsOwn == ASSUME RInv, WInv, NEW c \in Chains, StoreFails(c) PROVE WInv'
<1>1. /\ OnlyOf(c) /\ phase'[c] = "launch" /\ phase[c] # "idle"
      /\ UNCHANGED <<input, stage, file, cacheVars>>
  BY DEF StoreFails, Storing, OnlyOf, RInv, TypeOK
<1>2. \A r : Trusted(r)' = Trusted(r) /\ ReadsTrusted(r)' = ReadsTrusted(r) /\ Own(c, r)' = Own(c, r)
  BY <1>1 DEF Trusted, ReadsTrusted, Pristine, Own, cacheVars
<1>3. InputKnown(c)' /\ Computes(c)' /\ Restores(c)' /\ Stores(c)' /\ ~Begun(c)'
  BY <1>1, <1>2 DEF WInv, InputKnown, Computes, Restores, Stores, Storing, Begun
<1>4. QED
  BY <1>1, <1>3, CacheAlone

LEMMA PublishOwn == ASSUME RInv, WInv, NEW c \in Chains, Publish(c) PROVE WInv'
<1>1. /\ OnlyOf(c) /\ Storing(c) /\ phase[c] = "store" /\ phase'[c] = "launch"
      /\ copied[c] = Outputs /\ Outputs \in Nat \ {0}
      /\ UNCHANGED <<input, stage, file, cache, contested>>
      /\ manifest' = manifest \cup {Entry(c)}
  BY ChainTyped DEF Publish, AllStored, Storing, OnlyOf, RInv, TypeOK
<1>2. \A r : Trusted(r)' = Trusted(r) /\ ReadsTrusted(r)' = ReadsTrusted(r) /\ Own(c, r)' = Own(c, r)
  BY <1>1 DEF Trusted, ReadsTrusted, Pristine, Own
<1>3. InputKnown(c)' /\ Computes(c)' /\ Restores(c)' /\ Stores(c)' /\ ~Begun(c)'
  BY <1>1, <1>2 DEF WInv, InputKnown, Computes, Restores, Stores, Storing, Begun
<1>4. \A d \in Chains \ {c} : /\ Entry(d)' = Entry(d) /\ Begun(d)' = Begun(d)
                              /\ InputKnown(d)' /\ Computes(d)' /\ Restores(d)' /\ Stores(d)'
  BY <1>1, OthersOwn
<1>5. Begun(c)
  BY <1>1 DEF Begun
<1>6. Alone'
  BY <1>1, <1>3, <1>4, <1>5 DEF WInv, Alone
<1>7. at[c] \in Stages /\ Enabled(c, at[c]) /\ at[c] \in cacheable /\ input[c] \in Inputs
  BY <1>1 DEF RInv, CInv, StoringSound, InOrder, WInv, Stores, InputKnown
<1>8. Entry(c) = Key(c, at[c]) /\ Entry(c).stage = at[c]
  BY DEF Entry, Key
<1>9. ASSUME ReadsTrusted(at[c]), Entry(c) \notin contested PROVE Holds(Entry(c))
  <2>1. Pristine => Made(Entry(c), input[c])
    BY <1>7, <1>8, <1>9, KeyMade DEF WInv, Pristine
  <2>2. \A f \in Files : cache[Entry(c)][f] = input[c]
    BY <1>1, <1>9 DEF WInv, Stores, Files
  <2>3. QED
    BY <1>7, <2>1, <2>2 DEF Holds
<1>10. Published'
  <2>1. \A k : Holds(k)' = Holds(k)
    BY <1>1 DEF Holds, Pristine
  <2>2. QED
    BY <1>1, <1>2, <1>7, <1>8, <1>9, <2>1 DEF WInv, Published
<1>11. QED
  BY <1>3, <1>4, <1>6, <1>10 DEF WInv

-----------------------------------------------------------------------------
LEMMA NextOwn == ASSUME RInv, WInv, [Next]_vars PROVE WInv'
<1>1. CASE UNCHANGED vars
  <2>1. \A c : Entry(c)' = Entry(c)
    BY <1>1, SameEntry DEF vars, chainVars
  <2>2. \A c \in Chains : InputKnown(c)' /\ Computes(c)' /\ Restores(c)' /\ Stores(c)'
    BY <1>1, <2>1 DEF vars, chainVars, cacheVars, WInv, InputKnown, Computes, Restores, Stores,
       Storing, Trusted, ReadsTrusted, Pristine, Own
  <2>3. Alone'
    BY <1>1, <2>1 DEF vars, chainVars, cacheVars, WInv, Alone, Begun
  <2>4. Published'
    BY <1>1 DEF vars, chainVars, cacheVars, WInv, Published, Trusted, ReadsTrusted, Pristine,
       Holds
  <2>5. QED
    BY <2>2, <2>3, <2>4 DEF WInv
<1>2. CASE Next
  <2>1. PICK c \in Chains : \/ \E v \in Inputs : Call(c, v)
                            \/ ChainStep(c)
                            \/ \E s \in Stages : Ends(c, s)
                            \/ CutShort(c)
    BY <1>2 DEF Next
  <2>2. CASE ChainStep(c)
    BY <2>2, RestoreOwn, ForkOwn, WaitOwn, RestoreFileOwn, EndLaunchOwn, TruncateOwn,
       WriteOwn, PublishOwn, StoreFailsOwn DEF ChainStep
  <2>3. QED
    BY <2>1, <2>2, CallOwn, EndsOwn, CutShortOwn
<1>3. QED
  BY <1>1, <1>2

LEMMA OwnInductive == Spec => []WInv
  BY InitOwn, NextOwn, Inductive, PTL DEF Spec

(* store_to_cache, of a recipe in which no cached stage reads what another *)
(* one produced: an entry that has a manifest and was never contested is   *)
(* whole, made of one input, whatever was killed and whatever the digests  *)
(* left out.                                                               *)
THEOREM ManifestMeansWhole ==
  ASSUME \A s \in cacheable : reads[s] \subseteq Independent
  PROVE  Spec => []PublishedIsWhole
<1>1. ASSUME WInv, NEW k \in manifest \ contested PROVE Whole(k)
  <2>1. ReadsTrusted(k.stage)
    BY <1>1 DEF WInv, Published, ReadsTrusted, Trusted
  <2>2. PICK x \in Inputs : \A f \in Files : cache[k][f] = x
    BY <1>1, <2>1 DEF WInv, Published, Holds
  <2>3. 1 \in Files
    BY OutputsAssumption DEF Files
  <2>4. QED
    BY <2>2, <2>3 DEF Whole
<1>2. WInv => PublishedIsWhole
  BY <1>1 DEF PublishedIsWhole
<1>3. QED
  BY <1>2, OwnInductive, PTL

(* store_to_cache, of any recipe whose products are all digested: as long  *)
(* as no entry at all was contested every manifest is that of a whole one. *)
THEOREM UncontestedIsWhole ==
  ASSUME Large = {}
  PROVE  Spec => [](contested = {} => \A k \in manifest : Whole(k))
<1>1. ASSUME WInv, contested = {}, NEW k \in manifest PROVE Whole(k)
  <2>1. ReadsTrusted(k.stage)
    BY <1>1 DEF ReadsTrusted, Trusted, Pristine
  <2>2. PICK x \in Inputs : \A f \in Files : cache[k][f] = x
    BY <1>1, <2>1 DEF WInv, Published, Holds
  <2>3. 1 \in Files
    BY OutputsAssumption DEF Files
  <2>4. QED
    BY <2>2, <2>3 DEF Whole
<1>2. WInv => (contested = {} => \A k \in manifest : Whole(k))
  BY <1>1
<1>3. QED
  BY <1>2, OwnInductive, PTL

(* run_chain, of any recipe whose products are all digested: while no entry*)
(* has been contested, what a run that succeeds leaves in its directory is *)
(* what its own input leads to, whichever stages it restored.              *)
THEOREM TheCacheIsInvisible == ASSUME Large = {} PROVE Spec => []OwnResults
<1>1. ASSUME RInv, WInv, CompletesAll, NEW c \in Chains, phase[c] = "returned", ~aborted[c],
             contested = {}, NEW s \in Stages, NEW f \in Files
      PROVE  file[c][s][f] = input[c]
  <2>1. stage[c][s] = "succeeded" /\ Trusted(s)
    BY <1>1 DEF CompletesAll, Trusted, Pristine
  <2>2. QED
    BY <1>1, <2>1 DEF WInv, Computes, Own
<1>2. RInv /\ WInv /\ CompletesAll => OwnResults
  BY <1>1 DEF OwnResults
<1>3. QED
  BY <1>2, Inductive, OwnInductive, NoStageIsLeftOut, PTL
=============================================================================
