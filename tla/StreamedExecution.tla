------------------------- MODULE StreamedExecution -------------------------
(***************************************************************************)
(* CudaPreparedExecution::run on one prepared program: the host thread     *)
(* that submits work, the prefetcher that stages streamed constants, and   *)
(* the CUDA streams that perform what was submitted, each in its own time. *)
(*                                                                         *)
(* A stream is a queue of waits and pieces of work.  An event recorded on  *)
(* a stream is the number of entries submitted to it by then; it completes *)
(* when the stream has retired that many, and recording it again moves it, *)
(* which is what cuEventRecord and cuStreamWaitEvent do.                   *)
(*                                                                         *)
(* Device storage and the pinned staging ring are places.  A place holds   *)
(* the id of the tensor whose value is in it (for a ring buffer, the       *)
(* operation whose constants were staged there) or Garbage; work that finds*)
(* another value than it expects produces Garbage.                         *)
(***************************************************************************)
EXTENDS DiffIR, SequencesExt

CONSTANT
  Executions   (* Prepared executions: records of Preparation!Prepared.    *)

VARIABLES
  run,         (* The prepared execution being run.                        *)
  iteration,   (* Which call of execute() is under way.                    *)
  host,        (* What the host does next.                                 *)
  turn,        (* The operation the host is at.                            *)
  target,      (* The operation a loop of prefetch calls is at.            *)
  prefetched,  (* Operations whose prefetch call returned true.            *)
  ready,       (* ready_events_                                            *)
  copied,      (* copy_done_, with copy_recorded_                          *)
  completion,  (* completion_events_, with completion_recorded_            *)
  loaded,      (* loaded_lazy_residents_ holds the lazy residents.         *)
  cached,      (* repeated_cache_ready                                     *)
  queue,       (* What each stream has still to do.                        *)
  retired,     (* How many entries each stream has retired.                *)
  memory,      (* What each place holds.                                   *)
  performed    (* Operations performed in this iteration.                  *)

(* The fields of a prepared execution.                                     *)
ASSUME ExecutionsAssumption ==
  \A r \in Executions : LET all == 0 .. r.program.count - 1 IN
    /\ r.program.count \in Nat /\ r.program.inputs \in [all -> SUBSET Tensors]
    /\ r.program.outputs \in [all -> SUBSET Tensors]
    /\ r.depth \in Nat /\ r.staging \in Nat \ {0} /\ r.overlap \in BOOLEAN
    /\ r.resident \subseteq Tensors /\ r.lazy \subseteq r.resident
    /\ r.region \subseteq all /\ r.crossing \subseteq Tensors /\ r.skipped \subseteq all
    /\ DOMAIN r.width \subseteq all /\ r.followups \subseteq all
    /\ \A i \in DOMAIN r.width : r.width[i] \in Nat \ {0} /\ i + r.width[i] <= r.program.count
    /\ r.launch \in [all -> [reads : SUBSET Tensors, writes : SUBSET Tensors, performs : SUBSET all]]
    /\ r.root \in [Tensors -> Tensors]
    /\ r.first \in [Tensors -> all \cup {-1}] /\ r.release \in [Tensors -> all \cup {-1}]
    /\ \A t \in Tensors : r.place[t] \in {"slot", "own"} \X Nat
    /\ r.iterations \in Nat

fetchVars  == <<prefetched, ready, copied>>
deviceVars == <<queue, retired, memory, performed>>
vars == <<run, iteration, host, turn, target, fetchVars, completion, loaded,
          cached, deviceVars>>

None    == -1
Garbage == -1
Copy    == -1     (* context_.copy_stream()                                *)
Main    == 0      (* context_.stream(); lanes of a group are 1, 2, ...     *)

program == run.program
Count   == program.count
Buffers == 0 .. run.staging - 1
Lanes   == UNION {1 .. run.width[i] - 1 : i \in DOMAIN run.width}
Streams == {Copy, Main} \cup Lanes

Pinned(b) == <<"pinned", b>>
Cache(t)  == <<"cache", t>>
Places(r) ==
  {r.place[t] : t \in Tensors} \cup {Cache(t) : t \in r.crossing}
    \cup {Pinned(b) : b \in 0 .. r.staging - 1}

HoldsTensor(t)  == [at |-> run.place[t], holds |-> run.root[t]]
HoldsCached(t)  == [at |-> Cache(t), holds |-> run.root[t]]
HoldsStaged(i)  == [at |-> Pinned(i % run.staging), holds |-> i]

-----------------------------------------------------------------------------
NoEvent == [stream |-> Copy, position |-> 0]
Wait(event) == [kind |-> "wait", event |-> event]
Work(reads, writes, performs) ==
  [kind |-> "work", reads |-> reads, writes |-> writes, performs |-> performs]

Recorded(event) == event.position > 0
Done(event)     == retired[event.stream] >= event.position
Record(s, q)    == [stream |-> s, position |-> retired[s] + Len(q)]
Waits(events)   ==
  LET order == SetToSeq(events) IN [k \in DOMAIN order |-> Wait(order[k])]

(* Constants and inputs that are in place before the first operation.      *)
Uploaded(r, t) ==
  /\ Bound(r.program, t)
  /\ HasRole(r.program, t, "Streamed") => t \in r.resident \ r.lazy

Init ==
  /\ run \in Executions
  /\ iteration = 0
  /\ host = "begin"
  /\ turn = 0
  /\ target = 0
  /\ prefetched = {}
  /\ ready = [i \in Operations(run.program) |-> NoEvent]
  /\ copied = [b \in 0 .. run.staging - 1 |-> NoEvent]
  /\ completion = [i \in Operations(run.program) |-> NoEvent]
  /\ loaded = FALSE
  /\ cached = FALSE
  /\ queue = [s \in Streams |-> <<>>]
  /\ retired = [s \in Streams |-> 0]
  /\ memory = [p \in Places(run) |->
       IF \E t \in Tensors : run.place[t] = p /\ Uploaded(run, t)
       THEN CHOOSE t \in Tensors : run.place[t] = p /\ Uploaded(run, t)
       ELSE Garbage]
  /\ performed = {}

-----------------------------------------------------------------------------
(* A stream performs the entry at the head of its queue.                   *)
Head_is(s, kind) == queue[s] # <<>> /\ Head(queue[s]).kind = kind

Retire(s) ==
  /\ queue' = [queue EXCEPT ![s] = Tail(@)]
  /\ retired' = [retired EXCEPT ![s] = @ + 1]
  /\ UNCHANGED <<run, iteration, host, turn, target, fetchVars, completion,
                 loaded, cached>>

PassWait(s) ==
  /\ Head_is(s, "wait")
  /\ Done(Head(queue[s]).event)
  /\ Retire(s)
  /\ UNCHANGED <<memory, performed>>

InPlace(work) == \A r \in work.reads : memory[r.at] = r.holds

PerformWork(s) ==
  /\ Head_is(s, "work")
  /\ LET work == Head(queue[s])
         written(p) == {w \in work.writes : w.at = p}
     IN  /\ memory' = [p \in DOMAIN memory |->
              IF written(p) = {} THEN memory[p]
              ELSE IF InPlace(work) THEN (CHOOSE w \in written(p) : TRUE).holds
              ELSE Garbage]
         /\ performed' = performed \cup work.performs
  /\ Retire(s)

-----------------------------------------------------------------------------
(* StreamedPrefetcher.  active(id): not promoted to resident storage, or   *)
(* promoted lazily and not loaded yet.                                     *)
Active(t)  == t \notin run.resident \/ (t \in run.lazy /\ ~loaded)
Fetched(i) == {t \in program.inputs[i] : run.first[t] = i /\ Active(t)}

(* The prefetch() of an operation that brings something: wait for the ring *)
(* buffer's last copy, make the copy stream wait until the slots are free, *)
(* stage, copy, and record that the constants are ready.                   *)
BufferFree_Unchecked(b) == TRUE     \* Mutant: the buffer is not waited for.
BufferFree(b) == Done(copied[b])

Releases_Dropped(i) == {}           \* Mutant: slots are taken without waiting.
Releases(i) ==
  {completion[run.release[t]] : t \in {u \in Fetched(i) : run.release[u] # None}}

CopyOf(i, t) == Work({HoldsStaged(i)}, {HoldsTensor(t)}, {})
Copies(i) ==
  LET order == SetToSeq(Fetched(i)) IN [k \in DOMAIN order |-> CopyOf(i, order[k])]

Prefetch(i) ==
  LET b == i % run.staging
      q == queue[Copy] \o Waits({e \in Releases(i) : Recorded(e)}) \o Copies(i)
  IN  /\ BufferFree(b)
      /\ memory' = [memory EXCEPT ![Pinned(b)] = i]
      /\ queue' = [queue EXCEPT ![Copy] = q]
      /\ ready'  = [ready EXCEPT ![i] = Record(Copy, q)]
      /\ copied' = [copied EXCEPT ![b] = Record(Copy, q)]
      /\ prefetched' = prefetched \cup {i}
      /\ UNCHANGED <<retired, performed>>

(* prefetch() of an operation without streamed constants returns false.    *)
PrefetchIfAny(i) ==
  IF Fetched(i) # {} THEN Prefetch(i) ELSE UNCHANGED <<fetchVars, deviceVars>>

-----------------------------------------------------------------------------
(* The turn of one operation, as execute() submits it.                     *)
Reused(i) == cached /\ i \in run.region
Leader(i) == i \in DOMAIN run.width

(* The kernel of operation i and, while the cache is being filled, the     *)
(* copies of its results that cross the region's boundary.                 *)
KernelOf(i) ==
  LET l == run.launch[i]
  IN  Work({HoldsTensor(t) : t \in l.reads}, {HoldsTensor(t) : t \in l.writes}, l.performs)

Saves(i) ==
  LET order == SetToSeq(run.crossing \cap program.outputs[i])
  IN  [k \in DOMAIN order |-> Work({HoldsTensor(order[k])}, {HoldsCached(order[k])}, {})]

Kernels(i) == (IF i \in run.skipped THEN <<>> ELSE <<KernelOf(i)>>)
                \o (IF cached THEN <<>> ELSE Saves(i))

Await_Dropped(i) == <<>>            \* Mutant: no wait for the constants.
Await(i) == IF i \in prefetched THEN <<Wait(ready[i])>> ELSE <<>>

(* Which loop the host enters after a turn.                                *)
AfterTurn ==
  IF run.overlap
  THEN host' = "ahead" /\ UNCHANGED <<turn, target>>
  ELSE host' = "turn" /\ turn' = turn + 1 /\ UNCHANGED target

(* execute() begins: restore the cached results, then, when streaming      *)
(* overlaps, prefetch the first `depth` operations.                        *)
Begin ==
  /\ host = "begin"
  /\ queue' = IF cached
              THEN [queue EXCEPT ![Main] = Append(@,
                      Work({HoldsCached(t) : t \in run.crossing},
                           {HoldsTensor(t) : t \in run.crossing}, run.region))]
              ELSE queue
  /\ host' = IF run.overlap THEN "prime" ELSE "turn"
  /\ turn' = 0
  /\ target' = 0
  /\ prefetched' = {}
  /\ UNCHANGED <<run, iteration, ready, copied, completion, loaded, cached,
                 retired, memory, performed>>

Prime ==
  /\ host = "prime"
  /\ target < run.depth /\ target < Count
  /\ IF Reused(target) THEN UNCHANGED <<fetchVars, deviceVars>> ELSE PrefetchIfAny(target)
  /\ target' = target + 1
  /\ UNCHANGED <<run, iteration, host, turn, completion, loaded, cached>>

Primed ==
  /\ host = "prime"
  /\ target >= run.depth \/ target >= Count
  /\ host' = "turn"
  /\ UNCHANGED <<run, iteration, turn, target, fetchVars, completion, loaded,
                 cached, deviceVars>>

(* A turn the cache makes unnecessary still records its completion: slot   *)
(* releases name operations by index.                                      *)
ReuseTurn ==
  /\ host = "turn" /\ turn < Count
  /\ Reused(turn)
  /\ completion' = [completion EXCEPT ![turn] = Record(Main, queue[Main])]
  /\ AfterTurn
  /\ UNCHANGED <<run, iteration, fetchVars, loaded, cached, deviceVars>>

FollowupTurn ==
  /\ host = "turn" /\ turn < Count
  /\ ~Reused(turn)
  /\ turn \in run.followups
  /\ AfterTurn
  /\ UNCHANGED <<run, iteration, fetchVars, completion, loaded, cached, deviceVars>>

(* Without overlap the operation's own prefetch comes first.               *)
FetchOwn ==
  /\ host = "turn" /\ turn < Count
  /\ ~run.overlap
  /\ ~Reused(turn) /\ turn \notin run.followups
  /\ PrefetchIfAny(turn)
  /\ host' = "launch"
  /\ UNCHANGED <<run, iteration, turn, target, completion, loaded, cached>>

AtLaunch ==
  /\ host = IF run.overlap THEN "turn" ELSE "launch"
  /\ turn < Count
  /\ ~Reused(turn) /\ turn \notin run.followups

Launch ==
  /\ AtLaunch
  /\ ~Leader(turn)
  /\ LET q == queue[Main] \o Await(turn) \o Kernels(turn)
     IN  /\ queue' = [queue EXCEPT ![Main] = q]
         /\ completion' = [completion EXCEPT ![turn] = Record(Main, q)]
  /\ AfterTurn
  /\ UNCHANGED <<run, iteration, fetchVars, loaded, cached, retired, memory, performed>>

(* execute_parallel_group: prefetch for the lanes that were not prefetched *)
(* and then send every lane to its stream.                                 *)
EnterGroup ==
  /\ AtLaunch
  /\ Leader(turn)
  /\ host' = "lanes"
  /\ target' = turn + 1
  /\ UNCHANGED <<run, iteration, turn, fetchVars, completion, loaded, cached,
                 deviceVars>>

PrefetchLane ==
  /\ host = "lanes"
  /\ target < turn + run.width[turn]
  /\ IF target \in prefetched THEN UNCHANGED <<fetchVars, deviceVars>>
     ELSE PrefetchIfAny(target)
  /\ target' = target + 1
  /\ UNCHANGED <<run, iteration, host, turn, completion, loaded, cached>>

LanesOf_Short(i) == 1 .. run.width[i] - 2      \* Mutant: the last lane is lost.
LanesOf(i)       == 1 .. run.width[i] - 1

LaunchGroup ==
  /\ host = "lanes"
  /\ target = turn + run.width[turn]
  /\ LET lanes == LanesOf(turn)
         awaited == queue[Main] \o Await(turn)
         started == Record(Main, awaited)
         lane(k) == queue[k] \o Await(turn + k) \o <<Wait(started)>> \o Kernels(turn + k)
         first   == awaited \o Kernels(turn)
         joins   == Waits({Record(k, lane(k)) : k \in lanes})
     IN  /\ queue' = [s \in Streams |-> CASE s = Main -> first \o joins
                                          [] s \in lanes -> lane(s)
                                          [] OTHER -> queue[s]]
         /\ completion' = [i \in DOMAIN completion |->
              CASE i = turn -> Record(Main, first)
                [] i - turn \in lanes -> Record(i - turn, lane(i - turn))
                [] OTHER -> completion[i]]
  /\ host' = "turn"
  /\ turn' = turn + 1
  /\ UNCHANGED <<run, iteration, target, fetchVars, loaded, cached, retired,
                 memory, performed>>

(* With overlap, prefetch `depth` operations ahead and go on.              *)
Ahead ==
  /\ host = "ahead"
  /\ IF turn + run.depth >= Count \/ Reused(turn + run.depth)
     THEN UNCHANGED <<fetchVars, deviceVars>>
     ELSE PrefetchIfAny(turn + run.depth)
  /\ host' = "turn"
  /\ turn' = turn + 1
  /\ UNCHANGED <<run, iteration, target, completion, loaded, cached>>

(* complete_iteration(), and the cache counts as filled.                   *)
EndTurns ==
  /\ host = "turn" /\ turn = Count
  /\ host' = "drain"
  /\ loaded' = TRUE
  /\ cached' = (cached \/ run.region # {})
  /\ UNCHANGED <<run, iteration, turn, target, fetchVars, completion, deviceVars>>

(* Mutant: no synchronization.                                             *)
Synchronized_Skipped   == TRUE

(* The host synchronizes with the main stream after every iteration.       *)
MoreIterations == iteration + 1 < run.iterations
Synchronized   == queue[Main] = <<>>

Drain ==
  /\ host = "drain"
  /\ Synchronized
  /\ IF MoreIterations
     THEN host' = "begin" /\ iteration' = iteration + 1 /\ performed' = {}
     ELSE host' = "done" /\ UNCHANGED <<iteration, performed>>
  /\ UNCHANGED <<run, turn, target, fetchVars, completion, loaded, cached,
                 queue, retired, memory>>

-----------------------------------------------------------------------------
Host == \/ Begin \/ Prime \/ Primed \/ ReuseTurn \/ FollowupTurn \/ FetchOwn
        \/ Launch \/ EnterGroup \/ PrefetchLane \/ LaunchGroup \/ Ahead
        \/ EndTurns \/ Drain

Advance(s) == PassWait(s) \/ PerformWork(s)

Next == Host \/ \E s \in Streams : Advance(s)

(* The submitting thread keeps running unless it is blocked in a           *)
(* synchronize call, and the device makes progress on every stream whose   *)
(* head entry is not waiting.                                              *)
Fairness == WF_vars(Host) /\ WF_vars(\E s \in Streams : Advance(s))

Spec == Init /\ [][Next]_vars /\ Fairness
-----------------------------------------------------------------------------
Working(s) == Head_is(s, "work")

(* Whatever a stream is about to read is in its place: a kernel never sees *)
(* an operand that was not computed or copied yet, or that another tensor  *)
(* has replaced; a copy finds its own constants in the ring buffer; the    *)
(* cache holds what is restored from it.                                   *)
OperandsReady == \A s \in Streams : Working(s) => InPlace(Head(queue[s]))

(* Work that two streams may do at the same time touches different places, *)
(* unless both only read; and no kernel writes a place it reads.           *)
Touches(work)    == {a.at : a \in work.reads \cup work.writes}
WritesTo(work)   == {w.at : w \in work.writes}
NoConflict ==
  \A s \in Streams : Working(s) =>
    /\ \A r \in Head(queue[s]).reads : r.at \notin WritesTo(Head(queue[s]))
    /\ \A c \in Streams \ {s} : Working(c) =>
         WritesTo(Head(queue[s])) \cap Touches(Head(queue[c])) = {}

(* The host never stages into a ring buffer a copy has still to read.      *)
StagingNotOverwritten ==
  [][\A b \in Buffers : memory'[Pinned(b)] # memory[Pinned(b)] =>
       \A k \in DOMAIN queue[Copy] :
         queue[Copy][k].kind = "work" =>
           \A r \in queue[Copy][k].reads : r.at # Pinned(b)]_vars

(* After the last iteration every output is in the storage the host reads  *)
(* it back from.                                                           *)
OutputsDelivered ==
  host = "done" => \A t \in Tensors : HasRole(program, t, "Output") =>
                     memory[run.place[t]] = run.root[t]

-----------------------------------------------------------------------------
(* What the preparation of an execution without parallel groups and cached *)
(* region leaves to the run.  Tensors are named by the root of their view: *)
(* the tensor whose storage they are bound to.                             *)
Sequential(r) == DOMAIN r.width = {} /\ r.followups = {} /\ r.region = {} /\ r.crossing = {}

Launches(r)    == Operations(r.program) \ r.skipped
Roots(r, S)    == {r.root[t] : t \in S}
Reads(r, i)    == Roots(r, r.launch[i].reads)
Writes(r, i)   == Roots(r, r.launch[i].writes)
Users(r, t)    == {i \in Launches(r) : t \in Reads(r, i) \cup Writes(r, i)}
Writers(r, t)  == {i \in Launches(r) : t \in Writes(r, i)}
Streamed(r, t) == r.first[t] # None
Output(r, t)   == \E u \in Tensors : HasRole(r.program, u, "Output") /\ r.root[u] = t
Lasting(r, t)  == Uploaded(r, t) \/ t \in r.resident \/ Output(r, t)
InUse(r, t)    == r.root[t] = t /\ (Users(r, t) # {} \/ Streamed(r, t) \/ Output(r, t))

(* How many operations later than the one that frees its slot a constant   *)
(* is first used, at least.                                                *)
Lead(r) == IF r.overlap THEN r.depth ELSE 1

(* Storage of t may be given to u: whatever uses t is over when u is       *)
(* brought or written, and t itself was brought before u.                  *)
Precedes(r, t, u) ==
  /\ ~Lasting(r, t) /\ ~Uploaded(r, u) /\ u \notin r.resident
  /\ \A i \in Users(r, t) : /\ Streamed(r, u) => i <= r.release[u]
                            /\ \A j \in Users(r, u) : i < j
  /\ Streamed(r, t) => /\ \A j \in Users(r, u) : r.first[t] < j
                       /\ Streamed(r, u) => r.first[t] < r.first[u]

RootsBound(r) ==
  \A t \in Tensors : r.root[r.root[t]] = r.root[t] /\ r.place[r.root[t]] = r.place[t]

OperandsComeFirst(r) ==
  \A i \in Launches(r) : \A t \in Reads(r, i) :
    \/ Uploaded(r, t)
    \/ Streamed(r, t) /\ r.first[t] <= i
    \/ \E j \in Writers(r, t) : j < i

WrittenOnce(r) ==
  \A t \in Tensors :
    /\ \A i, j \in Writers(r, t) : i = j
    /\ Writers(r, t) # {} => ~Uploaded(r, t) /\ ~Streamed(r, t)
    /\ Output(r, t) => Uploaded(r, t) \/ Writers(r, t) # {}

StreamedByFirst(r) ==
  \A t \in Tensors : Streamed(r, t) =>
    /\ t \in r.program.inputs[r.first[t]] /\ r.root[t] = t /\ ~Uploaded(r, t)
    /\ t \in r.resident => t \in r.lazy /\ r.release[t] = None
    /\ r.release[t] # None => r.release[t] + Lead(r) <= r.first[t]

SlotsShared(r) ==
  \A t, u \in Tensors :
    InUse(r, t) /\ InUse(r, u) /\ t # u /\ r.place[t] = r.place[u] =>
      Precedes(r, t, u) \/ Precedes(r, u, t)

UploadsApart(r) ==
  \A t, u \in Tensors :
    InUse(r, t) /\ Uploaded(r, t) /\ Uploaded(r, u) /\ r.place[t] = r.place[u] => t = u

(* Each operation is performed by one launch, after what it depends on.    *)
PerformedBy(r, S) == UNION {r.launch[i].performs : i \in S}
PerformedOnce(r) ==
  /\ \A i, j \in Launches(r) : i # j => r.launch[i].performs \cap r.launch[j].performs = {}
  /\ \A i \in Launches(r) : r.launch[i].performs # {}
  /\ PerformedBy(r, Launches(r)) = Operations(r.program)
  /\ \A i \in Launches(r) : \A k \in r.launch[i].performs : \A t \in r.program.inputs[k] :
       Producers(r.program, t) \subseteq PerformedBy(r, {j \in Launches(r) : j <= i})

Scheduled(r) ==
  /\ r.depth > 0
  /\ RootsBound(r) /\ OperandsComeFirst(r) /\ WrittenOnce(r) /\ StreamedByFirst(r)
  /\ SlotsShared(r) /\ UploadsApart(r) /\ PerformedOnce(r)

-----------------------------------------------------------------------------
(* The run performs the program: each operation once per iteration, after  *)
(* the operations it depends on, until all iterations are complete.        *)
Abstract == INSTANCE ProgramExecution WITH job <- run
PerformsProgram == Abstract!Spec
=============================================================================
