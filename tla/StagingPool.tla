---------------------------- MODULE StagingPool ----------------------------
(***************************************************************************)
(* StagingPool: one copy from mapped file pages to a pinned staging buffer,*)
(* split into chunks that the calling thread and a pool of workers claim   *)
(* from the job's cursor.  The buffer is used again for the next copy, so  *)
(* a worker that is late for one copy must not touch the next one.         *)
(*                                                                         *)
(* Sizes are counted in chunks of kStageChunkBytes.  The steps of a thread *)
(* are its critical sections, its atomic operations and its memcpy calls.  *)
(***************************************************************************)
EXTENDS Integers, FiniteSets

CONSTANTS
  Workers,    (* workers_: the threads of the pool.                        *)
  Caller,     (* The thread that calls copy() and the destructor.          *)
  Copies,     (* Bound on the number of copies.                            *)
  MaxChunks,  (* Bound on the chunks of one copy.                          *)
  Sources,    (* What a source may hold.                                   *)
  Blank       (* What a fresh buffer holds.                                *)

ASSUME CallerAssumption == Caller \notin Workers
ASSUME BoundsAssumption == Copies \in Nat /\ MaxChunks \in Nat
ASSUME BlankAssumption  == Blank \notin Sources

VARIABLES
  pc,               (* Where every thread is.                              *)
  held,             (* The job each thread works on, 0 for none.           *)
  chunk,            (* The chunk each thread has claimed.                  *)
  seen,             (* The generation each worker has seen.                *)
  job,              (* The job of the last copy().                         *)
  size,             (* StageJob::bytes of every job,                       *)
  source,           (*   StageJob::source,                                 *)
  next_chunk,       (*   StageJob::next_chunk,                             *)
  completed_bytes,  (*   StageJob::completed_bytes.                        *)
  job_,             (* The job the pool has published.                     *)
  generation,       (* generation_                                         *)
  stopping,         (* stopping_                                           *)
  buffer            (* What every chunk of the staging buffer holds.       *)

threadVars == <<pc, held, chunk, seen>>
jobVars    == <<job, size, source, next_chunk, completed_bytes>>
poolVars   == <<threadVars, jobVars, job_, generation, stopping>>

Threads == Workers \cup {Caller}
Jobs    == 1 .. Copies
Chunks  == 0 .. MaxChunks - 1
Contents == Sources \cup {Blank}

PoolInit ==
  /\ pc = [t \in Threads |-> IF t = Caller THEN "ready" ELSE "lock"]
  /\ held  = [t \in Threads |-> 0]
  /\ chunk = [t \in Threads |-> 0]
  /\ seen  = [t \in Threads |-> 0]
  /\ job = 0
  /\ size   = [j \in Jobs |-> 0]
  /\ source = [j \in Jobs |-> Blank]
  /\ next_chunk      = [j \in Jobs |-> 0]
  /\ completed_bytes = [j \in Jobs |-> 0]
  /\ job_ = 0
  /\ generation = 0
  /\ stopping = FALSE

-----------------------------------------------------------------------------
(* copy() without workers, or of less than two chunks: a plain memcpy.  A  *)
(* copy of two started chunks may be shorter than two full ones.           *)
PlainCopy(n, s) ==
  /\ pc[Caller] = "ready"
  /\ job < Copies
  /\ Workers = {} \/ n <= 2
  /\ job' = job + 1
  /\ size'   = [size EXCEPT ![job + 1] = n]
  /\ source' = [source EXCEPT ![job + 1] = s]
  /\ next_chunk' = [next_chunk EXCEPT ![job + 1] = n]
  /\ completed_bytes' = [completed_bytes EXCEPT ![job + 1] = n]
  /\ buffer' = [c \in Chunks |-> IF c < n THEN s ELSE buffer[c]]
  /\ UNCHANGED <<threadVars, job_, generation, stopping>>

(* copy() publishes a job under the lock and wakes the workers.            *)
Publish(n, s) ==
  /\ pc[Caller] = "ready"
  /\ job < Copies
  /\ Workers # {} /\ n >= 2
  /\ job' = job + 1
  /\ size'   = [size EXCEPT ![job + 1] = n]
  /\ source' = [source EXCEPT ![job + 1] = s]
  /\ job_' = job + 1
  /\ generation' = generation + 1
  /\ held' = [held EXCEPT ![Caller] = job + 1]
  /\ pc' = [pc EXCEPT ![Caller] = "notify"]
  /\ UNCHANGED <<chunk, seen, next_chunk, completed_bytes, stopping, buffer>>

(* notify_all: every blocked worker goes for the lock again.               *)
Woken(next) ==
  [t \in Threads |-> IF t = Caller THEN next
                     ELSE IF pc[t] = "blocked" THEN "lock" ELSE pc[t]]

Notify ==
  /\ pc[Caller] = "notify"
  /\ pc' = Woken("claim")
  /\ UNCHANGED <<held, chunk, seen, jobVars, job_, generation, stopping, buffer>>

Exhausted(j) == next_chunk[j] >= size[j]

(* participate(): claim a chunk, or find the cursor exhausted.             *)
Claim(t) ==
  /\ pc[t] = "claim"
  /\ next_chunk' = [next_chunk EXCEPT ![held[t]] = @ + 1]
  /\ IF Exhausted(held[t])
     THEN /\ pc' = [pc EXCEPT ![t] = IF t = Caller THEN "await" ELSE "lock"]
          /\ UNCHANGED chunk
     ELSE /\ pc' = [pc EXCEPT ![t] = "copy"]
          /\ chunk' = [chunk EXCEPT ![t] = next_chunk[held[t]]]
  /\ UNCHANGED <<held, seen, job, size, source, completed_bytes, job_, generation,
                 stopping, buffer>>

Copied(t) == [buffer EXCEPT ![chunk[t]] = source[held[t]]]

CopyChunk(t) ==
  /\ pc[t] = "copy"
  /\ buffer' = Copied(t)
  /\ pc' = [pc EXCEPT ![t] = "count"]
  /\ UNCHANGED <<held, chunk, seen, jobVars, job_, generation, stopping>>

CountChunk(t) ==
  /\ pc[t] = "count"
  /\ completed_bytes' = [completed_bytes EXCEPT ![held[t]] = @ + 1]
  /\ pc' = [pc EXCEPT ![t] = "claim"]
  /\ UNCHANGED <<held, chunk, seen, job, size, source, next_chunk, job_, generation,
                 stopping, buffer>>

(* Mutant: the caller leaves when the cursor is exhausted.                 *)
AllCounted_Claimed == Exhausted(job)

AllCounted == completed_bytes[job] = size[job]

Return ==
  /\ pc[Caller] = "await"
  /\ AllCounted
  /\ pc' = [pc EXCEPT ![Caller] = "ready"]
  /\ UNCHANGED <<held, chunk, seen, jobVars, job_, generation, stopping, buffer>>

-----------------------------------------------------------------------------
(* work(): the critical section of a worker, entered at first, after a     *)
(* job, and whenever it is woken.                                          *)
Leave(w) ==
  /\ w # Caller /\ pc[w] = "lock"
  /\ stopping
  /\ pc' = [pc EXCEPT ![w] = "gone"]
  /\ UNCHANGED <<held, chunk, seen, jobVars, job_, generation, stopping, buffer>>

Take(w) ==
  /\ w # Caller /\ pc[w] = "lock"
  /\ ~stopping /\ generation # seen[w]
  /\ seen' = [seen EXCEPT ![w] = generation]
  /\ held' = [held EXCEPT ![w] = job_]
  /\ pc' = [pc EXCEPT ![w] = "claim"]
  /\ UNCHANGED <<chunk, jobVars, job_, generation, stopping, buffer>>

Block(w) ==
  /\ w # Caller /\ pc[w] = "lock"
  /\ ~stopping /\ generation = seen[w]
  /\ pc' = [pc EXCEPT ![w] = "blocked"]
  /\ UNCHANGED <<held, chunk, seen, jobVars, job_, generation, stopping, buffer>>

(* The destructor.                                                         *)
Stop ==
  /\ pc[Caller] = "ready"
  /\ stopping' = TRUE
  /\ pc' = [pc EXCEPT ![Caller] = "stop"]
  /\ UNCHANGED <<held, chunk, seen, jobVars, job_, generation, buffer>>

WakeToStop_Nobody == [pc EXCEPT ![Caller] = "join"]  \* Mutant: no notify_all.
WakeToStop == Woken("join")

NotifyStop ==
  /\ pc[Caller] = "stop"
  /\ pc' = WakeToStop
  /\ UNCHANGED <<held, chunk, seen, jobVars, job_, generation, stopping, buffer>>

Join ==
  /\ pc[Caller] = "join"
  /\ \A w \in Workers : pc[w] = "gone"
  /\ pc' = [pc EXCEPT ![Caller] = "gone"]
  /\ UNCHANGED <<held, chunk, seen, jobVars, job_, generation, stopping, buffer>>

-----------------------------------------------------------------------------
Begin == \E n \in 1 .. MaxChunks, s \in Sources : PlainCopy(n, s) \/ Publish(n, s)

Work(t) == Claim(t) \/ CopyChunk(t) \/ CountChunk(t)

CallerStep == Notify \/ Work(Caller) \/ Return \/ NotifyStop \/ Join
WorkerStep(w) == Leave(w) \/ Take(w) \/ Block(w) \/ Work(w)

Init == PoolInit /\ buffer = [c \in Chunks |-> Blank]
Next == Begin \/ Stop \/ CallerStep \/ \E w \in Workers : WorkerStep(w)

Spec == Init /\ [][Next]_<<poolVars, buffer>>
-----------------------------------------------------------------------------
CallerPlaces == {"ready", "notify", "claim", "copy", "count", "await", "stop", "join", "gone"}
WorkerPlaces == {"lock", "blocked", "claim", "copy", "count", "gone"}

PoolTypeOK ==
  /\ pc \in [Threads -> CallerPlaces \cup WorkerPlaces]
  /\ pc[Caller] \in CallerPlaces
  /\ \A w \in Workers : pc[w] \in WorkerPlaces
  /\ held  \in [Threads -> 0 .. Copies]
  /\ chunk \in [Threads -> Nat]
  /\ seen  \in [Threads -> 0 .. Copies]
  /\ job \in 0 .. Copies
  /\ size   \in [Jobs -> 0 .. MaxChunks]
  /\ source \in [Jobs -> Contents]
  /\ next_chunk      \in [Jobs -> Nat]
  /\ completed_bytes \in [Jobs -> Nat]
  /\ job_ \in 0 .. Copies
  /\ generation \in 0 .. Copies
  /\ stopping \in BOOLEAN
  /\ buffer \in [Chunks -> Contents]

(* When copy() returns, the whole buffer holds the source of this copy, no *)
(* matter which threads copied it and when they were scheduled.            *)
CopyComplete ==
  pc[Caller] = "await" /\ AllCounted =>
    \A c \in 0 .. size[job] - 1 : buffer[c] = source[job]

(* A worker never writes the buffer after the copy it belongs to returned: *)
(* consecutive jobs cannot tear.                                           *)
NoLateWrites ==
  \A w \in Workers : pc[w] = "copy" =>
    held[w] = job /\ pc[Caller] \in {"notify", "claim", "copy", "count", "await"}
=============================================================================
