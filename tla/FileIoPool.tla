----------------------------- MODULE FileIoPool -----------------------------
(***************************************************************************)
(* FileIoPool, the queue of file reads performed by a pool of threads, and *)
(* MappedStorage::read_direct, which splits one read into jobs for it and  *)
(* waits on a latch for the last one.  The same queue carries reads that   *)
(* only warm the page cache; nobody waits for those.                       *)
(*                                                                         *)
(* A job is a record of its request (0 for warming) and its chunk.  Reads  *)
(* succeed or fail as the file system pleases.                             *)
(***************************************************************************)
EXTENDS Integers, Sequences, FiniteSets

CONSTANTS
  IoThreads,  (* workers_                                                  *)
  Requests,   (* Bound on the number of read_direct calls.                 *)
  MaxChunks,  (* Bound on the chunks of one read.                          *)
  MaxJobs,    (* Bound on the jobs waiting in the queue.                   *)
  Sources,    (* What a range of the file may hold.                        *)
  Blank       (* What is read before the first call.                       *)

VARIABLES
  jobs_,       (* The queue.                                               *)
  io,          (* Where every I/O thread is.                               *)
  taken,       (* The job each I/O thread took last.                       *)
  stop_,       (* stop_                                                    *)
  reader,      (* Where the thread that calls read_direct is.              *)
  request,     (* The number of read_direct calls so far.                  *)
  extent,      (* How many chunks the current call reads,                  *)
  content,     (*   what they hold in the file,                            *)
  submitted,   (*   and how many were submitted.                           *)
  pending,     (* DirectReadRequest::pending                               *)
  failed,      (* DirectReadRequest::failed                                *)
  to_notify,   (* The calls of notify_one that submit() has still to make. *)
  buffer       (* What every chunk of the destination holds.               *)

callVars == <<reader, request, extent, content, submitted>>
ioVars   == <<jobs_, io, taken, stop_, callVars, pending, failed, to_notify>>

Calls  == 1 .. Requests
Chunks == 0 .. MaxChunks - 1
Job    == [request : 0 .. Requests, chunk : 0 .. MaxChunks]
Warm   == [request |-> 0, chunk |-> 0]

IoInit ==
  /\ jobs_ = <<>>
  /\ io    = [w \in IoThreads |-> "lock"]
  /\ taken = [w \in IoThreads |-> Warm]
  /\ stop_ = FALSE
  /\ reader = "ready"
  /\ request = 0
  /\ extent = 0
  /\ content = Blank
  /\ submitted = 0
  /\ pending = [r \in Calls |-> 0]
  /\ failed  = [r \in Calls |-> FALSE]
  /\ to_notify = FALSE

-----------------------------------------------------------------------------
(* submit(): the push under the lock, then notify_one outside it.          *)
Push(job) ==
  /\ ~to_notify
  /\ Len(jobs_) < MaxJobs
  /\ jobs_' = Append(jobs_, job)
  /\ to_notify' = TRUE

Notified_Nobody == UNCHANGED io        \* Mutant: submit() without notify_one.
Notified ==
  IF \E w \in IoThreads : io[w] = "blocked"
  THEN \E w \in IoThreads : io[w] = "blocked" /\ io' = [io EXCEPT ![w] = "lock"]
  ELSE UNCHANGED io

NotifyOne ==
  /\ to_notify
  /\ to_notify' = FALSE
  /\ Notified
  /\ UNCHANGED <<jobs_, taken, stop_, callVars, pending, failed, buffer>>

(* prefetch(): one warming job; a range is several of these.               *)
WarmPages ==
  /\ reader = "ready"
  /\ Push(Warm)
  /\ UNCHANGED <<io, taken, stop_, callVars, pending, failed, buffer>>

ReadDirect(n, s) ==
  /\ reader = "ready" /\ ~to_notify
  /\ request < Requests
  /\ request' = request + 1
  /\ extent' = n
  /\ content' = s
  /\ submitted' = 0
  /\ pending' = [pending EXCEPT ![request + 1] = n]
  /\ reader' = "submit"
  /\ UNCHANGED <<jobs_, io, taken, stop_, failed, to_notify, buffer>>

SubmitChunk ==
  /\ reader = "submit"
  /\ submitted < extent
  /\ Push([request |-> request, chunk |-> submitted])
  /\ submitted' = submitted + 1
  /\ UNCHANGED <<io, taken, stop_, reader, request, extent, content, pending,
                 failed, buffer>>

(* done.wait(): the predicate is looked at under the request's mutex.      *)
WaitDone ==
  /\ reader = "submit"
  /\ submitted = extent /\ ~to_notify
  /\ reader' = "check"
  /\ UNCHANGED <<jobs_, io, taken, stop_, request, extent, content, submitted,
                 pending, failed, to_notify, buffer>>

Finished_AnyChunk(r) == pending[r] < extent     \* Mutant: one chunk is enough.
Finished(r) == pending[r] = 0

CheckDone ==
  /\ reader = "check"
  /\ reader' = IF ~Finished(request) THEN "waiting"
               ELSE IF failed[request] THEN "false" ELSE "true"
  /\ UNCHANGED <<jobs_, io, taken, stop_, request, extent, content, submitted,
                 pending, failed, to_notify, buffer>>

(* The caller of read_direct goes on with its answer.                      *)
Answered ==
  /\ reader \in {"true", "false"}
  /\ reader' = "ready"
  /\ UNCHANGED <<jobs_, io, taken, stop_, request, extent, content, submitted,
                 pending, failed, to_notify, buffer>>

-----------------------------------------------------------------------------
(* loop(): the critical section of an I/O thread.                          *)
IoLeave(w) ==
  /\ io[w] = "lock" /\ stop_
  /\ io' = [io EXCEPT ![w] = "gone"]
  /\ UNCHANGED <<jobs_, taken, stop_, callVars, pending, failed, to_notify, buffer>>

IoBlock(w) ==
  /\ io[w] = "lock" /\ ~stop_ /\ jobs_ = <<>>
  /\ io' = [io EXCEPT ![w] = "blocked"]
  /\ UNCHANGED <<jobs_, taken, stop_, callVars, pending, failed, to_notify, buffer>>

IoTake(w) ==
  /\ io[w] = "lock" /\ ~stop_ /\ jobs_ # <<>>
  /\ jobs_' = Tail(jobs_)
  /\ taken' = [taken EXCEPT ![w] = Head(jobs_)]
  /\ io' = [io EXCEPT ![w] = IF Head(jobs_) = Warm THEN "warm" ELSE "read"]
  /\ UNCHANGED <<stop_, callVars, pending, failed, to_notify, buffer>>

(* A warming job reads into a scratch buffer of its thread.                *)
WarmRead(w) ==
  /\ io[w] = "warm"
  /\ io' = [io EXCEPT ![w] = "lock"]
  /\ UNCHANGED <<jobs_, taken, stop_, callVars, pending, failed, to_notify, buffer>>

(* A direct job reads its chunk and copies it to the destination; or a     *)
(* read, or the bounce buffer's allocation, fails.                         *)
ChunkRead(w) ==
  /\ io[w] = "read"
  /\ buffer' = [buffer EXCEPT ![taken[w].chunk] = content]
  /\ io' = [io EXCEPT ![w] = "ok"]
  /\ UNCHANGED <<jobs_, taken, stop_, callVars, pending, failed, to_notify>>

ChunkFails(w) ==
  /\ io[w] = "read"
  /\ io' = [io EXCEPT ![w] = "not ok"]
  /\ UNCHANGED <<jobs_, taken, stop_, callVars, pending, failed, to_notify, buffer>>

Failed_LastWins(w) == io[w] = "not ok"     \* Mutant: failed = !ok.
Failed(w) == io[w] = "not ok" \/ failed[taken[w].request]

Remaining(w) == pending[taken[w].request] - 1

Latch(w) ==
  /\ io[w] \in {"ok", "not ok"}
  /\ failed' = [failed EXCEPT ![taken[w].request] = Failed(w)]
  /\ pending' = [pending EXCEPT ![taken[w].request] = Remaining(w)]
  /\ reader' = IF pending'[taken[w].request] = 0 /\ reader = "waiting"
               THEN "check" ELSE reader
  /\ io' = [io EXCEPT ![w] = "lock"]
  /\ UNCHANGED <<jobs_, taken, stop_, request, extent, content, submitted,
                 to_notify, buffer>>

(* ~FileIoPool at exit.                                                    *)
Exit ==
  /\ reader = "ready" /\ ~to_notify
  /\ stop_' = TRUE
  /\ jobs_' = <<>>
  /\ reader' = "exit"
  /\ UNCHANGED <<io, taken, request, extent, content, submitted, pending, failed,
                 to_notify, buffer>>

NotifyExit ==
  /\ reader = "exit"
  /\ io' = [w \in IoThreads |-> IF io[w] = "blocked" THEN "lock" ELSE io[w]]
  /\ reader' = "join"
  /\ UNCHANGED <<jobs_, taken, stop_, request, extent, content, submitted, pending,
                 failed, to_notify, buffer>>

JoinIo ==
  /\ reader = "join"
  /\ \A w \in IoThreads : io[w] = "gone"
  /\ reader' = "gone"
  /\ UNCHANGED <<jobs_, io, taken, stop_, request, extent, content, submitted,
                 pending, failed, to_notify, buffer>>

-----------------------------------------------------------------------------
ReaderStep == NotifyOne \/ SubmitChunk \/ WaitDone \/ CheckDone \/ NotifyExit \/ JoinIo

IoStep(w) ==
  \/ IoLeave(w) \/ IoBlock(w) \/ IoTake(w)
  \/ WarmRead(w) \/ ChunkRead(w) \/ ChunkFails(w) \/ Latch(w)
-----------------------------------------------------------------------------
IoTypeOK ==
  /\ jobs_ \in Seq(Job) /\ Len(jobs_) <= MaxJobs
  /\ taken \in [IoThreads -> Job]
  /\ io \in [IoThreads -> {"lock", "blocked", "warm", "read", "ok", "not ok", "gone"}]
  /\ reader \in {"ready", "submit", "check", "waiting", "true", "false", "exit", "join", "gone"}
  /\ request \in 0 .. Requests
  /\ extent \in 0 .. MaxChunks /\ submitted \in 0 .. extent
  /\ content \in Sources \cup {Blank}
  /\ pending \in [Calls -> 0 .. MaxChunks]
  /\ failed \in [Calls -> BOOLEAN]
  /\ stop_ \in BOOLEAN /\ to_notify \in BOOLEAN
  /\ buffer \in [Chunks -> Sources \cup {Blank}]

(* read_direct says true only when every chunk of the range has arrived in *)
(* the destination, whichever threads read them and in whatever order.     *)
DirectReadComplete ==
  reader = "true" => \A c \in 0 .. extent - 1 : buffer[c] = content

(* Once read_direct has answered, true or false, none of its jobs is       *)
(* queued or under way: the caller may use the destination again, and the  *)
(* pool's destructor has only warming jobs to drop.                        *)
Unfinished ==
  {w \in IoThreads : io[w] \in {"read", "ok", "not ok"}}
NoJobOutlivesItsRead ==
  reader \notin {"submit", "check", "waiting"} =>
    Unfinished = {} /\ \A k \in DOMAIN jobs_ : jobs_[k] = Warm
=============================================================================
