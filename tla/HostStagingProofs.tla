-------------------------- MODULE HostStagingProofs --------------------------
(***************************************************************************)
(* StagingPool::copy, and the staging of a constant through a direct read  *)
(* or such a copy, are right for any number of threads, constants, chunks  *)
(* and queued jobs.                                                        *)
(*                                                                         *)
(* Of the pool alone: the counter of a job is the number of chunks that    *)
(* were claimed and are in nobody's hand, so a full counter means that     *)
(* nobody holds a chunk of the job any more.                               *)
(*                                                                         *)
(* Of the pool beside direct reads: that invariant still holds although    *)
(* the buffer is also written by the file threads, which write it only     *)
(* while the caller of the pool is not copying.  The latch of a direct     *)
(* read counts the chunks that are open: not submitted, queued, or in a    *)
(* thread's hand.                                                          *)
(***************************************************************************)
EXTENDS HostStaging, FiniteSetTheorems, TLAPS

Copying == {"notify", "claim", "copy", "count", "await"}
Busy(t) == pc[t] \in {"copy", "count"}

(* Thread t has claimed chunk c of job j and has not counted it.           *)
InHand(j, c) == \E t \in Threads : Busy(t) /\ held[t] = j /\ chunk[t] = c

Counted(j) == {c \in 0 .. size[j] - 1 : c < next_chunk[j] /\ ~InHand(j, c)}

Holding   == \A t \in Threads : pc[t] \in {"claim", "copy", "count"} => held[t] \in 1 .. job
Published == /\ generation <= job
             /\ generation > 0 => job_ \in 1 .. job
             /\ \A w \in Workers : seen[w] <= generation
CallerHolds == pc[Caller] \in Copying => job \in Jobs /\ held[Caller] = job
Claims    == \A t \in Threads : Busy(t) =>
               /\ chunk[t] \in 0 .. size[held[t]] - 1
               /\ chunk[t] < next_chunk[held[t]]
Exclusive == \A t, u \in Threads :
               t # u /\ Busy(t) /\ Busy(u) /\ held[t] = held[u] => chunk[t] # chunk[u]
Counts    == \A j \in 1 .. job : completed_bytes[j] = Cardinality(Counted(j))
Finished  == \A j \in 1 .. job :
               j < job \/ pc[Caller] \notin Copying => completed_bytes[j] = size[j]
Written   == pc[Caller] \in Copying =>
               /\ \A c \in Counted(job) : buffer[c] = source[job]
               /\ \A t \in Threads : pc[t] = "count" /\ held[t] = job =>
                    buffer[chunk[t]] = source[job]
Fresh     == \A j \in Jobs : j > job => next_chunk[j] = 0 /\ completed_bytes[j] = 0

IInv == /\ PoolTypeOK /\ Holding /\ Published /\ CallerHolds /\ Claims
        /\ Exclusive /\ Counts /\ Finished /\ Written /\ Fresh

-----------------------------------------------------------------------------
LEMMA CountedFinite ==
  ASSUME PoolTypeOK, NEW j \in Jobs
  PROVE  /\ Counted(j) \subseteq 0 .. size[j] - 1
         /\ IsFiniteSet(Counted(j)) /\ Cardinality(Counted(j)) \in Nat
         /\ IsFiniteSet(0 .. size[j] - 1) /\ Cardinality(0 .. size[j] - 1) = size[j]
<1>1. size[j] \in Nat
  BY DEF PoolTypeOK
<1>2. Counted(j) \subseteq 0 .. size[j] - 1
  BY DEF Counted
<1>3. IsFiniteSet(0 .. size[j] - 1) /\ Cardinality(0 .. size[j] - 1) = size[j]
  BY <1>1, FS_Interval
<1>4. QED
  BY <1>2, <1>3, FS_Subset, FS_CardinalityType

(* A full counter: every chunk was counted, and nobody holds one.          *)
LEMMA FullCounter ==
  ASSUME IInv, NEW j \in 1 .. job, completed_bytes[j] = size[j]
  PROVE  /\ Counted(j) = 0 .. size[j] - 1
         /\ \A t \in Threads : held[t] = j => ~Busy(t)
<1>1. j \in Jobs
  BY BoundsAssumption DEF IInv, PoolTypeOK, Jobs
<1>2. Counted(j) = 0 .. size[j] - 1
  <2>1. Cardinality(Counted(j)) = Cardinality(0 .. size[j] - 1)
    BY <1>1, CountedFinite DEF IInv, Counts
  <2>2. QED
    BY <1>1, <2>1, CountedFinite, FS_Subset DEF IInv
<1>3. ASSUME NEW t \in Threads, held[t] = j, Busy(t) PROVE FALSE
  <2>1. chunk[t] \in 0 .. size[j] - 1
    BY <1>3 DEF IInv, Claims
  <2>2. chunk[t] \in Counted(j)
    BY <1>2, <2>1
  <2>3. QED
    BY <1>3, <2>2 DEF Counted, InHand
<1>4. QED
  BY <1>2, <1>3

LEMMA InitIInv == Init => IInv
<1> SUFFICES ASSUME Init PROVE IInv
  OBVIOUS
<1>1. PoolTypeOK
  <2>1. pc \in [Threads -> CallerPlaces \cup WorkerPlaces] /\ pc[Caller] \in CallerPlaces
    BY DEF Init, PoolInit, Threads, CallerPlaces, WorkerPlaces
  <2>2. \A w \in Workers : pc[w] \in WorkerPlaces
    BY CallerAssumption DEF Init, PoolInit, Threads, WorkerPlaces
  <2>3. source \in [Jobs -> Contents] /\ buffer \in [Chunks -> Contents]
    BY DEF Init, PoolInit, Contents
  <2>4. stopping \in BOOLEAN
    BY Zenon DEF Init, PoolInit
  <2>5. QED
    BY <2>1, <2>2, <2>3, <2>4, BoundsAssumption DEF Init, PoolInit, PoolTypeOK
<1>2. \A t \in Threads : pc[t] \in {"ready", "lock"}
  BY DEF Init, PoolInit
<1>3. Holding /\ CallerHolds /\ Claims /\ Exclusive
  BY <1>2 DEF Holding, CallerHolds, Claims, Exclusive, Busy, Copying, Threads
<1>4. Published /\ Counts /\ Finished /\ Written /\ Fresh
  BY <1>2 DEF Init, PoolInit, Published, Counts, Finished, Written, Fresh, Copying, Threads
<1>5. QED
  BY <1>1, <1>3, <1>4 DEF IInv

-----------------------------------------------------------------------------
(* Steps after which every thread has the same chunks in hand as before.   *)
SameJobs  == UNCHANGED <<job, size, source, next_chunk, completed_bytes, buffer>>
SameHands == /\ UNCHANGED chunk
             /\ pc'[Caller] \in Copying => pc[Caller] \in Copying
             /\ \A t \in Threads : /\ pc'[t] = "copy"  <=> pc[t] = "copy"
                                   /\ pc'[t] = "count" <=> pc[t] = "count"
                                   /\ Busy(t) => held'[t] = held[t]

LEMMA SameHandsKeep ==
  ASSUME IInv, SameJobs, SameHands
  PROVE  Claims' /\ Exclusive' /\ Counts' /\ Written' /\ Fresh'
<1>1. \A t \in Threads : Busy(t)' <=> Busy(t)
  BY DEF SameHands, Busy
<1>2. \A j \in Int : \A c \in Int : InHand(j, c)' <=> InHand(j, c)
  BY <1>1 DEF SameHands, InHand
<1>3. \A j \in 1 .. job : Counted(j)' = Counted(j)
  <2>1. ASSUME NEW j \in 1 .. job PROVE Counted(j)' = Counted(j)
    BY <1>2 DEF SameJobs, Counted
  <2>2. QED
    BY <2>1
<1>4. Claims' /\ Exclusive'
  BY <1>1 DEF IInv, Claims, Exclusive, SameHands, SameJobs
<1>5. Counts'
  BY <1>3 DEF IInv, Counts, SameJobs
<1>6. Written'
  <2>1. ASSUME pc[Caller] \in Copying PROVE job \in 1 .. job
    BY <2>1, BoundsAssumption DEF IInv, CallerHolds, Jobs
  <2>2. QED
    BY <1>3, <2>1 DEF IInv, Written, SameJobs, SameHands, Busy
<1>7. Fresh'
  BY DEF IInv, Fresh, SameJobs
<1>8. QED
  BY <1>4, <1>5, <1>6, <1>7

LEMMA NotifyKeeps == ASSUME IInv, Notify PROVE IInv'
<1>1. \A t \in Threads : /\ t = Caller => pc'[t] = "claim" /\ pc[t] = "notify"
                         /\ t # Caller => pc'[t] = pc[t] \/ (pc[t] = "blocked" /\ pc'[t] = "lock")
  BY DEF Notify, Woken, Threads
<1>2. PoolTypeOK'
  <2>1. pc' \in [Threads -> CallerPlaces \cup WorkerPlaces] /\ pc'[Caller] \in CallerPlaces
    BY DEF IInv, PoolTypeOK, Notify, Woken, Threads, CallerPlaces, WorkerPlaces
  <2>2. \A w \in Workers : pc'[w] \in WorkerPlaces
    BY CallerAssumption DEF IInv, PoolTypeOK, Notify, Woken, Threads, WorkerPlaces
  <2>3. QED
    BY <2>1, <2>2 DEF IInv, PoolTypeOK, Notify, jobVars
<1>3. SameJobs /\ SameHands
  BY <1>1 DEF Notify, jobVars, SameJobs, SameHands, Busy, Copying
<1>4. Holding' /\ Published' /\ CallerHolds' /\ Finished'
  <2>1. pc[Caller] \in Copying /\ pc'[Caller] \in Copying
    BY <1>1 DEF Copying, Threads
  <2>2. held[Caller] \in 1 .. job
    BY <2>1, BoundsAssumption DEF IInv, CallerHolds, Jobs
  <2>3. Holding'
    BY <1>1, <2>2 DEF IInv, Holding, Notify, jobVars
  <2>4. Published' /\ CallerHolds' /\ Finished'
    BY <2>1 DEF IInv, Notify, jobVars, Published, CallerHolds, Finished
  <2>5. QED
    BY <2>3, <2>4
<1>5. QED
  BY <1>2, <1>3, <1>4, SameHandsKeep DEF IInv

LEMMA ReturnKeeps == ASSUME IInv, Return PROVE IInv'
<1>1. PoolTypeOK'
  BY CallerAssumption DEF IInv, PoolTypeOK, Return, jobVars, Threads, CallerPlaces, WorkerPlaces
<1>2. SameJobs /\ SameHands
  BY CallerAssumption DEF IInv, PoolTypeOK, Return, jobVars, SameJobs, SameHands, Copying, Threads
<1>3. Holding' /\ Published' /\ CallerHolds'
  BY CallerAssumption
     DEF IInv, PoolTypeOK, Return, jobVars, Holding, Published, CallerHolds, Copying, Threads
<1>4. Finished'
  BY DEF IInv, PoolTypeOK, Return, AllCounted, jobVars, Finished, Copying
<1>5. QED
  BY <1>1, <1>2, <1>3, <1>4, SameHandsKeep DEF IInv

LEMMA LeaveKeeps == ASSUME IInv, NEW w \in Workers, Leave(w) PROVE IInv'
<1>1. PoolTypeOK'
  BY CallerAssumption DEF IInv, PoolTypeOK, Leave, jobVars, Threads, CallerPlaces, WorkerPlaces
<1>2. SameJobs /\ SameHands
  BY CallerAssumption DEF IInv, PoolTypeOK, Leave, jobVars, SameJobs, SameHands, Copying, Threads
<1>3. Holding' /\ Published' /\ CallerHolds' /\ Finished'
  BY CallerAssumption
     DEF IInv, PoolTypeOK, Leave, jobVars, Holding, Published, CallerHolds, Finished, Copying, Threads
<1>4. QED
  BY <1>1, <1>2, <1>3, SameHandsKeep DEF IInv

LEMMA TakeKeeps == ASSUME IInv, NEW w \in Workers, Take(w) PROVE IInv'
<1>1. generation \in Nat /\ generation > 0 /\ job_ \in 1 .. job
  BY DEF IInv, PoolTypeOK, Published, Take, Threads
<1>2. PoolTypeOK'
  BY <1>1, CallerAssumption DEF IInv, PoolTypeOK, Take, jobVars, Threads, CallerPlaces, WorkerPlaces
<1>3. SameJobs /\ SameHands
  BY CallerAssumption DEF IInv, PoolTypeOK, Take, jobVars, SameJobs, SameHands, Busy, Copying, Threads
<1>4. Holding' /\ Published' /\ CallerHolds' /\ Finished'
  BY <1>1, CallerAssumption
     DEF IInv, PoolTypeOK, Take, jobVars, Holding, Published, CallerHolds, Finished, Copying, Threads
<1>5. QED
  BY <1>2, <1>3, <1>4, SameHandsKeep DEF IInv

LEMMA BlockKeeps == ASSUME IInv, NEW w \in Workers, Block(w) PROVE IInv'
<1>1. PoolTypeOK'
  BY CallerAssumption DEF IInv, PoolTypeOK, Block, jobVars, Threads, CallerPlaces, WorkerPlaces
<1>2. SameJobs /\ SameHands
  BY CallerAssumption DEF IInv, PoolTypeOK, Block, jobVars, SameJobs, SameHands, Copying, Threads
<1>3. Holding' /\ Published' /\ CallerHolds' /\ Finished'
  BY CallerAssumption
     DEF IInv, PoolTypeOK, Block, jobVars, Holding, Published, CallerHolds, Finished, Copying, Threads
<1>4. QED
  BY <1>1, <1>2, <1>3, SameHandsKeep DEF IInv

LEMMA StopKeeps == ASSUME IInv, Stop PROVE IInv'
<1>1. PoolTypeOK'
  <2>1. stopping' \in BOOLEAN
    BY Zenon DEF Stop
  <2>2. QED
    BY <2>1, CallerAssumption DEF IInv, PoolTypeOK, Stop, jobVars, Threads, CallerPlaces, WorkerPlaces
<1>2. SameJobs /\ SameHands
  BY CallerAssumption DEF IInv, PoolTypeOK, Stop, jobVars, SameJobs, SameHands, Copying, Threads
<1>3. Holding' /\ Published' /\ CallerHolds' /\ Finished'
  BY CallerAssumption
     DEF IInv, PoolTypeOK, Stop, jobVars, Holding, Published, CallerHolds, Finished, Copying, Threads
<1>4. QED
  BY <1>1, <1>2, <1>3, SameHandsKeep DEF IInv

LEMMA NotifyStopKeeps == ASSUME IInv, NotifyStop PROVE IInv'
<1>1. \A t \in Threads : /\ t = Caller => pc'[t] = "join" /\ pc[t] = "stop"
                         /\ t # Caller => pc'[t] = pc[t] \/ (pc[t] = "blocked" /\ pc'[t] = "lock")
  BY DEF NotifyStop, WakeToStop, Woken, Threads
<1>2. PoolTypeOK'
  <2>1. pc' \in [Threads -> CallerPlaces \cup WorkerPlaces] /\ pc'[Caller] \in CallerPlaces
    BY DEF IInv, PoolTypeOK, NotifyStop, WakeToStop, Woken, Threads, CallerPlaces, WorkerPlaces
  <2>2. \A w \in Workers : pc'[w] \in WorkerPlaces
    BY CallerAssumption DEF IInv, PoolTypeOK, NotifyStop, WakeToStop, Woken, Threads, WorkerPlaces
  <2>3. QED
    BY <2>1, <2>2 DEF IInv, PoolTypeOK, NotifyStop, jobVars
<1>3. SameJobs /\ SameHands
  BY <1>1 DEF NotifyStop, jobVars, SameJobs, SameHands, Busy, Copying, Threads
<1>4. Holding' /\ Published' /\ CallerHolds' /\ Finished'
  BY <1>1 DEF IInv, NotifyStop, jobVars, Holding, Published, CallerHolds, Finished, Copying, Threads
<1>5. QED
  BY <1>2, <1>3, <1>4, SameHandsKeep DEF IInv

LEMMA JoinKeeps == ASSUME IInv, Join PROVE IInv'
<1>1. PoolTypeOK'
  BY CallerAssumption DEF IInv, PoolTypeOK, Join, jobVars, Threads, CallerPlaces, WorkerPlaces
<1>2. SameJobs /\ SameHands
  BY CallerAssumption DEF IInv, PoolTypeOK, Join, jobVars, SameJobs, SameHands, Copying, Threads
<1>3. Holding' /\ Published' /\ CallerHolds' /\ Finished'
  BY CallerAssumption
     DEF IInv, PoolTypeOK, Join, jobVars, Holding, Published, CallerHolds, Finished, Copying, Threads
<1>4. QED
  BY <1>1, <1>2, <1>3, SameHandsKeep DEF IInv

(* Nothing happens in the pool; between two copies the buffer may change.  *)
LEMMA FrameKeeps ==
  ASSUME IInv, UNCHANGED poolVars, buffer' \in [Chunks -> Contents],
         UNCHANGED buffer \/ pc[Caller] \notin Copying
  PROVE  IInv'
<1>1. UNCHANGED <<pc, held, chunk, seen, job, size, source, next_chunk, completed_bytes,
                  job_, generation, stopping>>
  BY DEF poolVars, threadVars, jobVars
<1>2. PoolTypeOK'
  BY <1>1 DEF IInv, PoolTypeOK
<1>3. \A t \in Threads : Busy(t)' <=> Busy(t)
  BY <1>1 DEF Busy
<1>4. \A j \in 1 .. job : Counted(j)' = Counted(j)
  BY <1>1, <1>3 DEF Counted, InHand
<1>5. Holding' /\ Published' /\ CallerHolds' /\ Finished' /\ Fresh'
  BY <1>1 DEF IInv, Holding, Published, CallerHolds, Finished, Fresh
<1>6. Claims' /\ Exclusive'
  BY <1>1, <1>3 DEF IInv, Claims, Exclusive
<1>7. Counts'
  BY <1>1, <1>4 DEF IInv, Counts
<1>8. Written'
  <2>1. ASSUME pc[Caller] \in Copying PROVE job \in 1 .. job
    BY <2>1, BoundsAssumption DEF IInv, CallerHolds, Jobs
  <2>2. QED
    BY <1>1, <1>4, <2>1 DEF IInv, Written
<1>9. QED
  BY <1>2, <1>5, <1>6, <1>7, <1>8 DEF IInv

-----------------------------------------------------------------------------
(* Claiming a chunk puts it in the claimer's hand; a claim that comes too  *)
(* late leaves every chunk where it was.                                   *)
LEMMA ClaimKeeps == ASSUME IInv, NEW t \in Threads, Claim(t) PROVE IInv'
<1> DEFINE j == held[t]
<1>1. /\ pc[t] = "claim" /\ j \in 1 .. job /\ j \in Jobs
      /\ next_chunk[j] \in Nat /\ size[j] \in Nat
      /\ next_chunk \in [Jobs -> Nat]
      /\ next_chunk' = [next_chunk EXCEPT ![j] = @ + 1]
      /\ job \in Nat
  BY BoundsAssumption DEF IInv, PoolTypeOK, Holding, Claim, Jobs
<1>2. /\ \A u \in Threads : u # t => pc'[u] = pc[u] /\ chunk'[u] = chunk[u]
      /\ UNCHANGED <<held, seen, job, size, source, completed_bytes, job_, generation,
                     stopping, buffer>>
  BY DEF IInv, PoolTypeOK, Claim
<1>3. /\ Exhausted(j) => pc'[t] \in {"await", "lock"}
      /\ ~Exhausted(j) => pc'[t] = "copy" /\ chunk'[t] = next_chunk[j]
      /\ ~Busy(t)
      /\ t = Caller => pc'[t] \in Copying
  BY <1>1 DEF IInv, PoolTypeOK, Claim, Busy, Copying
<1>4. PoolTypeOK'
  <2>1. pc' \in [Threads -> CallerPlaces \cup WorkerPlaces]
    BY <1>1 DEF IInv, PoolTypeOK, Claim, CallerPlaces, WorkerPlaces
  <2>2. pc'[Caller] \in CallerPlaces /\ \A w \in Workers : pc'[w] \in WorkerPlaces
    BY <1>1, CallerAssumption DEF IInv, PoolTypeOK, Claim, CallerPlaces, WorkerPlaces, Threads
  <2>3. chunk' \in [Threads -> Nat] /\ next_chunk' \in [Jobs -> Nat]
    BY <1>1 DEF IInv, PoolTypeOK, Claim
  <2>4. QED
    BY <1>2, <2>1, <2>2, <2>3 DEF IInv, PoolTypeOK
<1>5. \A i \in Jobs : next_chunk'[i] = IF i = j THEN next_chunk[i] + 1 ELSE next_chunk[i]
  BY <1>1
<1>6. Holding' /\ Published' /\ Fresh'
  BY <1>1, <1>2, <1>5 DEF IInv, Holding, Published, Fresh
<1>7. CallerHolds' /\ Finished'
  <2>1. pc'[Caller] \in Copying <=> pc[Caller] \in Copying
    BY <1>1, <1>2, <1>3 DEF Copying, Threads
  <2>2. QED
    BY <1>2, <2>1 DEF IInv, CallerHolds, Finished
<1>8. \A u \in Threads : Busy(u)' => (u = t /\ ~Exhausted(j)) \/ (u # t /\ Busy(u))
  BY <1>2, <1>3 DEF Busy
<1>9. Claims'
  <2>1. ASSUME NEW u \in Threads, Busy(u)', u # t
        PROVE  /\ chunk'[u] \in 0 .. size'[held'[u]] - 1
               /\ chunk'[u] < next_chunk'[held'[u]]
    <3>1. /\ Busy(u) /\ held[u] \in 1 .. job /\ held[u] \in Jobs
          /\ chunk'[u] = chunk[u]
      <4>1. Busy(u) /\ chunk'[u] = chunk[u]
        BY <1>2, <1>8, <2>1
      <4>2. held[u] \in 1 .. job
        BY <4>1 DEF IInv, Holding, Busy
      <4>3. QED
        BY <4>1, <4>2, BoundsAssumption DEF IInv, PoolTypeOK, Jobs
    <3>2. next_chunk[held[u]] \in Nat /\ chunk[u] \in Nat
      BY <3>1 DEF IInv, PoolTypeOK
    <3>3. QED
      BY <1>2, <1>5, <3>1, <3>2 DEF IInv, Claims
  <2>2. ASSUME Busy(t)'
        PROVE  /\ chunk'[t] \in 0 .. size'[held'[t]] - 1
               /\ chunk'[t] < next_chunk'[held'[t]]
    BY <1>1, <1>2, <1>3, <1>5, <1>8, <2>2 DEF Exhausted
  <2>3. QED
    BY <2>1, <2>2 DEF Claims
<1>10. Exclusive'
  <2>1. ASSUME NEW u \in Threads, Busy(u)', u # t, held'[u] = j, Busy(t)'
        PROVE  chunk'[u] # chunk'[t]
    <3>1. chunk[u] < next_chunk[j] /\ chunk[u] \in Nat /\ chunk'[u] = chunk[u]
      BY <1>2, <1>8, <2>1 DEF IInv, PoolTypeOK, Claims
    <3>2. QED
      BY <1>1, <1>3, <1>8, <2>1, <3>1
  <2>2. QED
    BY <1>2, <1>8, <2>1 DEF IInv, Exclusive
<1>11. ASSUME NEW i \in 1 .. job PROVE Counted(i)' = Counted(i)
  <2>1. i \in Jobs /\ next_chunk[i] \in Nat /\ size[i] \in Nat
    BY <1>1, BoundsAssumption DEF IInv, PoolTypeOK, Jobs
  <2>2. ASSUME NEW c \in 0 .. size[i] - 1
        PROVE  (c < next_chunk'[i] /\ ~InHand(i, c)') <=> (c < next_chunk[i] /\ ~InHand(i, c))
    <3>1. InHand(i, c)' <=> InHand(i, c) \/ (i = j /\ ~Exhausted(j) /\ c = next_chunk[j])
      <4>1. ASSUME InHand(i, c)
            PROVE  InHand(i, c)'
        <5>1. PICK u \in Threads : Busy(u) /\ held[u] = i /\ chunk[u] = c
          BY <4>1 DEF InHand
        <5>2. u # t /\ Busy(u)'
          BY <1>2, <1>3, <5>1 DEF Busy
        <5>3. QED
          BY <1>2, <5>1, <5>2 DEF InHand
      <4>2. ASSUME i = j, ~Exhausted(j), c = next_chunk[j]
            PROVE  InHand(i, c)'
        BY <1>2, <1>3, <4>2 DEF InHand, Busy
      <4>3. ASSUME InHand(i, c)'
            PROVE  InHand(i, c) \/ (i = j /\ ~Exhausted(j) /\ c = next_chunk[j])
        <5>1. PICK u \in Threads : Busy(u)' /\ held'[u] = i /\ chunk'[u] = c
          BY <4>3 DEF InHand
        <5>2. CASE u = t
          BY <1>2, <1>3, <1>8, <5>1, <5>2
        <5>3. CASE u # t
          BY <1>2, <1>8, <5>1, <5>3 DEF InHand
        <5>4. QED
          BY <5>2, <5>3
      <4>4. QED
        BY <4>1, <4>2, <4>3
    <3>2. InHand(i, c) => c < next_chunk[i]
      BY DEF IInv, Claims, InHand
    <3>3. QED
      BY <1>1, <1>5, <2>1, <3>1, <3>2 DEF Exhausted
  <2>3. QED
    BY <1>2, <2>2 DEF Counted
<1>12. Counts' /\ Written'
  <2>1. Counts'
    BY <1>2, <1>11 DEF IInv, Counts
  <2>2. \A u \in Threads : pc'[u] = "count" => u # t /\ pc[u] = "count" /\ chunk'[u] = chunk[u]
    BY <1>2, <1>3
  <2>3. pc'[Caller] \in Copying => pc[Caller] \in Copying /\ job \in 1 .. job
    BY <1>1, <1>2, <1>3 DEF Copying, Threads
  <2>4. QED
    BY <1>2, <1>11, <2>1, <2>2, <2>3 DEF IInv, Written
<1>13. QED
  BY <1>4, <1>6, <1>7, <1>9, <1>10, <1>12 DEF IInv

(* Whoever has a chunk in hand works on the last job, and the caller has   *)
(* not returned from it.                                                   *)
LEMMA BusyOnLastJob ==
  ASSUME IInv, NEW t \in Threads, Busy(t)
  PROVE  /\ held[t] = job /\ job \in 1 .. job /\ job \in Jobs /\ pc[Caller] \in Copying
         /\ chunk[t] \in 0 .. size[job] - 1 /\ chunk[t] \in Chunks
<1>1. held[t] \in 1 .. job /\ job \in Nat /\ job <= Copies
  BY BoundsAssumption DEF IInv, PoolTypeOK, Holding, Busy
<1>2. completed_bytes[held[t]] # size[held[t]]
  BY <1>1, FullCounter
<1>3. held[t] = job /\ pc[Caller] \in Copying
  BY <1>1, <1>2 DEF IInv, Finished
<1>4. job \in 1 .. job /\ job \in Jobs
  BY <1>1, <1>3, BoundsAssumption DEF Jobs
<1>5. chunk[t] \in 0 .. size[job] - 1 /\ size[job] \in 0 .. MaxChunks
  BY <1>3, <1>4 DEF IInv, Claims, PoolTypeOK
<1>6. QED
  BY <1>3, <1>4, <1>5, BoundsAssumption DEF Chunks

LEMMA CopyChunkKeeps == ASSUME IInv, NEW t \in Threads, CopyChunk(t) PROVE IInv'
<1>1. /\ Busy(t) /\ held[t] = job /\ job \in 1 .. job /\ job \in Jobs
      /\ pc[Caller] \in Copying /\ chunk[t] \in Chunks
  <2>1. Busy(t)
    BY DEF CopyChunk, Busy
  <2>2. QED
    BY <2>1, BusyOnLastJob
<1>2. /\ pc'[t] = "count"
      /\ \A u \in Threads : u # t => pc'[u] = pc[u]
      /\ UNCHANGED <<held, chunk, seen, job, size, source, next_chunk, completed_bytes,
                     job_, generation, stopping>>
  BY DEF IInv, PoolTypeOK, CopyChunk, jobVars
<1>3. \A c \in Chunks : buffer'[c] = IF c = chunk[t] THEN source[job] ELSE buffer[c]
  BY <1>1 DEF IInv, PoolTypeOK, CopyChunk, Copied
<1>4. \A u \in Threads : Busy(u)' <=> Busy(u)
  BY <1>1, <1>2 DEF Busy
<1>5. PoolTypeOK'
  <2>1. buffer' \in [Chunks -> Contents]
    BY <1>1 DEF IInv, PoolTypeOK, CopyChunk, Copied
  <2>2. pc' \in [Threads -> CallerPlaces \cup WorkerPlaces]
    BY DEF IInv, PoolTypeOK, CopyChunk, CallerPlaces, WorkerPlaces
  <2>3. pc'[Caller] \in CallerPlaces /\ \A w \in Workers : pc'[w] \in WorkerPlaces
    BY <1>2 DEF IInv, PoolTypeOK, CallerPlaces, WorkerPlaces, Threads
  <2>4. QED
    BY <1>2, <2>1, <2>2, <2>3 DEF IInv, PoolTypeOK
<1>6. Holding' /\ Published' /\ CallerHolds' /\ Finished' /\ Fresh'
  <2>1. pc'[Caller] \in Copying
    BY <1>1, <1>2 DEF Copying, Threads
  <2>2. QED
    BY <1>1, <1>2, <2>1
       DEF IInv, CopyChunk, Holding, Published, CallerHolds, Finished, Fresh
<1>7. Claims' /\ Exclusive'
  BY <1>2, <1>4 DEF IInv, Claims, Exclusive
<1>8. ASSUME NEW i \in 1 .. job PROVE Counted(i)' = Counted(i)
  BY <1>2, <1>4 DEF Counted, InHand
<1>9. Counts'
  BY <1>2, <1>8 DEF IInv, Counts
<1>10. Written'
  <2>1. ASSUME NEW c \in Counted(job) PROVE buffer'[c] = source[job]
    <3>1. c \in Chunks /\ buffer[c] = source[job]
      BY <1>1, BoundsAssumption DEF IInv, PoolTypeOK, Counted, Chunks, Written
    <3>2. QED
      BY <1>3, <3>1
  <2>2. ASSUME NEW u \in Threads, pc'[u] = "count", held[u] = job
        PROVE  buffer'[chunk[u]] = source[job]
    <3>1. CASE u = t
      BY <1>1, <1>3, <3>1
    <3>2. CASE u # t
      <4>1. Busy(u) /\ buffer[chunk[u]] = source[job]
        BY <1>1, <1>2, <2>2, <3>2 DEF Busy, IInv, Written
      <4>2. chunk[u] \in Chunks
        BY <4>1, BusyOnLastJob
      <4>3. QED
        BY <1>3, <4>1, <4>2
    <3>3. QED
      BY <3>1, <3>2
  <2>3. QED
    BY <1>1, <1>2, <1>8, <2>1, <2>2 DEF Written
<1>11. QED
  BY <1>5, <1>6, <1>7, <1>9, <1>10 DEF IInv

(* Counting a chunk takes it out of the thread's hand.                     *)
LEMMA CountChunkKeeps == ASSUME IInv, NEW t \in Threads, CountChunk(t) PROVE IInv'
<1>1. /\ Busy(t) /\ held[t] = job /\ job \in 1 .. job /\ job \in Jobs
      /\ pc[Caller] \in Copying /\ chunk[t] \in Chunks /\ chunk[t] \in 0 .. size[job] - 1
  <2>1. Busy(t)
    BY DEF CountChunk, Busy
  <2>2. QED
    BY <2>1, BusyOnLastJob
<1>2. /\ pc[t] = "count" /\ pc'[t] = "claim"
      /\ \A u \in Threads : u # t => pc'[u] = pc[u]
      /\ UNCHANGED <<held, chunk, seen, job, size, source, next_chunk, job_, generation,
                     stopping, buffer>>
  BY DEF IInv, PoolTypeOK, CountChunk
<1>3. /\ completed_bytes' \in [Jobs -> Nat]
      /\ \A i \in Jobs : completed_bytes'[i] =
           IF i = job THEN completed_bytes[i] + 1 ELSE completed_bytes[i]
  BY <1>1 DEF IInv, PoolTypeOK, CountChunk
<1>4. \A u \in Threads : Busy(u)' <=> u # t /\ Busy(u)
  BY <1>2 DEF Busy
<1>5. PoolTypeOK'
  <2>1. pc' \in [Threads -> CallerPlaces \cup WorkerPlaces]
    BY DEF IInv, PoolTypeOK, CountChunk, CallerPlaces, WorkerPlaces
  <2>2. pc'[Caller] \in CallerPlaces /\ \A w \in Workers : pc'[w] \in WorkerPlaces
    BY <1>2 DEF IInv, PoolTypeOK, CallerPlaces, WorkerPlaces, Threads
  <2>3. QED
    BY <1>2, <1>3, <2>1, <2>2 DEF IInv, PoolTypeOK
<1>6. job \in Nat /\ \A i \in 1 .. job : i \in Jobs
  BY BoundsAssumption DEF IInv, PoolTypeOK, Jobs
<1>7. Holding' /\ Published' /\ CallerHolds' /\ Finished' /\ Fresh'
  <2>1. pc'[Caller] \in Copying
    BY <1>1, <1>2 DEF Copying, Threads
  <2>2. Holding' /\ Published' /\ CallerHolds'
    BY <1>1, <1>2, <2>1 DEF IInv, Holding, Published, CallerHolds
  <2>3. Finished' /\ Fresh'
    BY <1>1, <1>2, <1>3, <1>6, <2>1 DEF IInv, Finished, Fresh
  <2>4. QED
    BY <2>2, <2>3
<1>8. Claims' /\ Exclusive'
  BY <1>2, <1>4 DEF IInv, Claims, Exclusive
<1>9. ASSUME NEW i \in 1 .. job, i # job PROVE Counted(i)' = Counted(i)
  <2>1. \A c : InHand(i, c)' <=> InHand(i, c)
    BY <1>1, <1>2, <1>4, <1>9 DEF InHand
  <2>2. QED
    BY <1>2, <2>1 DEF Counted
<1>10. Counted(job)' = Counted(job) \cup {chunk[t]} /\ chunk[t] \notin Counted(job)
  <2>1. \A c : InHand(job, c)' <=> InHand(job, c) /\ c # chunk[t]
    <3>1. ASSUME NEW c, InHand(job, c)' PROVE InHand(job, c) /\ c # chunk[t]
      <4>1. PICK u \in Threads : Busy(u)' /\ held'[u] = job /\ chunk'[u] = c
        BY <1>2, <3>1 DEF InHand
      <4>2. u # t /\ Busy(u) /\ held[u] = job /\ chunk[u] = c
        BY <1>2, <1>4, <4>1
      <4>3. QED
        BY <1>1, <4>2 DEF IInv, Exclusive, InHand
    <3>2. ASSUME NEW c, InHand(job, c), c # chunk[t] PROVE InHand(job, c)'
      <4>1. PICK u \in Threads : Busy(u) /\ held[u] = job /\ chunk[u] = c
        BY <3>2 DEF InHand
      <4>2. QED
        BY <1>2, <1>4, <3>2, <4>1 DEF InHand
    <3>3. QED
      BY <3>1, <3>2
  <2>2. InHand(job, chunk[t])
    BY <1>1 DEF InHand
  <2>3. chunk[t] < next_chunk[job]
    BY <1>1 DEF IInv, Claims
  <2>4. QED
    BY <1>1, <1>2, <2>1, <2>2, <2>3 DEF Counted
<1>11. Counts'
  <2>1. Cardinality(Counted(job)') = Cardinality(Counted(job)) + 1
    BY <1>1, <1>10, CountedFinite, FS_AddElement DEF IInv
  <2>2. completed_bytes'[job] = Cardinality(Counted(job)')
    BY <1>1, <1>3, <2>1 DEF IInv, Counts
  <2>3. QED
    BY <1>2, <1>3, <1>6, <1>9, <2>2 DEF IInv, Counts
<1>12. Written'
  <2>1. buffer[chunk[t]] = source[job]
    BY <1>1, <1>2 DEF IInv, Written
  <2>2. \A u \in Threads : pc'[u] = "count" => pc[u] = "count"
    BY <1>2
  <2>3. QED
    BY <1>1, <1>2, <1>10, <2>1, <2>2 DEF IInv, Written
<1>13. QED
  BY <1>5, <1>7, <1>8, <1>11, <1>12 DEF IInv

-----------------------------------------------------------------------------
(* A new job: nobody works on it, and all the jobs before it are finished. *)
NewJob(n, s) ==
  /\ job' = job + 1 /\ job + 1 \in Jobs
  /\ size'   = [size EXCEPT ![job + 1] = n]
  /\ source' = [source EXCEPT ![job + 1] = s]

LEMMA NewJobKeeps ==
  ASSUME IInv, NEW n \in 1 .. MaxChunks, NEW s \in Sources, NewJob(n, s),
         pc[Caller] = "ready", UNCHANGED chunk,
         \A t \in Threads : (Busy(t)' <=> Busy(t)) /\ (Busy(t) => held'[t] = held[t]),
         \A i \in 1 .. job : next_chunk'[i] = next_chunk[i]
  PROVE  /\ job \in Nat /\ 1 .. job \subseteq Jobs
         /\ \A t \in Threads : ~Busy(t)'
         /\ Claims' /\ Exclusive'
         /\ \A i \in 1 .. job : Counted(i)' = Counted(i) /\ completed_bytes[i] = size'[i]
         /\ \A k, c : ~InHand(k, c)'
<1>1. job \in Nat /\ 1 .. job \subseteq Jobs
  BY BoundsAssumption DEF IInv, PoolTypeOK, Jobs
<1>2. \A i \in 1 .. job : completed_bytes[i] = size[i] /\ size'[i] = size[i]
  BY <1>1 DEF IInv, PoolTypeOK, Finished, NewJob, Copying
<1>3. \A t \in Threads : ~Busy(t) /\ ~Busy(t)'
  BY BusyOnLastJob DEF Copying
<1>4. ASSUME NEW i \in 1 .. job PROVE Counted(i)' = Counted(i)
  BY <1>2, <1>3 DEF Counted, InHand
<1>5. Claims' /\ Exclusive' /\ \A k, c : ~InHand(k, c)'
  BY <1>3 DEF Claims, Exclusive, InHand
<1>6. QED
  BY <1>1, <1>2, <1>3, <1>4, <1>5

LEMMA NewJobTyped ==
  ASSUME IInv, NEW n \in 1 .. MaxChunks, NEW s \in Sources, NewJob(n, s)
  PROVE  /\ job' \in 0 .. Copies
         /\ size' \in [Jobs -> 0 .. MaxChunks] /\ source' \in [Jobs -> Contents]
         /\ size'[job + 1] = n /\ source'[job + 1] = s
  BY BoundsAssumption DEF IInv, PoolTypeOK, NewJob, Jobs, Contents

LEMMA PlainCopyKeeps ==
  ASSUME IInv, NEW n \in 1 .. MaxChunks, NEW s \in Sources, PlainCopy(n, s) PROVE IInv'
<1>1. job + 1 \in Jobs /\ job \in Nat /\ n \in Nat
  BY BoundsAssumption DEF IInv, PoolTypeOK, PlainCopy, Jobs
<1>2. NewJob(n, s)
  BY <1>1 DEF PlainCopy, NewJob
<1>3. /\ next_chunk' \in [Jobs -> Nat] /\ completed_bytes' \in [Jobs -> Nat]
      /\ \A i \in Jobs : /\ next_chunk'[i] = IF i = job + 1 THEN n ELSE next_chunk[i]
                         /\ completed_bytes'[i] = IF i = job + 1 THEN n ELSE completed_bytes[i]
  BY <1>1 DEF IInv, PoolTypeOK, PlainCopy
<1>4. /\ pc[Caller] = "ready" /\ UNCHANGED <<pc, held, chunk, seen, job_, generation, stopping>>
  BY DEF PlainCopy, threadVars
<1>5. \A t \in Threads : Busy(t)' <=> Busy(t)
  BY <1>4 DEF Busy
<1>6. 1 .. job \subseteq Jobs /\ \A i \in 1 .. job : next_chunk'[i] = next_chunk[i]
  BY <1>1, <1>3, BoundsAssumption DEF IInv, PoolTypeOK, Jobs
<1>7. /\ \A t \in Threads : ~Busy(t)'
      /\ Claims' /\ Exclusive'
      /\ \A i \in 1 .. job : Counted(i)' = Counted(i) /\ completed_bytes[i] = size'[i]
      /\ \A k, c : ~InHand(k, c)'
  BY <1>2, <1>4, <1>5, <1>6, NewJobKeeps
<1>8. PoolTypeOK'
  <2>1. buffer' \in [Chunks -> Contents]
    BY DEF IInv, PoolTypeOK, PlainCopy, Contents
  <2>2. QED
    BY <1>2, <1>3, <1>4, <2>1, NewJobTyped DEF IInv, PoolTypeOK
<1>9. ASSUME NEW k \in Jobs, k = job + 1 PROVE Counted(k)' = 0 .. n - 1
  <2>1. size'[k] = n /\ next_chunk'[k] = n
    BY <1>2, <1>3, <1>9, NewJobTyped
  <2>2. QED
    BY <1>1, <1>7, <2>1 DEF Counted
<1>10. Counts'
  <2>1. Cardinality(0 .. n - 1) = n
    BY <1>1, FS_Interval
  <2>2. ASSUME NEW i \in 1 .. job' PROVE completed_bytes'[i] = Cardinality(Counted(i)')
    <3>1. CASE i = job + 1
      BY <1>1, <1>3, <1>9, <2>1, <3>1
    <3>2. CASE i # job + 1
      <4>1. i \in 1 .. job
        BY <1>1, <1>2, <3>2 DEF NewJob
      <4>2. QED
        BY <1>1, <1>3, <1>6, <1>7, <4>1 DEF IInv, Counts
    <3>3. QED
      BY <3>1, <3>2
  <2>3. QED
    BY <2>2 DEF Counts
<1>11. Finished' /\ CallerHolds' /\ Fresh'
  <2>1. \A i \in 1 .. job' : i = job + 1 \/ i \in 1 .. job
    BY <1>1, <1>2 DEF NewJob
  <2>2. Finished'
    BY <1>1, <1>2, <1>3, <1>6, <1>7, <2>1, NewJobTyped DEF Finished
  <2>3. CallerHolds' /\ Fresh'
    BY <1>1, <1>2, <1>3, <1>4 DEF IInv, CallerHolds, Fresh, NewJob, Copying, Jobs
  <2>4. QED
    BY <2>2, <2>3
<1>12. Holding' /\ Published'
  BY <1>1, <1>2, <1>4 DEF IInv, PoolTypeOK, Holding, Published, NewJob
<1>13. Written'
  <2>1. ASSUME NEW c \in 0 .. n - 1 PROVE buffer'[c] = s
    <3>1. c \in Chunks
      BY <1>1, BoundsAssumption DEF Chunks
    <3>2. QED
      BY <1>1, <3>1 DEF PlainCopy
  <2>2. job' = job + 1 /\ source'[job'] = s
    BY <1>2, NewJobTyped DEF NewJob
  <2>3. ASSUME NEW k \in Jobs, k = job' PROVE \A c \in Counted(k)' : buffer'[c] = source'[k]
    BY <1>9, <2>1, <2>2, <2>3
  <2>4. QED
    BY <1>1, <1>7, <2>2, <2>3 DEF Written, Busy
<1>14. QED
  BY <1>7, <1>8, <1>10, <1>11, <1>12, <1>13 DEF IInv

LEMMA PublishKeeps ==
  ASSUME IInv, NEW n \in 1 .. MaxChunks, NEW s \in Sources, Publish(n, s) PROVE IInv'
<1>1. job + 1 \in Jobs /\ job \in Nat /\ n \in Nat
  BY BoundsAssumption DEF IInv, PoolTypeOK, Publish, Jobs
<1>2. NewJob(n, s)
  BY <1>1 DEF Publish, NewJob
<1>3. /\ pc[Caller] = "ready" /\ pc'[Caller] = "notify" /\ held'[Caller] = job + 1
      /\ \A t \in Threads : t # Caller => pc'[t] = pc[t] /\ held'[t] = held[t]
      /\ job_' = job + 1 /\ generation' = generation + 1
      /\ UNCHANGED <<chunk, seen, next_chunk, completed_bytes, stopping, buffer>>
  BY DEF IInv, PoolTypeOK, Publish, Threads
<1>4. \A t \in Threads : (Busy(t)' <=> Busy(t)) /\ (Busy(t) => held'[t] = held[t])
  BY <1>3 DEF Busy
<1>5. 1 .. job \subseteq Jobs
  BY BoundsAssumption DEF IInv, PoolTypeOK, Jobs
<1>6. /\ \A t \in Threads : ~Busy(t)'
      /\ Claims' /\ Exclusive'
      /\ \A i \in 1 .. job : Counted(i)' = Counted(i) /\ completed_bytes[i] = size'[i]
  BY <1>2, <1>3, <1>4, NewJobKeeps
<1>7. generation \in Nat /\ generation + 1 \in 0 .. Copies /\ generation + 1 <= job + 1
  BY <1>1, BoundsAssumption DEF IInv, PoolTypeOK, Published, Jobs
<1>8. PoolTypeOK'
  <2>1. pc' \in [Threads -> CallerPlaces \cup WorkerPlaces]
    BY DEF IInv, PoolTypeOK, Publish, CallerPlaces
  <2>2. pc'[Caller] \in CallerPlaces /\ \A w \in Workers : pc'[w] \in WorkerPlaces
    BY <1>3, CallerAssumption DEF IInv, PoolTypeOK, CallerPlaces, Threads
  <2>3. job + 1 \in 0 .. Copies
    BY <1>1, BoundsAssumption DEF Jobs
  <2>4. held' \in [Threads -> 0 .. Copies]
    BY <2>3 DEF IInv, PoolTypeOK, Publish
  <2>5. job_' \in 0 .. Copies /\ generation' \in 0 .. Copies
    BY <1>3, <1>7, <2>3
  <2>6. /\ job' \in 0 .. Copies
        /\ size' \in [Jobs -> 0 .. MaxChunks] /\ source' \in [Jobs -> Contents]
    BY <1>2, NewJobTyped
  <2>7. QED
    BY <1>3, <2>1, <2>2, <2>4, <2>5, <2>6 DEF IInv, PoolTypeOK
<1>9. next_chunk[job + 1] = 0 /\ completed_bytes[job + 1] = 0
  BY <1>1 DEF IInv, Fresh
<1>10. ASSUME NEW k \in Jobs, k = job + 1 PROVE Counted(k)' = {}
  <2>1. next_chunk'[k] = 0
    BY <1>3, <1>9, <1>10
  <2>2. QED
    BY <2>1 DEF Counted
<1>11. \A i \in 1 .. job' : i = job + 1 \/ i \in 1 .. job
  BY <1>1, <1>2 DEF NewJob
<1>12. Counts'
  <2>1. \A i \in 1 .. job' : completed_bytes'[i] = Cardinality(Counted(i)')
    BY <1>1, <1>3, <1>6, <1>9, <1>10, <1>11, FS_EmptySet DEF IInv, Counts
  <2>2. QED
    BY <2>1 DEF Counts
<1>13. Finished' /\ CallerHolds' /\ Fresh'
  <2>1. job' = job + 1 /\ pc'[Caller] \in Copying
    BY <1>2, <1>3 DEF NewJob, Copying
  <2>2. Finished'
    BY <1>1, <1>3, <1>6, <1>11, <2>1 DEF Finished
  <2>3. CallerHolds'
    BY <1>1, <1>3, <2>1 DEF CallerHolds
  <2>4. Fresh'
    BY <1>1, <1>3, <2>1 DEF IInv, Fresh, Jobs
  <2>5. QED
    BY <2>2, <2>3, <2>4
<1>14. Holding' /\ Published'
  <2>1. Holding'
    BY <1>1, <1>2, <1>3 DEF IInv, PoolTypeOK, Holding, NewJob
  <2>2. ASSUME NEW w \in Workers PROVE seen'[w] <= generation'
    BY <1>3, <1>7 DEF IInv, PoolTypeOK, Published, Threads
  <2>3. Published'
    BY <1>1, <1>2, <1>3, <1>7, <2>2 DEF Published, NewJob
  <2>4. QED
    BY <2>1, <2>3
<1>15. Written'
  <2>1. job' = job + 1
    BY <1>2 DEF NewJob
  <2>2. ASSUME NEW k \in Jobs, k = job' PROVE Counted(k)' = {}
    BY <1>10, <2>1, <2>2
  <2>3. QED
    BY <1>1, <1>6, <2>1, <2>2 DEF Written, Busy
<1>16. QED
  BY <1>6, <1>8, <1>12, <1>13, <1>14, <1>15 DEF IInv

-----------------------------------------------------------------------------
LEMMA NextKeeps == ASSUME IInv, [Next]_<<poolVars, buffer>> PROVE IInv'
<1>1. ASSUME NEW t \in Threads, Work(t) PROVE IInv'
  BY <1>1, ClaimKeeps, CopyChunkKeeps, CountChunkKeeps DEF Work
<1>2. CASE Begin
  BY <1>2, PlainCopyKeeps, PublishKeeps DEF Begin
<1>3. CASE Stop
  BY <1>3, StopKeeps
<1>4. CASE CallerStep
  BY <1>1, <1>4, NotifyKeeps, ReturnKeeps, NotifyStopKeeps, JoinKeeps DEF CallerStep, Threads
<1>5. ASSUME NEW w \in Workers, WorkerStep(w) PROVE IInv'
  BY <1>1, <1>5, LeaveKeeps, TakeKeeps, BlockKeeps DEF WorkerStep, Threads
<1>6. CASE UNCHANGED <<poolVars, buffer>>
  <2>1. UNCHANGED poolVars /\ UNCHANGED buffer /\ buffer' \in [Chunks -> Contents]
    BY <1>6 DEF IInv, PoolTypeOK
  <2>2. QED
    BY <2>1, FrameKeeps
<1>7. QED
  BY <1>2, <1>3, <1>4, <1>5, <1>6 DEF Next

LEMMA Inductive == Spec => []IInv
  BY InitIInv, NextKeeps, PTL DEF Spec

(* The variables of the pool keep their types.                             *)
THEOREM PoolTypeCorrect == Spec => []PoolTypeOK
<1>1. IInv => PoolTypeOK
  BY DEF IInv
<1>2. QED
  BY <1>1, Inductive, PTL

LEMMA WholeCopy == IInv => CopyComplete
<1>1. SUFFICES ASSUME IInv, pc[Caller] = "await", AllCounted
               PROVE  \A c \in 0 .. size[job] - 1 : buffer[c] = source[job]
  BY DEF CopyComplete
<1>2. job \in 1 .. job /\ job > 0
  BY <1>1, BoundsAssumption DEF IInv, CallerHolds, Copying, Jobs
<1>3. Counted(job) = 0 .. size[job] - 1
  BY <1>1, <1>2, FullCounter DEF AllCounted
<1>4. QED
  BY <1>1, <1>2, <1>3 DEF IInv, Written, Copying

LEMMA NoLateWriter == IInv => NoLateWrites
<1>1. SUFFICES ASSUME IInv, NEW w \in Workers, pc[w] = "copy"
               PROVE  held[w] = job /\ pc[Caller] \in Copying
  BY DEF NoLateWrites, Copying
<1>2. QED
  BY <1>1, BusyOnLastJob DEF Busy, Threads

(* StagingPool::copy: when it returns, every chunk of the buffer holds the *)
(* source of this copy, for any number of threads and any schedule.        *)
THEOREM CopiesAreComplete == Spec => []CopyComplete
  BY Inductive, WholeCopy, PTL

(* StagingPool: no worker writes the buffer for a copy that has returned,  *)
(* so a straggler cannot tear the next one.                                *)
THEOREM StragglersAreHarmless == Spec => []NoLateWrites
  BY Inductive, NoLateWriter, PTL

-----------------------------------------------------------------------------
(* The pool beside direct reads.                                           *)
Reading == {"submit", "check", "waiting"}
Holds(w) == io[w] \in {"read", "ok", "not ok"}

Queued(c) == \E k \in DOMAIN jobs_ : jobs_[k] # Direct!Warm /\ jobs_[k].chunk = c
Taken(c)  == \E w \in IoThreads : Holds(w) /\ taken[w].chunk = c
Open      == {c \in 0 .. extent - 1 : c >= submitted \/ Queued(c) \/ Taken(c)}

(* A job of the read that is under way.                                    *)
Current(j) == /\ reader \in Reading
              /\ j # Direct!Warm /\ j.request = request /\ j.chunk \in 0 .. submitted - 1

QueueSound  == \A k \in DOMAIN jobs_ : jobs_[k] = Direct!Warm \/ Current(jobs_[k])
HandsSound  == \A w \in IoThreads : Holds(w) => Current(taken[w])
QueueOnce   == \A k, l \in DOMAIN jobs_ :
                 k # l /\ jobs_[k] # Direct!Warm /\ jobs_[l] # Direct!Warm =>
                   jobs_[k].chunk # jobs_[l].chunk
HandsOnce   == \A w, v \in IoThreads :
                 w # v /\ Holds(w) /\ Holds(v) => taken[w].chunk # taken[v].chunk
TakenOnce   == \A w \in IoThreads, k \in DOMAIN jobs_ :
                 Holds(w) /\ jobs_[k] # Direct!Warm => taken[w].chunk # jobs_[k].chunk
Pending     == reader \in Reading => /\ request \in Direct!Calls
                                     /\ pending[request] = Cardinality(Open)
AllGiven    == reader \in {"check", "waiting"} => submitted = extent
Arrived     == reader \in Reading =>
                 /\ \A c \in 0 .. extent - 1 :
                      c \in Open \/ failed[request] \/ buffer[c] = content
                 /\ \A w \in IoThreads : io[w] = "ok" => buffer[taken[w].chunk] = content

DirectInv == /\ Direct!IoTypeOK /\ QueueSound /\ HandsSound /\ QueueOnce /\ HandsOnce
             /\ TakenOnce /\ Pending /\ AllGiven /\ Arrived /\ DirectReadComplete

(* Where the parts are while prefetch() is at a stage.                     *)
Places ==
  /\ stage \in {"idle", "direct", "warm", "copy", "staged"} => pc[Caller] = "ready"
  /\ stage = "copying" => pc[Caller] \in Copying
  /\ stage \in {"closing", "exit"} => pc[Caller] \in {"stop", "join", "gone"}
  /\ stage = "direct" => reader \in Reading \cup {"true", "false"}
  /\ stage \in {"idle", "warm", "copy", "copying", "staged", "closing"} => reader = "ready"
  /\ stage = "exit" => reader \in {"exit", "join", "gone"}
AtHand ==
  /\ stage \notin {"idle", "closing", "exit"} => chunks \in 1 .. MaxChunks /\ constant \in Sources
  /\ stage = "direct" => extent = chunks /\ content = constant
  /\ stage = "copying" => size[job] = chunks /\ source[job] = constant

HInv == TypeOK /\ IInv /\ DirectInv /\ Places /\ AtHand /\ StagedHolds

-----------------------------------------------------------------------------
LEMMA OpenFinite ==
  ASSUME DirectInv
  PROVE  /\ extent \in Nat /\ submitted \in Nat /\ submitted <= extent /\ extent <= MaxChunks
         /\ IsFiniteSet(Open) /\ Cardinality(Open) \in Nat
<1>1. extent \in 0 .. MaxChunks /\ submitted \in 0 .. extent
  BY DEF DirectInv, Direct!IoTypeOK
<1>2. extent \in Nat /\ submitted \in Nat /\ submitted <= extent /\ extent <= MaxChunks
  BY <1>1, BoundsAssumption
<1>3. IsFiniteSet(0 .. extent - 1) /\ Open \subseteq 0 .. extent - 1
  BY <1>2, FS_Interval DEF Open
<1>4. QED
  BY <1>2, <1>3, FS_Subset, FS_CardinalityType

(* An open latch with nothing pending: no job of the read is left.         *)
LEMMA LatchEmpty ==
  ASSUME DirectInv, reader \in Reading, submitted = extent, pending[request] = 0
  PROVE  /\ Open = {}
         /\ \A w \in IoThreads : ~Holds(w)
         /\ \A k \in DOMAIN jobs_ : jobs_[k] = Direct!Warm
<1>1. Open = {}
  BY OpenFinite, FS_EmptySet DEF DirectInv, Pending
<1>2. ASSUME NEW w \in IoThreads, Holds(w) PROVE FALSE
  <2>1. taken[w].chunk \in 0 .. extent - 1
    BY <1>2, OpenFinite DEF DirectInv, HandsSound, Current
  <2>2. taken[w].chunk \in Open
    BY <1>2, <2>1 DEF Open, Taken
  <2>3. QED
    BY <1>1, <2>2
<1>3. ASSUME NEW k \in DOMAIN jobs_, jobs_[k] # Direct!Warm PROVE FALSE
  <2>1. jobs_[k].chunk \in 0 .. extent - 1
    BY <1>3, OpenFinite DEF DirectInv, QueueSound, Current
  <2>2. jobs_[k].chunk \in Open
    BY <1>3, <2>1 DEF Open, Queued
  <2>3. QED
    BY <1>1, <2>2
<1>4. QED
  BY <1>1, <1>2, <1>3

(* Outside a read nobody has anything to do with the buffer.               *)
LEMMA Quiet ==
  ASSUME DirectInv, reader \notin Reading
  PROVE  /\ \A w \in IoThreads : ~Holds(w)
         /\ \A k \in DOMAIN jobs_ : jobs_[k] = Direct!Warm
  BY DEF DirectInv, QueueSound, HandsSound, Current

(* The file threads and the read stand still; between two reads the buffer *)
(* may change.                                                             *)
LEMMA DirectFrame ==
  ASSUME DirectInv, UNCHANGED directVars, buffer' \in [Chunks -> Contents],
         UNCHANGED buffer \/ reader \notin Reading \cup {"true"}
  PROVE  DirectInv'
<1>1. UNCHANGED <<jobs_, io, taken, stop_, reader, request, extent, content, submitted,
                  pending, failed, to_notify>>
  BY DEF directVars
<1>2. Direct!IoTypeOK'
  BY <1>1 DEF DirectInv, Direct!IoTypeOK, Direct!Chunks, Chunks, Contents
<1>3. (\A w \in IoThreads : Holds(w)' <=> Holds(w)) /\ Open' = Open
  BY <1>1 DEF Holds, Open, Queued, Taken
<1>4. QueueSound' /\ HandsSound' /\ QueueOnce' /\ HandsOnce' /\ TakenOnce'
  BY <1>1, <1>3 DEF DirectInv, QueueSound, HandsSound, QueueOnce, HandsOnce, TakenOnce, Current
<1>5. Pending' /\ AllGiven' /\ Arrived'
  BY <1>1, <1>3 DEF DirectInv, Pending, AllGiven, Arrived
<1>6. DirectReadComplete'
  BY <1>1 DEF DirectInv, DirectReadComplete, Direct!DirectReadComplete
<1>7. QED
  BY <1>2, <1>4, <1>5, <1>6 DEF DirectInv

-----------------------------------------------------------------------------
(* Steps after which the same jobs are queued and in the same hands.       *)
SameWork == /\ UNCHANGED <<jobs_, taken, request, extent, content, submitted, pending,
                           failed, buffer>>
            /\ \A w \in IoThreads : /\ Holds(w)' <=> Holds(w)
                                    /\ io'[w] = "ok" <=> io[w] = "ok"
            /\ reader' \in Reading <=> reader \in Reading
            /\ reader' \in {"check", "waiting"} => submitted = extent
            /\ reader' = "true" => reader = "true"

LEMMA SameWorkKeeps ==
  ASSUME DirectInv, SameWork, Direct!IoTypeOK' PROVE DirectInv'
<1>1. \A w \in IoThreads : Holds(w)' <=> Holds(w)
  BY DEF SameWork, Holds
<1>2. Open' = Open
  BY <1>1 DEF SameWork, Open, Queued, Taken
<1>3. \A j : Current(j)' <=> Current(j)
  BY DEF SameWork, Current
<1>4. QueueSound' /\ HandsSound' /\ QueueOnce' /\ HandsOnce' /\ TakenOnce'
  BY <1>1, <1>3
     DEF DirectInv, SameWork, QueueSound, HandsSound, QueueOnce, HandsOnce, TakenOnce
<1>5. Pending' /\ AllGiven' /\ Arrived'
  <2>1. Pending'
    BY <1>2 DEF DirectInv, SameWork, Pending
  <2>2. AllGiven'
    BY DEF DirectInv, SameWork, AllGiven
  <2>3. Arrived'
    BY <1>2 DEF DirectInv, SameWork, Arrived
  <2>4. QED
    BY <2>1, <2>2, <2>3
<1>6. DirectReadComplete'
  BY DEF DirectInv, SameWork, DirectReadComplete, Direct!DirectReadComplete
<1>7. QED
  BY <1>4, <1>5, <1>6 DEF DirectInv

LEMMA NotifyOneKeeps == ASSUME DirectInv, Direct!NotifyOne PROVE DirectInv'
<1>1. /\ UNCHANGED <<jobs_, taken, stop_, reader, request, extent, content, submitted,
                     pending, failed, buffer>>
      /\ to_notify' = FALSE
      /\ io' = io \/ \E w \in IoThreads : io[w] = "blocked" /\ io' = [io EXCEPT ![w] = "lock"]
  BY DEF Direct!NotifyOne, Direct!Notified, Direct!callVars
<1>2. Direct!IoTypeOK'
  BY <1>1 DEF DirectInv, Direct!IoTypeOK
<1>3. SameWork
  <2>1. \A v \in IoThreads : (Holds(v)' <=> Holds(v)) /\ (io'[v] = "ok" <=> io[v] = "ok")
    BY <1>1 DEF DirectInv, Direct!IoTypeOK, Holds
  <2>2. reader \in {"check", "waiting"} => submitted = extent
    BY DEF DirectInv, AllGiven
  <2>3. QED
    BY <1>1, <2>1, <2>2 DEF SameWork, Holds
<1>4. QED
  BY <1>2, <1>3, SameWorkKeeps

LEMMA IdleThreadKeeps ==
  ASSUME DirectInv, NEW w \in IoThreads,
         Direct!IoLeave(w) \/ Direct!IoBlock(w) \/ Direct!WarmRead(w) \/ Direct!ChunkFails(w)
  PROVE  DirectInv'
<1>1. /\ UNCHANGED <<jobs_, taken, stop_, reader, request, extent, content, submitted,
                     pending, failed, to_notify, buffer>>
      /\ \/ io[w] \in {"lock", "warm"} /\ io' = [io EXCEPT ![w] = "gone"]
         \/ io[w] \in {"lock", "warm"} /\ io' = [io EXCEPT ![w] = "blocked"]
         \/ io[w] \in {"lock", "warm"} /\ io' = [io EXCEPT ![w] = "lock"]
         \/ io[w] = "read" /\ io' = [io EXCEPT ![w] = "not ok"]
  BY DEF Direct!IoLeave, Direct!IoBlock, Direct!WarmRead, Direct!ChunkFails, Direct!callVars
<1>2. Direct!IoTypeOK'
  BY <1>1 DEF DirectInv, Direct!IoTypeOK
<1>3. SameWork
  <2>1. \A v \in IoThreads : (Holds(v)' <=> Holds(v)) /\ (io'[v] = "ok" <=> io[v] = "ok")
    BY <1>1 DEF DirectInv, Direct!IoTypeOK, Holds
  <2>2. reader \in {"check", "waiting"} => submitted = extent
    BY DEF DirectInv, AllGiven
  <2>3. QED
    BY <1>1, <2>1, <2>2 DEF SameWork, Holds
<1>4. QED
  BY <1>2, <1>3, SameWorkKeeps

LEMMA WaitDoneKeeps == ASSUME DirectInv, Direct!WaitDone PROVE DirectInv'
<1>1. Direct!IoTypeOK'
  BY DEF DirectInv, Direct!IoTypeOK, Direct!WaitDone
<1>2. SameWork
  <2>1. \A v \in IoThreads : (Holds(v)' <=> Holds(v)) /\ (io'[v] = "ok" <=> io[v] = "ok")
    BY DEF Direct!WaitDone, Holds
  <2>2. QED
    BY <2>1 DEF Direct!WaitDone, SameWork, Holds, Reading
<1>3. QED
  BY <1>1, <1>2, SameWorkKeeps

LEMMA AnsweredKeeps ==
  ASSUME DirectInv, Direct!Answered \/ Direct!NotifyExit \/ Direct!JoinIo PROVE DirectInv'
<1>1. Direct!IoTypeOK'
  BY DEF DirectInv, Direct!IoTypeOK, Direct!Answered, Direct!NotifyExit, Direct!JoinIo
<1>2. SameWork
  <2>1. \A v \in IoThreads : (Holds(v)' <=> Holds(v)) /\ (io'[v] = "ok" <=> io[v] = "ok")
    BY DEF DirectInv, Direct!IoTypeOK, Direct!Answered, Direct!NotifyExit, Direct!JoinIo, Holds
  <2>2. QED
    BY <2>1 DEF Direct!Answered, Direct!NotifyExit, Direct!JoinIo, SameWork, Holds, Reading
<1>3. QED
  BY <1>1, <1>2, SameWorkKeeps

-----------------------------------------------------------------------------
(* Outside a read only warming jobs come and go.                           *)
LEMMA OutsideKeeps ==
  ASSUME DirectInv, reader \notin Reading, reader' \notin Reading \cup {"true"},
         Direct!IoTypeOK',
         \A w \in IoThreads : ~Holds(w)',
         \A k \in DOMAIN jobs_' : jobs_'[k] = Direct!Warm
  PROVE  DirectInv'
<1>1. QueueSound' /\ HandsSound' /\ QueueOnce' /\ HandsOnce' /\ TakenOnce'
  BY DEF QueueSound, HandsSound, QueueOnce, HandsOnce, TakenOnce
<1>2. Pending' /\ AllGiven' /\ Arrived' /\ DirectReadComplete'
  BY DEF Pending, AllGiven, Arrived, DirectReadComplete, Direct!DirectReadComplete, Reading
<1>3. QED
  BY <1>1, <1>2 DEF DirectInv

LEMMA WarmPagesKeeps == ASSUME DirectInv, Direct!WarmPages PROVE DirectInv'
<1>1. /\ reader = "ready" /\ jobs_' = Append(jobs_, Direct!Warm) /\ to_notify' = TRUE
      /\ Len(jobs_) < MaxJobs
      /\ UNCHANGED <<io, taken, stop_, reader, request, extent, content, submitted, pending,
                     failed, buffer>>
  BY DEF Direct!WarmPages, Direct!Push, Direct!callVars
<1>2. Direct!Warm \in Direct!Job /\ jobs_ \in Seq(Direct!Job)
  <2>1. Direct!Warm \in Direct!Job
    BY BoundsAssumption, DirectAssumption DEF Direct!Warm, Direct!Job
  <2>2. QED
    BY <2>1 DEF DirectInv, Direct!IoTypeOK
<1>3. jobs_' \in Seq(Direct!Job) /\ Len(jobs_') <= MaxJobs
  BY <1>1, <1>2, DirectAssumption
<1>4. Direct!IoTypeOK'
  <2>1. to_notify' \in BOOLEAN
    BY <1>1
  <2>2. QED
    BY <1>1, <1>3, <2>1 DEF DirectInv, Direct!IoTypeOK
<1>5. \A k \in DOMAIN jobs_' : jobs_'[k] = Direct!Warm
  BY <1>1, <1>2, Quiet DEF Reading
<1>6. \A w \in IoThreads : ~Holds(w)'
  BY <1>1, Quiet DEF Reading, Holds
<1>7. QED
  BY <1>1, <1>4, <1>5, <1>6, OutsideKeeps DEF Reading

LEMMA ExitKeeps == ASSUME DirectInv, Direct!Exit PROVE DirectInv'
<1>1. Direct!IoTypeOK'
  <2>1. jobs_' = <<>> /\ jobs_' \in Seq(Direct!Job) /\ Len(jobs_') <= MaxJobs
    BY DirectAssumption DEF Direct!Exit
  <2>2. stop_' \in BOOLEAN
    BY DEF Direct!Exit
  <2>3. QED
    BY <2>1, <2>2 DEF DirectInv, Direct!IoTypeOK, Direct!Exit
<1>2. /\ \A w \in IoThreads : ~Holds(w)'
      /\ \A k \in DOMAIN jobs_' : jobs_'[k] = Direct!Warm
  <2>1. reader \notin Reading /\ io' = io /\ jobs_' = <<>>
    BY DEF Direct!Exit, Reading
  <2>2. \A w \in IoThreads : ~Holds(w)'
    BY <2>1, Quiet DEF Holds
  <2>3. QED
    BY <2>1, <2>2
<1>3. QED
  BY <1>1, <1>2, OutsideKeeps DEF Direct!Exit, Reading

(* A new read: every chunk is open.                                        *)
LEMMA ReadDirectKeeps ==
  ASSUME DirectInv, NEW n \in 1 .. MaxChunks, NEW s \in Sources, Direct!ReadDirect(n, s)
  PROVE  DirectInv' /\ reader' = "submit"
<1>1. /\ reader = "ready" /\ reader' = "submit" /\ request < Requests
      /\ request' = request + 1 /\ extent' = n /\ content' = s /\ submitted' = 0
      /\ pending' = [pending EXCEPT ![request + 1] = n]
      /\ UNCHANGED <<jobs_, io, taken, stop_, failed, to_notify, buffer>>
  BY DEF Direct!ReadDirect
<1>2. request + 1 \in Direct!Calls /\ n \in Nat /\ request + 1 \in 0 .. Requests
  <2>1. request \in 0 .. Requests
    BY DEF DirectInv, Direct!IoTypeOK
  <2>2. QED
    BY <1>1, <2>1, BoundsAssumption, DirectAssumption DEF Direct!Calls
<1>3. Direct!IoTypeOK' /\ pending'[request + 1] = n
  <2>1. pending' \in [Direct!Calls -> 0 .. MaxChunks] /\ pending'[request + 1] = n
    <3>1. n \in 0 .. MaxChunks
      BY BoundsAssumption
    <3>2. pending \in [Direct!Calls -> 0 .. MaxChunks]
      BY DEF DirectInv, Direct!IoTypeOK
    <3>3. QED
      BY <1>1, <1>2, <3>1, <3>2
  <2>2. extent' \in 0 .. MaxChunks /\ submitted' \in 0 .. extent'
    BY <1>1, <1>2, BoundsAssumption
  <2>3. QED
    BY <1>1, <1>2, <2>1, <2>2 DEF DirectInv, Direct!IoTypeOK
<1>4. /\ \A w \in IoThreads : ~Holds(w)'
      /\ \A k \in DOMAIN jobs_' : jobs_'[k] = Direct!Warm
  BY <1>1, Quiet DEF Reading, Holds
<1>5. Open' = 0 .. n - 1
  BY <1>1, <1>2 DEF Open
<1>6. QueueSound' /\ HandsSound' /\ QueueOnce' /\ HandsOnce' /\ TakenOnce'
  BY <1>4 DEF QueueSound, HandsSound, QueueOnce, HandsOnce, TakenOnce
<1>7. Pending'
  BY <1>1, <1>2, <1>3, <1>5, FS_Interval DEF Pending
<1>8. Arrived'
  BY <1>1, <1>4, <1>5 DEF Arrived, Holds
<1>9. AllGiven' /\ DirectReadComplete'
  BY <1>1 DEF AllGiven, DirectReadComplete, Direct!DirectReadComplete
<1>10. QED
  BY <1>1, <1>3, <1>6, <1>7, <1>8, <1>9 DEF DirectInv

(* A chunk that is submitted stays open, now as a job of the queue.        *)
LEMMA SubmitChunkKeeps == ASSUME DirectInv, Direct!SubmitChunk PROVE DirectInv'
<1> DEFINE j == [request |-> request, chunk |-> submitted]
<1>1. /\ reader = "submit" /\ submitted < extent /\ submitted' = submitted + 1
      /\ jobs_' = Append(jobs_, j) /\ to_notify' = TRUE /\ Len(jobs_) < MaxJobs
      /\ UNCHANGED <<io, taken, stop_, reader, request, extent, content, pending, failed,
                     buffer>>
  BY DEF Direct!SubmitChunk, Direct!Push
<1>2. /\ extent \in Nat /\ submitted \in Nat /\ submitted + 1 <= extent
      /\ extent <= MaxChunks /\ request \in Direct!Calls
  BY <1>1, OpenFinite DEF DirectInv, Pending, Reading
<1>3. j \in Direct!Job /\ j # Direct!Warm /\ j.request = request /\ j.chunk = submitted
  <2>1. request \in 0 .. Requests /\ request # 0 /\ submitted \in 0 .. MaxChunks
    BY <1>2, BoundsAssumption, DirectAssumption DEF Direct!Calls
  <2>2. QED
    BY <2>1 DEF Direct!Job, Direct!Warm
<1>4. /\ jobs_ \in Seq(Direct!Job) /\ jobs_' \in Seq(Direct!Job)
      /\ Len(jobs_) \in Nat /\ Len(jobs_') <= MaxJobs
      /\ DOMAIN jobs_ = 1 .. Len(jobs_) /\ DOMAIN jobs_' = 1 .. Len(jobs_) + 1
      /\ \A k \in DOMAIN jobs_ : jobs_'[k] = jobs_[k]
      /\ jobs_'[Len(jobs_) + 1] = j
  <2> HIDE DEF j
  <2>1. jobs_ \in Seq(Direct!Job)
    BY DEF DirectInv, Direct!IoTypeOK
  <2>2. QED
    BY <1>1, <1>3, <2>1, DirectAssumption
<1>5. \A k \in DOMAIN jobs_' : k \in DOMAIN jobs_ \/ (k \notin DOMAIN jobs_ /\ jobs_'[k] = j)
  BY <1>4
<1>6. Direct!IoTypeOK'
  <2>1. submitted' \in 0 .. extent' /\ to_notify' \in BOOLEAN
    BY <1>1, <1>2
  <2>2. QED
    BY <1>1, <1>4, <2>1 DEF DirectInv, Direct!IoTypeOK
<1>7. \A w \in IoThreads : Holds(w)' <=> Holds(w)
  BY <1>1 DEF Holds
<1>8. \A i : Current(i) => Current(i)' /\ i.chunk # submitted
  BY <1>1, <1>2 DEF Current
<1>9. QueueSound' /\ HandsSound'
  <2> HIDE DEF j
  <2>1. reader' \in Reading /\ j # Direct!Warm /\ j.request = request'
        /\ j.chunk \in 0 .. submitted' - 1
    BY <1>1, <1>2, <1>3 DEF Reading
  <2>2. QueueSound'
    BY <1>4, <1>5, <1>8, <2>1 DEF DirectInv, QueueSound, Current
  <2>3. HandsSound'
    BY <1>1, <1>7, <1>8 DEF DirectInv, HandsSound
  <2>4. QED
    BY <2>2, <2>3
<1>10. QueueOnce'
  BY <1>3, <1>4, <1>5, <1>8 DEF DirectInv, QueueSound, QueueOnce
<1>11. HandsOnce' /\ TakenOnce'
  <2>1. HandsOnce'
    BY <1>1, <1>7 DEF DirectInv, HandsOnce
  <2>2. TakenOnce'
    BY <1>1, <1>3, <1>4, <1>5, <1>7, <1>8 DEF DirectInv, HandsSound, TakenOnce
  <2>3. QED
    BY <2>1, <2>2
<1>12. Open' = Open
  <2>1. ASSUME NEW c \in 0 .. extent - 1
        PROVE  (c >= submitted' \/ Queued(c)' \/ Taken(c)') <=>
               (c >= submitted \/ Queued(c) \/ Taken(c))
    <3>1. Taken(c)' <=> Taken(c)
      BY <1>1, <1>7 DEF Taken
    <3>2. Queued(c)' <=> Queued(c) \/ c = submitted
      BY <1>3, <1>4, <1>5 DEF Queued
    <3>3. QED
      BY <1>1, <1>2, <3>1, <3>2
  <2>2. QED
    BY <1>1, <2>1 DEF Open
<1>13. Pending' /\ Arrived'
  BY <1>1, <1>12 DEF DirectInv, Pending, Arrived
<1>14. AllGiven' /\ DirectReadComplete'
  BY <1>1 DEF AllGiven, DirectReadComplete, Direct!DirectReadComplete
<1>15. QED
  BY <1>6, <1>9, <1>10, <1>11, <1>13, <1>14 DEF DirectInv

(* The answer: with nothing pending every chunk has arrived or failed.     *)
LEMMA CheckDoneKeeps == ASSUME DirectInv, Direct!CheckDone PROVE DirectInv'
<1>1. /\ reader = "check" /\ submitted = extent
      /\ UNCHANGED <<jobs_, io, taken, stop_, request, extent, content, submitted, pending,
                     failed, to_notify, buffer>>
  BY DEF Direct!CheckDone, DirectInv, AllGiven
<1>2. Direct!IoTypeOK'
  BY DEF DirectInv, Direct!IoTypeOK, Direct!CheckDone
<1>3. CASE reader' = "waiting"
  <2>1. SameWork
    BY <1>1, <1>3 DEF SameWork, Holds, Reading
  <2>2. QED
    BY <1>2, <2>1, SameWorkKeeps
<1>4. CASE reader' # "waiting"
  <2>1. pending[request] = 0 /\ reader' = IF failed[request] THEN "false" ELSE "true"
    BY <1>4 DEF Direct!CheckDone, Direct!Finished
  <2>2. /\ Open = {} /\ \A w \in IoThreads : ~Holds(w)
        /\ \A k \in DOMAIN jobs_ : jobs_[k] = Direct!Warm
    BY <1>1, <2>1, LatchEmpty DEF Reading
  <2>3. QueueSound' /\ HandsSound' /\ QueueOnce' /\ HandsOnce' /\ TakenOnce'
    BY <1>1, <2>2 DEF QueueSound, HandsSound, QueueOnce, HandsOnce, TakenOnce, Holds
  <2>4. Pending' /\ AllGiven' /\ Arrived'
    BY <2>1 DEF Pending, AllGiven, Arrived, Reading
  <2>5. DirectReadComplete'
    BY <1>1, <2>1, <2>2
       DEF DirectInv, Arrived, Reading, DirectReadComplete, Direct!DirectReadComplete
  <2>6. QED
    BY <1>2, <2>3, <2>4, <2>5 DEF DirectInv
<1>5. QED
  BY <1>3, <1>4

-----------------------------------------------------------------------------
(* A job goes from the queue into a hand: its chunk stays open.            *)
LEMMA IoTakeKeeps == ASSUME DirectInv, NEW w \in IoThreads, Direct!IoTake(w) PROVE DirectInv'
<1> DEFINE j == Head(jobs_)
<1>1. /\ io[w] = "lock" /\ jobs_ # <<>>
      /\ jobs_' = Tail(jobs_) /\ taken' = [taken EXCEPT ![w] = j]
      /\ io' = [io EXCEPT ![w] = IF j = Direct!Warm THEN "warm" ELSE "read"]
      /\ UNCHANGED <<stop_, reader, request, extent, content, submitted, pending, failed,
                     to_notify, buffer>>
  BY DEF Direct!IoTake, Direct!callVars
<1>2. /\ jobs_ \in Seq(Direct!Job) /\ Len(jobs_) <= MaxJobs
      /\ taken \in [IoThreads -> Direct!Job]
  BY DEF DirectInv, Direct!IoTypeOK
<1>3. /\ Len(jobs_) \in Nat /\ Len(jobs_) > 0 /\ j = jobs_[1] /\ j \in Direct!Job
      /\ jobs_' \in Seq(Direct!Job) /\ Len(jobs_') <= MaxJobs
      /\ DOMAIN jobs_ = 1 .. Len(jobs_) /\ DOMAIN jobs_' = 1 .. Len(jobs_) - 1
      /\ \A k \in DOMAIN jobs_' : k + 1 \in DOMAIN jobs_ /\ jobs_'[k] = jobs_[k + 1]
  BY <1>1, <1>2, DirectAssumption
<1> HIDE DEF j
<1>4. /\ \A v \in IoThreads : v # w => taken'[v] = taken[v] /\ io'[v] = io[v]
      /\ taken'[w] = j
      /\ io'[w] = IF j = Direct!Warm THEN "warm" ELSE "read"
  BY <1>1, <1>2 DEF DirectInv, Direct!IoTypeOK
<1>5. /\ \A v \in IoThreads : v # w => (Holds(v)' <=> Holds(v))
      /\ ~Holds(w) /\ (Holds(w)' <=> j # Direct!Warm)
      /\ \A v \in IoThreads : io'[v] = "ok" => io[v] = "ok" /\ v # w
  <2>1. io'[w] = "warm" \/ io'[w] = "read"
    BY <1>4
  <2>2. io'[w] = "read" <=> j # Direct!Warm
    BY <1>4
  <2>3. \A v \in IoThreads : v # w => (Holds(v)' <=> Holds(v))
    BY <1>4 DEF Holds
  <2>4. ~Holds(w)
    BY <1>1 DEF Holds
  <2>5. Holds(w)' <=> j # Direct!Warm
    BY <2>1, <2>2 DEF Holds
  <2>6. \A v \in IoThreads : io'[v] = "ok" => io[v] = "ok" /\ v # w
    BY <1>4, <2>1
  <2>7. QED
    BY <2>3, <2>4, <2>5, <2>6
<1>6. Direct!IoTypeOK'
  <2>1. taken' \in [IoThreads -> Direct!Job]
    BY <1>1, <1>2, <1>3
  <2>2. QED
    BY <1>1, <1>3, <2>1 DEF DirectInv, Direct!IoTypeOK
<1>7. \A i : Current(i)' <=> Current(i)
  BY <1>1 DEF Current
<1>8. QueueSound' /\ HandsSound'
  <2>1. QueueSound'
    BY <1>3, <1>7 DEF DirectInv, QueueSound
  <2>2. 1 \in DOMAIN jobs_
    BY <1>3
  <2>3. HandsSound'
    BY <1>3, <1>4, <1>5, <1>7, <2>2 DEF DirectInv, QueueSound, HandsSound
  <2>4. QED
    BY <2>1, <2>3
<1>9. QueueOnce' /\ HandsOnce' /\ TakenOnce'
  <2>1. QueueOnce'
    <3>1. SUFFICES ASSUME NEW k \in DOMAIN jobs_', NEW l \in DOMAIN jobs_', k # l,
                          jobs_'[k] # Direct!Warm, jobs_'[l] # Direct!Warm
                   PROVE  jobs_'[k].chunk # jobs_'[l].chunk
      BY DEF QueueOnce
    <3>2. k + 1 # l + 1
      BY <1>3, <3>1
    <3>3. QED
      BY <1>3, <3>1, <3>2 DEF DirectInv, QueueOnce
  <2>2. HandsOnce'
    <3>1. ASSUME NEW v \in IoThreads, v # w, Holds(v)', j # Direct!Warm
          PROVE  taken'[v].chunk # j.chunk
      <4>1. 1 \in DOMAIN jobs_ /\ Holds(v) /\ taken'[v] = taken[v]
        BY <1>3, <1>4, <1>5, <3>1
      <4>2. QED
        BY <1>3, <3>1, <4>1 DEF DirectInv, TakenOnce
    <3>2. QED
      BY <1>4, <1>5, <3>1 DEF DirectInv, HandsOnce
  <2>3. TakenOnce'
    <3>1. ASSUME NEW k \in DOMAIN jobs_', jobs_'[k] # Direct!Warm, j # Direct!Warm
          PROVE  j.chunk # jobs_'[k].chunk
      <4>1. 1 \in DOMAIN jobs_ /\ k + 1 # 1
        BY <1>3, <3>1
      <4>2. QED
        BY <1>3, <3>1, <4>1 DEF DirectInv, QueueOnce
    <3>2. ASSUME NEW v \in IoThreads, v # w, Holds(v)', NEW k \in DOMAIN jobs_',
                 jobs_'[k] # Direct!Warm
          PROVE  taken'[v].chunk # jobs_'[k].chunk
      BY <1>3, <1>4, <1>5, <3>2 DEF DirectInv, TakenOnce
    <3>3. QED
      BY <1>4, <1>5, <3>1, <3>2 DEF TakenOnce
  <2>4. QED
    BY <2>1, <2>2, <2>3
<1>10. Open' = Open
  <2>1. ASSUME NEW c PROVE Queued(c) \/ Taken(c) <=> Queued(c)' \/ Taken(c)'
    <3>1. ASSUME Queued(c) PROVE Queued(c)' \/ Taken(c)'
      <4>1. PICK k \in DOMAIN jobs_ : jobs_[k] # Direct!Warm /\ jobs_[k].chunk = c
        BY <3>1 DEF Queued
      <4>2. CASE k = 1
        BY <1>3, <1>4, <1>5, <4>1, <4>2 DEF Taken
      <4>3. CASE k # 1
        <5>1. k - 1 \in DOMAIN jobs_' /\ jobs_'[k - 1] = jobs_[k]
          BY <1>3, <4>1, <4>3
        <5>2. QED
          BY <4>1, <5>1 DEF Queued
      <4>4. QED
        BY <4>2, <4>3
    <3>2. ASSUME Taken(c) PROVE Taken(c)'
      BY <1>4, <1>5, <3>2 DEF Taken
    <3>3. ASSUME Queued(c)' PROVE Queued(c)
      BY <1>3, <3>3 DEF Queued
    <3>4. ASSUME Taken(c)' PROVE Queued(c) \/ Taken(c)
      <4>1. PICK v \in IoThreads : Holds(v)' /\ taken'[v].chunk = c
        BY <3>4 DEF Taken
      <4>2. CASE v = w
        <5>1. 1 \in DOMAIN jobs_ /\ jobs_[1] # Direct!Warm /\ jobs_[1].chunk = c
          BY <1>3, <1>4, <1>5, <4>1, <4>2
        <5>2. QED
          BY <5>1 DEF Queued
      <4>3. CASE v # w
        BY <1>4, <1>5, <4>1, <4>3 DEF Taken
      <4>4. QED
        BY <4>2, <4>3
    <3>5. QED
      BY <3>1, <3>2, <3>3, <3>4
  <2>2. QED
    BY <1>1, <2>1 DEF Open
<1>11. Pending' /\ AllGiven' /\ DirectReadComplete'
  BY <1>1, <1>10
     DEF DirectInv, Pending, AllGiven, DirectReadComplete, Direct!DirectReadComplete
<1>12. Arrived'
  BY <1>1, <1>4, <1>5, <1>10 DEF DirectInv, Arrived
<1>13. QED
  BY <1>6, <1>8, <1>9, <1>11, <1>12 DEF DirectInv

LEMMA ChunkReadKeeps ==
  ASSUME DirectInv, NEW w \in IoThreads, Direct!ChunkRead(w)
  PROVE  DirectInv' /\ reader \in Reading
<1> DEFINE c == taken[w].chunk
<1>1. /\ io[w] = "read" /\ io' = [io EXCEPT ![w] = "ok"]
      /\ buffer' = [buffer EXCEPT ![c] = content]
      /\ UNCHANGED <<jobs_, taken, stop_, reader, request, extent, content, submitted, pending,
                     failed, to_notify>>
  BY DEF Direct!ChunkRead, Direct!callVars
<1>2. Holds(w) /\ reader \in Reading /\ c \in 0 .. submitted - 1
  BY <1>1 DEF Holds, DirectInv, HandsSound, Current
<1>3. c \in 0 .. extent - 1 /\ c \in Direct!Chunks
  BY <1>2, OpenFinite, BoundsAssumption DEF Direct!Chunks
<1>4. buffer \in [Direct!Chunks -> Sources \cup {Blank}] /\ content \in Sources \cup {Blank}
      /\ io \in [IoThreads -> {"lock", "blocked", "warm", "read", "ok", "not ok", "gone"}]
  BY DEF DirectInv, Direct!IoTypeOK
<1>5. /\ \A d \in Direct!Chunks : buffer'[d] = IF d = c THEN content ELSE buffer[d]
      /\ buffer' \in [Direct!Chunks -> Sources \cup {Blank}]
  BY <1>1, <1>3, <1>4
<1>6. /\ \A v \in IoThreads : v # w => io'[v] = io[v]
      /\ io'[w] = "ok"
      /\ io' \in [IoThreads -> {"lock", "blocked", "warm", "read", "ok", "not ok", "gone"}]
  BY <1>1, <1>4
<1>7. Direct!IoTypeOK'
  BY <1>1, <1>5, <1>6 DEF DirectInv, Direct!IoTypeOK
<1>8. \A v \in IoThreads : Holds(v)' <=> Holds(v)
  BY <1>1, <1>6 DEF Holds
<1>9. Open' = Open
  BY <1>1, <1>8 DEF Open, Queued, Taken
<1>10. \A i : Current(i)' <=> Current(i)
  BY <1>1 DEF Current
<1>11. QueueSound' /\ HandsSound' /\ QueueOnce' /\ HandsOnce' /\ TakenOnce'
  BY <1>1, <1>8, <1>10
     DEF DirectInv, QueueSound, HandsSound, QueueOnce, HandsOnce, TakenOnce
<1>12. Pending' /\ AllGiven' /\ DirectReadComplete'
  BY <1>1, <1>2, <1>9
     DEF DirectInv, Pending, AllGiven, DirectReadComplete, Direct!DirectReadComplete, Reading
<1>13. Arrived'
  <2>1. \A d \in 0 .. extent - 1 : d \in Direct!Chunks
    BY OpenFinite, BoundsAssumption DEF Direct!Chunks
  <2>2. \A d \in 0 .. extent - 1 : d \in Open \/ failed[request] \/ buffer'[d] = content
    BY <1>2, <1>5, <2>1 DEF DirectInv, Arrived
  <2>3. ASSUME NEW v \in IoThreads, io'[v] = "ok" PROVE buffer'[taken[v].chunk] = content
    <3>1. CASE v = w
      BY <1>3, <1>5, <3>1
    <3>2. CASE v # w
      <4>1. io[v] = "ok" /\ Holds(v) /\ buffer[taken[v].chunk] = content
        BY <1>2, <1>6, <2>3, <3>2 DEF DirectInv, Arrived, Holds
      <4>2. taken[v].chunk \in Direct!Chunks
        BY <2>1, <4>1, OpenFinite DEF DirectInv, HandsSound, Current
      <4>3. QED
        BY <1>5, <4>1, <4>2
    <3>3. QED
      BY <3>1, <3>2
  <2>4. QED
    BY <1>1, <1>9, <2>2, <2>3 DEF Arrived
<1>14. QED
  BY <1>2, <1>7, <1>11, <1>12, <1>13 DEF DirectInv

(* The last critical section of a job: its chunk is not open any more.     *)
LEMMA LatchKeeps == ASSUME DirectInv, NEW w \in IoThreads, Direct!Latch(w) PROVE DirectInv'
<1> DEFINE c == taken[w].chunk
<1>1. /\ Holds(w) /\ io' = [io EXCEPT ![w] = "lock"]
      /\ io[w] = "ok" \/ io[w] = "not ok"
      /\ UNCHANGED <<jobs_, taken, stop_, request, extent, content, submitted, to_notify, buffer>>
  BY DEF Direct!Latch, Holds
<1>2. /\ reader \in Reading /\ taken[w].request = request /\ taken[w] # Direct!Warm
      /\ c \in 0 .. submitted - 1
  BY <1>1 DEF DirectInv, HandsSound, Current
<1>3. /\ request \in Direct!Calls /\ pending[request] = Cardinality(Open)
      /\ c \in 0 .. extent - 1 /\ submitted \in Nat /\ extent \in Nat
  BY <1>2, OpenFinite DEF DirectInv, Pending
<1>4. /\ pending \in [Direct!Calls -> 0 .. MaxChunks] /\ failed \in [Direct!Calls -> BOOLEAN]
      /\ io \in [IoThreads -> {"lock", "blocked", "warm", "read", "ok", "not ok", "gone"}]
  BY DEF DirectInv, Direct!IoTypeOK
<1>5. /\ pending' = [pending EXCEPT ![request] = pending[request] - 1]
      /\ failed' = [failed EXCEPT ![request] = io[w] = "not ok" \/ failed[request]]
      /\ reader' = reader \/ (reader = "waiting" /\ reader' = "check")
  BY <1>2 DEF Direct!Latch, Direct!Remaining, Direct!Failed
<1>6. reader' \in Reading /\ (reader' \in {"check", "waiting"} => reader \in {"check", "waiting"})
  BY <1>2, <1>5 DEF Reading
<1>7. /\ \A v \in IoThreads : v # w => io'[v] = io[v]
      /\ io'[w] = "lock"
  BY <1>1, <1>4
<1>8. \A v \in IoThreads : Holds(v)' <=> v # w /\ Holds(v)
  BY <1>7 DEF Holds
<1>9. Open' = Open \ {c} /\ c \in Open
  <2>1. ~Queued(c)
    BY <1>1 DEF DirectInv, TakenOnce, Queued
  <2>2. ASSUME NEW d PROVE Taken(d)' <=> Taken(d) /\ d # c
    <3>1. ASSUME Taken(d)' PROVE Taken(d) /\ d # c
      BY <1>1, <1>8, <3>1 DEF DirectInv, HandsOnce, Taken
    <3>2. ASSUME Taken(d), d # c PROVE Taken(d)'
      BY <1>1, <1>8, <3>2 DEF Taken
    <3>3. QED
      BY <3>1, <3>2
  <2>3. \A d : Queued(d)' <=> Queued(d)
    BY <1>1 DEF Queued
  <2>4. Taken(c)
    BY <1>1 DEF Taken
  <2>5. c \in Open
    BY <1>3, <2>4 DEF Open
  <2>6. submitted' = submitted /\ extent' = extent
    BY <1>1
  <2>7. ASSUME NEW d \in 0 .. extent - 1
        PROVE  (d >= submitted \/ Queued(d)' \/ Taken(d)') <=>
               (d >= submitted \/ Queued(d) \/ Taken(d)) /\ d # c
    <3>1. d = c => ~(d >= submitted)
      BY <1>2, <1>3
    <3>2. QED
      BY <2>1, <2>2, <2>3, <3>1
  <2>8. QED
    BY <2>5, <2>6, <2>7 DEF Open
<1>10. Cardinality(Open') = Cardinality(Open) - 1 /\ Cardinality(Open) \in Nat
  BY <1>9, OpenFinite, FS_RemoveElement
<1>11. pending[request] \in 1 .. MaxChunks /\ pending'[request] = Cardinality(Open')
  <2>1. Cardinality(Open) # 0
    BY <1>9, OpenFinite, FS_EmptySet
  <2>2. pending[request] \in 0 .. MaxChunks /\ pending'[request] = pending[request] - 1
    BY <1>3, <1>4, <1>5
  <2>3. QED
    BY <1>3, <1>10, <2>1, <2>2, BoundsAssumption
<1>12. Direct!IoTypeOK'
  <2>1. pending[request] - 1 \in 0 .. MaxChunks
    BY <1>11, BoundsAssumption
  <2>2. pending' \in [Direct!Calls -> 0 .. MaxChunks]
    BY <1>3, <1>4, <1>5, <2>1
  <2>3. failed' \in [Direct!Calls -> BOOLEAN]
    BY <1>3, <1>4, <1>5
  <2>4. io' \in [IoThreads -> {"lock", "blocked", "warm", "read", "ok", "not ok", "gone"}]
    BY <1>1, <1>4
  <2>5. QED
    BY <1>1, <1>6, <2>2, <2>3, <2>4 DEF DirectInv, Direct!IoTypeOK, Reading
<1>13. \A i : Current(i) => Current(i)'
  BY <1>1, <1>6 DEF Current
<1>14. QueueSound' /\ HandsSound' /\ QueueOnce' /\ HandsOnce' /\ TakenOnce'
  BY <1>1, <1>8, <1>13
     DEF DirectInv, QueueSound, HandsSound, QueueOnce, HandsOnce, TakenOnce
<1>15. Pending' /\ AllGiven' /\ DirectReadComplete'
  BY <1>1, <1>2, <1>3, <1>5, <1>6, <1>11
     DEF DirectInv, Pending, AllGiven, DirectReadComplete, Direct!DirectReadComplete, Reading
<1>16. Arrived'
  <2>1. failed'[request] <=> io[w] = "not ok" \/ failed[request]
    BY <1>3, <1>4, <1>5
  <2>2. io[w] = "ok" => buffer[c] = content
    BY <1>2 DEF DirectInv, Arrived
  <2>3. \A d \in 0 .. extent - 1 : d \in Open' \/ failed'[request] \/ buffer[d] = content
    BY <1>1, <1>2, <1>9, <2>1, <2>2 DEF DirectInv, Arrived
  <2>4. \A v \in IoThreads : io'[v] = "ok" => buffer[taken[v].chunk] = content
    BY <1>2, <1>7 DEF DirectInv, Arrived
  <2>5. QED
    BY <1>1, <2>3, <2>4 DEF Arrived
<1>17. QED
  BY <1>12, <1>14, <1>15, <1>16 DEF DirectInv

-----------------------------------------------------------------------------
LEMMA ReaderStepKeeps ==
  ASSUME DirectInv, Direct!ReaderStep
  PROVE  /\ DirectInv'
         /\ UNCHANGED <<buffer, extent, content>>
         /\ \/ reader' = reader
            \/ reader \in Reading /\ reader' \in Reading \cup {"true", "false"}
            \/ reader \in {"exit", "join"} /\ reader' \in {"join", "gone"}
<1>1. CASE Direct!NotifyOne
  BY <1>1, NotifyOneKeeps DEF Direct!NotifyOne, Direct!callVars
<1>2. CASE Direct!SubmitChunk
  BY <1>2, SubmitChunkKeeps DEF Direct!SubmitChunk
<1>3. CASE Direct!WaitDone
  BY <1>3, WaitDoneKeeps DEF Direct!WaitDone, Reading
<1>4. CASE Direct!CheckDone
  BY <1>4, CheckDoneKeeps DEF Direct!CheckDone, Reading
<1>5. CASE Direct!NotifyExit
  BY <1>5, AnsweredKeeps DEF Direct!NotifyExit
<1>6. CASE Direct!JoinIo
  BY <1>6, AnsweredKeeps DEF Direct!JoinIo
<1>7. QED
  BY <1>1, <1>2, <1>3, <1>4, <1>5, <1>6 DEF Direct!ReaderStep

LEMMA IoStepKeeps ==
  ASSUME DirectInv, NEW w \in IoThreads, Direct!IoStep(w)
  PROVE  /\ DirectInv'
         /\ UNCHANGED buffer \/ reader \in Reading
         /\ UNCHANGED <<extent, content>>
         /\ reader' = reader \/ (reader \in Reading /\ reader' \in Reading)
<1>1. CASE Direct!IoLeave(w) \/ Direct!IoBlock(w) \/ Direct!WarmRead(w) \/ Direct!ChunkFails(w)
  <2>1. UNCHANGED <<buffer, extent, content, reader>>
    BY <1>1
       DEF Direct!IoLeave, Direct!IoBlock, Direct!WarmRead, Direct!ChunkFails, Direct!callVars
  <2>2. QED
    BY <1>1, <2>1, IdleThreadKeeps
<1>2. CASE Direct!IoTake(w)
  BY <1>2, IoTakeKeeps DEF Direct!IoTake, Direct!callVars
<1>3. CASE Direct!ChunkRead(w)
  BY <1>3, ChunkReadKeeps DEF Direct!ChunkRead, Direct!callVars
<1>4. CASE Direct!Latch(w)
  <2>1. UNCHANGED <<buffer, extent, content>>
    BY <1>4 DEF Direct!Latch
  <2>2. reader' = reader \/ (reader = "waiting" /\ reader' = "check")
    BY <1>4 DEF Direct!Latch
  <2>3. QED
    BY <1>4, <2>1, <2>2, LatchKeeps DEF Reading
<1>5. QED
  BY <1>1, <1>2, <1>3, <1>4 DEF Direct!IoStep

-----------------------------------------------------------------------------
LEMMA Typing ==
  ASSUME HInv
  PROVE  /\ IInv /\ DirectInv /\ Places /\ AtHand /\ StagedHolds
         /\ stage \in {"idle", "direct", "warm", "copy", "copying", "staged", "closing", "exit"}
         /\ staged \in 0 .. Len(Constants) /\ chunks \in 0 .. MaxChunks
         /\ constant \in Contents
         /\ Copying = {"notify", "claim", "copy", "count", "await"}
         /\ Chunks = Direct!Chunks /\ Contents = Sources \cup {Blank}
  BY DEF HInv, TypeOK, Copying, Chunks, Direct!Chunks, Contents

LEMMA StagingStarts == StagingInit => HInv
<1> SUFFICES ASSUME StagingInit PROVE HInv
  OBVIOUS
<1>1. IInv /\ PoolTypeOK
  BY InitIInv DEF StagingInit, IInv
<1>2. /\ jobs_ = <<>> /\ reader = "ready" /\ request = 0 /\ extent = 0 /\ submitted = 0
      /\ content = Blank
      /\ io = [w \in IoThreads |-> "lock"] /\ taken = [w \in IoThreads |-> Direct!Warm]
      /\ pending = [r \in Direct!Calls |-> 0]
  BY DEF StagingInit, Direct!IoInit
<1>3. failed \in [Direct!Calls -> BOOLEAN] /\ stop_ \in BOOLEAN /\ to_notify \in BOOLEAN
  BY Zenon DEF StagingInit, Direct!IoInit
<1>4. buffer \in [Direct!Chunks -> Sources \cup {Blank}]
  BY <1>1 DEF PoolTypeOK, Chunks, Direct!Chunks, Contents
<1>5. Direct!Warm \in Direct!Job
  BY BoundsAssumption, DirectAssumption DEF Direct!Warm, Direct!Job
<1>6. Direct!IoTypeOK
  <2>1. jobs_ \in Seq(Direct!Job) /\ Len(jobs_) <= MaxJobs
    BY <1>2, DirectAssumption
  <2>2. taken \in [IoThreads -> Direct!Job] /\ pending \in [Direct!Calls -> 0 .. MaxChunks]
    BY <1>2, <1>5, BoundsAssumption
  <2>3. /\ request \in 0 .. Requests /\ extent \in 0 .. MaxChunks /\ submitted \in 0 .. extent
    BY <1>2, BoundsAssumption, DirectAssumption
  <2>4. QED
    BY <1>2, <1>3, <1>4, <2>1, <2>2, <2>3 DEF Direct!IoTypeOK
<1>7. DirectInv
  <2>1. QueueSound /\ HandsSound /\ QueueOnce /\ HandsOnce /\ TakenOnce
    BY <1>2 DEF QueueSound, HandsSound, QueueOnce, HandsOnce, TakenOnce, Holds
  <2>2. Pending /\ AllGiven /\ Arrived /\ DirectReadComplete
    BY <1>2
       DEF Pending, AllGiven, Arrived, DirectReadComplete, Direct!DirectReadComplete, Reading
  <2>3. QED
    BY <1>6, <2>1, <2>2 DEF DirectInv
<1>8. stage = "idle" /\ staged = 0 /\ chunks = 0 /\ constant = Blank /\ pc[Caller] = "ready"
  BY DEF StagingInit, Init, PoolInit, Threads
<1>9. TypeOK
  <2>1. Len(Constants) \in Nat
    BY ConstantsAssumption
  <2>2. staged \in 0 .. Len(Constants) /\ chunks \in 0 .. MaxChunks /\ constant \in Contents
    BY <1>8, <2>1, BoundsAssumption DEF Contents
  <2>3. QED
    BY <1>1, <1>6, <1>8, <2>2 DEF TypeOK
<1>10. Places /\ AtHand /\ StagedHolds
  BY <1>2, <1>8 DEF Places, AtHand, StagedHolds
<1>11. QED
  BY <1>1, <1>7, <1>9, <1>10 DEF HInv

-----------------------------------------------------------------------------
(* The file threads and the reader move while the pool stands still.       *)
LEMMA DirectStepsKeep ==
  ASSUME HInv, UNCHANGED <<poolVars, stageVars>>, DirectInv',
         UNCHANGED buffer \/ reader \in Reading,
         UNCHANGED <<extent, content>>,
         \/ reader' = reader
         \/ reader \in Reading /\ reader' \in Reading \cup {"true", "false"}
         \/ reader \in {"exit", "join"} /\ reader' \in {"join", "gone"}
  PROVE  HInv'
<1>1. /\ UNCHANGED <<stage, staged, chunks, constant, pc, job, size, source>>
      /\ Direct!IoTypeOK'
  BY DEF stageVars, poolVars, threadVars, jobVars, DirectInv
<1>2. reader \in Reading => stage = "direct" /\ pc[Caller] \notin Copying
  BY Typing DEF Places, Reading
<1>3. buffer' \in [Chunks -> Contents]
  BY <1>1, Typing DEF Direct!IoTypeOK
<1>4. IInv'
  BY <1>2, <1>3, Typing, FrameKeeps
<1>5. TypeOK'
  BY <1>1, <1>4, Typing DEF TypeOK, IInv
<1>6. Places'
  BY <1>1, Typing DEF Places, Reading
<1>7. AtHand'
  BY <1>1, Typing DEF AtHand
<1>8. StagedHolds'
  BY <1>1, <1>2, Typing DEF StagedHolds
<1>9. QED
  BY <1>4, <1>5, <1>6, <1>7, <1>8 DEF HInv

(* The pool moves while the file threads and the reader stand still.       *)
LEMMA PoolStepsKeep ==
  ASSUME HInv, UNCHANGED <<directVars, stageVars>>, IInv',
         UNCHANGED buffer \/ pc[Caller] \in Copying,
         UNCHANGED <<job, size, source>>,
         \/ pc'[Caller] = pc[Caller]
         \/ pc[Caller] \in Copying /\ pc'[Caller] \in Copying
         \/ pc[Caller] \in {"stop", "join"} /\ pc'[Caller] \in {"join", "gone"}
  PROVE  HInv'
<1>1. UNCHANGED <<stage, staged, chunks, constant, reader, extent, content>>
  BY DEF stageVars, directVars
<1>2. pc[Caller] \in Copying => stage = "copying" /\ reader = "ready"
  BY Typing DEF Places
<1>3. PoolTypeOK' /\ buffer' \in [Chunks -> Contents]
  BY DEF IInv, PoolTypeOK
<1>4. DirectInv'
  BY <1>2, <1>3, Typing, DirectFrame DEF Reading
<1>5. TypeOK'
  BY <1>1, <1>3, <1>4, Typing DEF TypeOK, DirectInv
<1>6. Places'
  BY <1>1, Typing DEF Places
<1>7. AtHand'
  BY <1>1, Typing DEF AtHand
<1>8. StagedHolds'
  BY <1>1, <1>2, Typing DEF StagedHolds
<1>9. QED
  BY <1>4, <1>5, <1>6, <1>7, <1>8, Typing DEF HInv

LEMMA ThreadsKeep ==
  ASSUME HInv,
         \/ PoolSteps(Notify \/ Work(Caller) \/ NotifyStop \/ Join)
         \/ \E w \in Workers : PoolThread(w)
         \/ DirectSteps(Direct!ReaderStep)
         \/ \E w \in IoThreads : IoThread(w)
  PROVE  HInv'
<1>1. Caller \in Threads /\ pc \in [Threads -> CallerPlaces \cup WorkerPlaces]
  BY DEF HInv, IInv, PoolTypeOK, Threads
<1>2. ASSUME NEW t \in Threads, Work(t)
      PROVE  /\ IInv' /\ UNCHANGED <<job, size, source>>
             /\ UNCHANGED buffer \/ pc[Caller] \in Copying
             /\ pc'[Caller] = pc[Caller] \/ (t = Caller /\ pc[Caller] \in Copying /\ pc'[Caller] \in Copying)
  <2>1. CASE Claim(t)
    <3>1. t # Caller => pc'[Caller] = pc[Caller]
      BY <1>1, <2>1 DEF Claim
    <3>2. t = Caller => pc[Caller] = "claim" /\ pc'[Caller] \in {"await", "copy"}
      BY <1>1, <2>1 DEF Claim
    <3>3. QED
      BY <2>1, <3>1, <3>2, ClaimKeeps, Typing DEF Claim
  <2>2. CASE CopyChunk(t)
    <3>1. pc[t] = "copy" /\ pc[Caller] \in Copying
      BY <2>2, BusyOnLastJob, Typing DEF CopyChunk, Busy
    <3>2. t # Caller => pc'[Caller] = pc[Caller]
      BY <1>1, <2>2 DEF CopyChunk
    <3>3. t = Caller => pc'[Caller] = "count"
      BY <1>1, <2>2 DEF CopyChunk
    <3>4. QED
      BY <2>2, <3>1, <3>2, <3>3, CopyChunkKeeps, Typing DEF CopyChunk, jobVars
  <2>3. CASE CountChunk(t)
    <3>1. t # Caller => pc'[Caller] = pc[Caller]
      BY <1>1, <2>3 DEF CountChunk
    <3>2. t = Caller => pc[Caller] = "count" /\ pc'[Caller] = "claim"
      BY <1>1, <2>3 DEF CountChunk
    <3>3. QED
      BY <2>3, <3>1, <3>2, CountChunkKeeps, Typing DEF CountChunk
  <2>4. QED
    BY <1>2, <2>1, <2>2, <2>3 DEF Work
<1>3. CASE PoolSteps(Notify \/ Work(Caller) \/ NotifyStop \/ Join)
  <2>1. UNCHANGED <<directVars, stageVars>>
    BY <1>3 DEF PoolSteps
  <2>2. CASE Notify
    <3>1. pc[Caller] = "notify" /\ pc'[Caller] = "claim" /\ UNCHANGED <<buffer, job, size, source>>
      BY <1>1, <2>2 DEF Notify, Woken, jobVars
    <3>2. QED
      BY <2>1, <2>2, <3>1, NotifyKeeps, PoolStepsKeep, Typing
  <2>3. CASE Work(Caller)
    BY <1>1, <1>2, <2>1, <2>3, PoolStepsKeep
  <2>4. CASE NotifyStop
    <3>1. pc[Caller] = "stop" /\ pc'[Caller] = "join" /\ UNCHANGED <<buffer, job, size, source>>
      BY <1>1, <2>4 DEF NotifyStop, WakeToStop, Woken, jobVars
    <3>2. QED
      BY <2>1, <2>4, <3>1, NotifyStopKeeps, PoolStepsKeep, Typing
  <2>5. CASE Join
    <3>1. pc[Caller] = "join" /\ pc'[Caller] = "gone" /\ UNCHANGED <<buffer, job, size, source>>
      BY <1>1, <2>5 DEF Join, jobVars
    <3>2. QED
      BY <2>1, <2>5, <3>1, JoinKeeps, PoolStepsKeep, Typing
  <2>6. QED
    BY <1>3, <2>2, <2>3, <2>4, <2>5 DEF PoolSteps
<1>4. ASSUME NEW w \in Workers, PoolThread(w) PROVE HInv'
  <2>1. UNCHANGED <<directVars, stageVars>> /\ WorkerStep(w)
    BY <1>4 DEF PoolThread, PoolSteps
  <2>2. w \in Threads /\ w # Caller
    BY CallerAssumption DEF Threads
  <2>3. CASE Leave(w) \/ Take(w) \/ Block(w)
    <3>1. pc'[Caller] = pc[Caller] /\ UNCHANGED <<buffer, job, size, source>>
      BY <1>1, <2>2, <2>3 DEF Leave, Take, Block, jobVars
    <3>2. IInv'
      BY <2>3, LeaveKeeps, TakeKeeps, BlockKeeps, Typing
    <3>3. QED
      BY <2>1, <3>1, <3>2, PoolStepsKeep
  <2>4. CASE Work(w)
    BY <1>2, <2>1, <2>2, <2>4, PoolStepsKeep
  <2>5. QED
    BY <2>1, <2>3, <2>4 DEF WorkerStep
<1>5. CASE DirectSteps(Direct!ReaderStep)
  <2>1. Direct!ReaderStep /\ UNCHANGED <<poolVars, stageVars>>
    BY <1>5 DEF DirectSteps
  <2>2. QED
    BY <2>1, ReaderStepKeeps, DirectStepsKeep, Typing
<1>6. ASSUME NEW w \in IoThreads, IoThread(w) PROVE HInv'
  <2>1. Direct!IoStep(w) /\ UNCHANGED <<poolVars, stageVars>>
    BY <1>6 DEF IoThread, DirectSteps
  <2>2. QED
    BY <2>1, IoStepKeeps, DirectStepsKeep, Typing
<1>7. QED
  BY <1>3, <1>4, <1>5, <1>6

-----------------------------------------------------------------------------
(* prefetch() goes from stage to stage.                                    *)
LEMMA NewTurnTyped ==
  ASSUME HInv, NewTurn
  PROVE  /\ stage = "idle" /\ reader = "ready" /\ pc[Caller] = "ready"
         /\ staged' \in 0 .. Len(Constants)
         /\ chunks' \in 1 .. MaxChunks /\ constant' \in Sources
         /\ chunks' \in 0 .. MaxChunks /\ constant' \in Contents
<1>1. stage = "idle" /\ staged \in 0 .. Len(Constants) /\ staged < Len(Constants)
  BY Typing DEF NewTurn
<1>2. Len(Constants) \in Nat
  BY ConstantsAssumption
<1>3. staged' \in 1 .. Len(Constants)
  BY <1>1, <1>2 DEF NewTurn
<1>4. Constants[staged'] \in [chunks : 1 .. MaxChunks, holds : Sources]
  <2> DEFINE R == [chunks : 1 .. MaxChunks, holds : Sources]
  <2>1. Constants \in Seq(R)
    BY ConstantsAssumption
  <2> HIDE DEF R
  <2>2. \A i \in 1 .. Len(Constants) : Constants[i] \in R
    BY <2>1
  <2>3. Constants[staged'] \in R
    BY <1>3, <2>2
  <2>4. QED
    BY <2>3 DEF R
<1>5. chunks' \in 1 .. MaxChunks /\ constant' \in Sources
  <2>1. \A r \in [chunks : 1 .. MaxChunks, holds : Sources] :
          r.chunks \in 1 .. MaxChunks /\ r.holds \in Sources
    OBVIOUS
  <2>2. chunks' = Constants[staged'].chunks /\ constant' = Constants[staged'].holds
    BY DEF NewTurn
  <2>3. QED
    BY <1>4, <2>1, <2>2
<1>6. QED
  BY <1>1, <1>2, <1>3, <1>5, Typing, BoundsAssumption DEF Places

LEMMA TryDirectKeeps == ASSUME HInv, TryDirect PROVE HInv'
<1>1. /\ UNCHANGED poolVars /\ stage' = "direct"
      /\ stage = "idle" /\ pc[Caller] = "ready"
      /\ staged' \in 0 .. Len(Constants)
      /\ chunks' \in 1 .. MaxChunks /\ constant' \in Sources
      /\ chunks' \in 0 .. MaxChunks /\ constant' \in Contents
      /\ Direct!ReadDirect(chunks', constant')
  BY NewTurnTyped DEF TryDirect
<1>2. pc' = pc /\ buffer' = buffer /\ extent' = chunks' /\ content' = constant'
  BY <1>1 DEF poolVars, threadVars, Direct!ReadDirect
<1>3. DirectInv' /\ reader' = "submit"
  BY <1>1, ReadDirectKeeps, Typing
<1>4. IInv'
  <2>1. buffer' \in [Chunks -> Contents]
    BY <1>2, Typing DEF IInv, PoolTypeOK
  <2>2. QED
    BY <1>1, <1>2, <2>1, FrameKeeps, Typing
<1>5. TypeOK'
  BY <1>1, <1>3, <1>4 DEF TypeOK, IInv, DirectInv
<1>6. Places' /\ AtHand' /\ StagedHolds'
  BY <1>1, <1>2, <1>3 DEF Places, AtHand, StagedHolds, Reading
<1>7. QED
  BY <1>3, <1>4, <1>5, <1>6 DEF HInv

LEMMA SkipDirectKeeps == ASSUME HInv, SkipDirect PROVE HInv'
<1>1. /\ UNCHANGED poolVars /\ UNCHANGED directVars /\ UNCHANGED buffer /\ stage' = "copy"
      /\ reader = "ready" /\ pc[Caller] = "ready"
      /\ staged' \in 0 .. Len(Constants)
      /\ chunks' \in 1 .. MaxChunks /\ constant' \in Sources
      /\ chunks' \in 0 .. MaxChunks /\ constant' \in Contents
  BY NewTurnTyped DEF SkipDirect
<1>2. pc' = pc /\ reader' = reader
  BY <1>1 DEF poolVars, threadVars, directVars
<1>3. buffer' \in [Chunks -> Contents]
  BY <1>1, Typing DEF IInv, PoolTypeOK
<1>4. DirectInv' /\ IInv'
  BY <1>1, <1>3, DirectFrame, FrameKeeps, Typing
<1>5. TypeOK'
  BY <1>1, <1>4 DEF TypeOK, IInv, DirectInv
<1>6. Places' /\ AtHand' /\ StagedHolds'
  BY <1>1, <1>2 DEF Places, AtHand, StagedHolds
<1>7. QED
  BY <1>4, <1>5, <1>6 DEF HInv

(* A true answer comes with the whole constant in the buffer.              *)
LEMMA DirectAnsweredKeeps == ASSUME HInv, DirectAnswered PROVE HInv'
<1>1. /\ UNCHANGED poolVars /\ UNCHANGED <<staged, chunks, constant>> /\ stage = "direct"
      /\ stage' \in AfterDirect /\ Direct!Answered
  BY DEF DirectAnswered
<1>2. pc' = pc /\ buffer' = buffer /\ reader' = "ready"
  BY <1>1 DEF poolVars, threadVars, Direct!Answered
<1>3. DirectInv'
  BY <1>1, AnsweredKeeps, Typing
<1>4. buffer' \in [Chunks -> Contents]
  BY <1>2, Typing DEF IInv, PoolTypeOK
<1>5. IInv'
  BY <1>1, <1>2, <1>4, FrameKeeps, Typing
<1>6. stage' \in {"warm", "staged", "copy"} /\ (stage' # "copy" => reader = "true")
  BY <1>1 DEF AfterDirect
<1>7. TypeOK'
  BY <1>1, <1>3, <1>5, <1>6, Typing DEF TypeOK, IInv, DirectInv
<1>8. Places' /\ AtHand'
  BY <1>1, <1>2, <1>6, Typing DEF Places, AtHand
<1>9. StagedHolds'
  <2>1. reader = "true" => \A c \in 0 .. chunks - 1 : buffer[c] = constant
    BY <1>1, Typing DEF DirectInv, DirectReadComplete, Direct!DirectReadComplete, AtHand
  <2>2. QED
    BY <1>1, <1>2, <1>6, <2>1 DEF StagedHolds
<1>10. QED
  BY <1>3, <1>5, <1>7, <1>8, <1>9 DEF HInv

LEMMA WarmAfterReadKeeps == ASSUME HInv, WarmAfterRead PROVE HInv'
<1>1. /\ UNCHANGED poolVars /\ UNCHANGED <<staged, chunks, constant>> /\ stage = "warm"
      /\ stage' = "staged" /\ Direct!WarmPages
  BY DEF WarmAfterRead
<1>2. pc' = pc /\ buffer' = buffer /\ reader' = "ready"
  BY <1>1 DEF poolVars, threadVars, Direct!WarmPages, Direct!callVars
<1>3. DirectInv'
  BY <1>1, WarmPagesKeeps, Typing
<1>4. buffer' \in [Chunks -> Contents]
  BY <1>2, Typing DEF IInv, PoolTypeOK
<1>5. IInv'
  BY <1>1, <1>2, <1>4, FrameKeeps, Typing
<1>6. TypeOK'
  BY <1>1, <1>3, <1>5, Typing DEF TypeOK, IInv, DirectInv
<1>7. Places' /\ AtHand' /\ StagedHolds'
  BY <1>1, <1>2, Typing DEF Places, AtHand, StagedHolds
<1>8. QED
  BY <1>3, <1>5, <1>6, <1>7 DEF HInv

LEMMA CopyAtOnceKeeps == ASSUME HInv, CopyAtOnce PROVE HInv'
<1>1. /\ UNCHANGED directVars /\ UNCHANGED <<staged, chunks, constant>> /\ stage = "copy"
      /\ stage' = "staged" /\ PlainCopy(chunks, constant)
      /\ chunks \in 1 .. MaxChunks /\ constant \in Sources /\ reader = "ready"
  BY Typing DEF CopyAtOnce, AtHand, Places
<1>2. /\ pc' = pc /\ reader' = reader
      /\ buffer' = [c \in Chunks |-> IF c < chunks THEN constant ELSE buffer[c]]
  BY <1>1 DEF PlainCopy, threadVars, directVars
<1>3. IInv'
  BY <1>1, PlainCopyKeeps, Typing
<1>4. DirectInv'
  <2>1. buffer' \in [Chunks -> Contents]
    BY <1>3 DEF IInv, PoolTypeOK
  <2>2. QED
    BY <1>1, <2>1, DirectFrame, Typing DEF Reading
<1>5. TypeOK'
  BY <1>1, <1>3, <1>4, Typing DEF TypeOK, IInv, DirectInv
<1>6. Places' /\ AtHand'
  BY <1>1, <1>2, Typing DEF Places, AtHand
<1>7. StagedHolds'
  <2>1. \A c \in 0 .. chunks - 1 : c \in Chunks /\ c < chunks
    BY <1>1, BoundsAssumption DEF Chunks
  <2>2. QED
    BY <1>1, <1>2, <2>1 DEF StagedHolds
<1>8. QED
  BY <1>3, <1>4, <1>5, <1>6, <1>7 DEF HInv

LEMMA CopyInPoolKeeps == ASSUME HInv, CopyInPool PROVE HInv'
<1>1. /\ UNCHANGED directVars /\ UNCHANGED <<staged, chunks, constant>> /\ stage = "copy"
      /\ stage' = "copying" /\ Publish(chunks, constant)
      /\ chunks \in 1 .. MaxChunks /\ constant \in Sources /\ reader = "ready"
  BY Typing DEF CopyInPool, AtHand, Places
<1>2. IInv'
  BY <1>1, PublishKeeps, Typing
<1>3. /\ buffer' = buffer /\ reader' = reader
      /\ pc'[Caller] = "notify" /\ size'[job'] = chunks /\ source'[job'] = constant
  <2>1. job + 1 \in Jobs
    BY <1>1, BoundsAssumption, Typing DEF Publish, IInv, PoolTypeOK, Jobs
  <2>2. /\ pc' = [pc EXCEPT ![Caller] = "notify"] /\ pc \in [Threads -> CallerPlaces \cup WorkerPlaces]
        /\ Caller \in Threads
    BY <1>1, Typing DEF Publish, IInv, PoolTypeOK, Threads
  <2>3. /\ size' = [size EXCEPT ![job + 1] = chunks] /\ size \in [Jobs -> 0 .. MaxChunks]
        /\ source' = [source EXCEPT ![job + 1] = constant] /\ source \in [Jobs -> Contents]
        /\ job' = job + 1
    BY <1>1, Typing DEF Publish, IInv, PoolTypeOK
  <2>4. buffer' = buffer /\ reader' = reader
    BY <1>1 DEF Publish, directVars
  <2>5. QED
    BY <2>1, <2>2, <2>3, <2>4
<1>4. DirectInv'
  <2>1. buffer' \in [Chunks -> Contents]
    BY <1>2 DEF IInv, PoolTypeOK
  <2>2. QED
    BY <1>1, <2>1, DirectFrame, Typing DEF Reading
<1>5. TypeOK'
  BY <1>1, <1>2, <1>4, Typing DEF TypeOK, IInv, DirectInv
<1>6. Places' /\ AtHand' /\ StagedHolds'
  BY <1>1, <1>3, Typing DEF Places, AtHand, StagedHolds, Copying
<1>7. QED
  BY <1>2, <1>4, <1>5, <1>6 DEF HInv

(* The pool's copy returns with the whole constant in the buffer.          *)
LEMMA CopyReturnsKeeps == ASSUME HInv, CopyReturns PROVE HInv'
<1>1. /\ UNCHANGED directVars /\ UNCHANGED <<staged, chunks, constant>> /\ stage = "copying"
      /\ stage' = "staged" /\ Return /\ reader = "ready"
      /\ size[job] = chunks /\ source[job] = constant
  BY Typing DEF CopyReturns, AtHand, Places
<1>2. IInv'
  BY <1>1, ReturnKeeps, Typing
<1>3. /\ buffer' = buffer /\ reader' = reader
      /\ pc'[Caller] = "ready" /\ pc[Caller] = "await" /\ AllCounted
  <2>1. /\ pc' = [pc EXCEPT ![Caller] = "ready"]
        /\ pc \in [Threads -> CallerPlaces \cup WorkerPlaces] /\ Caller \in Threads
    BY <1>1, Typing DEF Return, IInv, PoolTypeOK, Threads
  <2>2. buffer' = buffer /\ reader' = reader /\ pc[Caller] = "await" /\ AllCounted
    BY <1>1 DEF Return, directVars
  <2>3. QED
    BY <2>1, <2>2
<1>4. DirectInv'
  <2>1. buffer' \in [Chunks -> Contents]
    BY <1>2 DEF IInv, PoolTypeOK
  <2>2. QED
    BY <1>1, <2>1, DirectFrame, Typing DEF Reading
<1>5. TypeOK'
  BY <1>1, <1>2, <1>4, Typing DEF TypeOK, IInv, DirectInv
<1>6. Places' /\ AtHand'
  BY <1>1, <1>3, Typing DEF Places, AtHand
<1>7. StagedHolds'
  BY <1>1, <1>3, WholeCopy, Typing DEF StagedHolds, CopyComplete
<1>8. QED
  BY <1>2, <1>4, <1>5, <1>6, <1>7 DEF HInv

LEMMA TransferredKeeps == ASSUME HInv, Transferred PROVE HInv'
<1>1. /\ UNCHANGED poolVars /\ UNCHANGED directVars /\ UNCHANGED buffer
      /\ UNCHANGED <<staged, chunks, constant>> /\ stage = "staged" /\ stage' = "idle"
  BY DEF Transferred
<1>2. pc' = pc /\ reader' = reader
  BY <1>1 DEF poolVars, threadVars, directVars
<1>3. buffer' \in [Chunks -> Contents]
  BY <1>1, Typing DEF IInv, PoolTypeOK
<1>4. DirectInv' /\ IInv'
  BY <1>1, <1>3, DirectFrame, FrameKeeps, Typing
<1>5. TypeOK'
  BY <1>1, <1>4, Typing DEF TypeOK, IInv, DirectInv
<1>6. Places' /\ AtHand' /\ StagedHolds'
  BY <1>1, <1>2, Typing DEF Places, AtHand, StagedHolds
<1>7. QED
  BY <1>4, <1>5, <1>6 DEF HInv

LEMMA CloseKeeps == ASSUME HInv, Close PROVE HInv'
<1>1. /\ UNCHANGED directVars /\ UNCHANGED <<staged, chunks, constant>>
      /\ stage = "idle" /\ stage' = "closing" /\ Stop /\ reader = "ready"
  BY Typing DEF Close, Places
<1>2. IInv'
  BY <1>1, StopKeeps, Typing
<1>3. buffer' = buffer /\ reader' = reader /\ pc'[Caller] = "stop"
  <2>1. /\ pc' = [pc EXCEPT ![Caller] = "stop"]
        /\ pc \in [Threads -> CallerPlaces \cup WorkerPlaces] /\ Caller \in Threads
    BY <1>1, Typing DEF Stop, IInv, PoolTypeOK, Threads
  <2>2. buffer' = buffer /\ reader' = reader
    BY <1>1 DEF Stop, directVars
  <2>3. QED
    BY <2>1, <2>2
<1>4. DirectInv'
  <2>1. buffer' \in [Chunks -> Contents]
    BY <1>2 DEF IInv, PoolTypeOK
  <2>2. QED
    BY <1>1, <2>1, DirectFrame, Typing DEF Reading
<1>5. TypeOK'
  BY <1>1, <1>2, <1>4, Typing DEF TypeOK, IInv, DirectInv
<1>6. Places' /\ AtHand' /\ StagedHolds'
  BY <1>1, <1>3 DEF Places, AtHand, StagedHolds
<1>7. QED
  BY <1>2, <1>4, <1>5, <1>6 DEF HInv

LEMMA ExitProcessKeeps == ASSUME HInv, ExitProcess PROVE HInv'
<1>1. /\ UNCHANGED poolVars /\ UNCHANGED <<staged, chunks, constant>>
      /\ pc[Caller] = "gone" /\ stage' = "exit" /\ Direct!Exit
  BY DEF ExitProcess
<1>2. pc' = pc /\ buffer' = buffer /\ reader' = "exit"
  BY <1>1 DEF poolVars, threadVars, Direct!Exit
<1>3. DirectInv'
  BY <1>1, ExitKeeps, Typing
<1>4. buffer' \in [Chunks -> Contents]
  BY <1>2, Typing DEF IInv, PoolTypeOK
<1>5. IInv'
  BY <1>1, <1>2, <1>4, FrameKeeps, Typing
<1>6. TypeOK'
  BY <1>1, <1>3, <1>5, Typing DEF TypeOK, IInv, DirectInv
<1>7. Places' /\ AtHand' /\ StagedHolds'
  BY <1>1, <1>2 DEF Places, AtHand, StagedHolds
<1>8. QED
  BY <1>3, <1>5, <1>6, <1>7 DEF HInv

LEMMA StandsStill == ASSUME HInv, UNCHANGED allVars PROVE HInv'
<1>1. UNCHANGED poolVars /\ UNCHANGED directVars /\ UNCHANGED stageVars /\ UNCHANGED buffer
  BY DEF allVars
<1>2. UNCHANGED <<stage, staged, chunks, constant, pc, reader, extent, content, job, size, source>>
  BY <1>1 DEF poolVars, threadVars, jobVars, directVars, stageVars
<1>3. buffer' \in [Chunks -> Contents]
  BY <1>1, Typing DEF IInv, PoolTypeOK
<1>4. DirectInv' /\ IInv'
  BY <1>1, <1>3, DirectFrame, FrameKeeps, Typing
<1>5. QED
  BY <1>1, <1>2, <1>4, DirectStepsKeep

LEMMA StagingKeeps == ASSUME HInv, [StagingNext]_allVars PROVE HInv'
<1>1. CASE TryDirect \/ SkipDirect \/ Close
  BY <1>1, TryDirectKeeps, SkipDirectKeeps, CloseKeeps
<1>2. CASE Stages
  BY <1>2, DirectAnsweredKeeps, WarmAfterReadKeeps, CopyAtOnceKeeps, CopyInPoolKeeps,
     CopyReturnsKeeps, TransferredKeeps, ExitProcessKeeps DEF Stages
<1>3. CASE HostStep /\ ~Stages
  BY <1>3, ThreadsKeep DEF HostStep
<1>4. CASE \E w \in Workers : PoolThread(w)
  BY <1>4, ThreadsKeep
<1>5. CASE \E w \in IoThreads : IoThread(w)
  BY <1>5, ThreadsKeep
<1>6. CASE UNCHANGED allVars
  BY <1>6, StandsStill
<1>7. QED
  BY <1>1, <1>2, <1>3, <1>4, <1>5, <1>6 DEF StagingNext

LEMMA StagingInductive == StagingSpec => []HInv
  BY StagingStarts, StagingKeeps, PTL DEF StagingSpec

-----------------------------------------------------------------------------
(* The variables of the pool, of the direct reads and of prefetch() keep   *)
(* their types while the two kinds of threads work on one buffer.          *)
THEOREM StagingTypeCorrect == StagingSpec => []TypeOK
<1>1. HInv => TypeOK
  BY DEF HInv
<1>2. QED
  BY <1>1, StagingInductive, PTL

(* StagingPool::copy inside prefetch(): a copy that returns is complete,   *)
(* although file threads write the same buffer at other times.             *)
THEOREM StagedCopiesAreComplete == StagingSpec => []CopyComplete
<1>1. HInv => CopyComplete
  BY WholeCopy DEF HInv
<1>2. QED
  BY <1>1, StagingInductive, PTL

(* StagingPool inside prefetch(): no worker of the pool writes the buffer  *)
(* outside the copy it was published for, so neither a direct read nor a   *)
(* transfer meets one.                                                     *)
THEOREM StagedStragglersAreHarmless == StagingSpec => []NoLateWrites
<1>1. HInv => NoLateWrites
  BY NoLateWriter DEF HInv
<1>2. QED
  BY <1>1, StagingInductive, PTL

(* prefetch(): while the transfer to the device may read the buffer, it    *)
(* holds the constant that was staged, whichever way it was staged.        *)
THEOREM StagedConstantsAreWhole == StagingSpec => []StagedHolds
<1>1. HInv => StagedHolds
  BY DEF HInv
<1>2. QED
  BY <1>1, StagingInductive, PTL

(* read_direct: true means that every chunk of the range has arrived, in   *)
(* whatever order the threads read and whichever of the reads fail.        *)
THEOREM DirectReadsAreComplete == StagingSpec => []DirectReadComplete
<1>1. HInv => DirectReadComplete
  BY DEF HInv, DirectInv
<1>2. QED
  BY <1>1, StagingInductive, PTL

(* read_direct: when it has answered, none of its jobs is queued or in a   *)
(* thread's hand; the destination belongs to the caller again.             *)
THEOREM NoJobIsLeft == StagingSpec => []NoJobOutlivesItsRead
<1>1. HInv => NoJobOutlivesItsRead
  <2>1. ASSUME HInv, reader \notin Reading
        PROVE  Direct!Unfinished = {} /\ \A k \in DOMAIN jobs_ : jobs_[k] = Direct!Warm
    BY <2>1, Quiet, Typing DEF Direct!Unfinished, Holds
  <2>2. QED
    BY <2>1 DEF NoJobOutlivesItsRead, Direct!NoJobOutlivesItsRead, Reading
<1>2. QED
  BY <1>1, StagingInductive, PTL
=============================================================================
