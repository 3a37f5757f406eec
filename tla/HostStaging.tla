---------------------------- MODULE HostStaging ----------------------------
(***************************************************************************)
(* How the prefetcher stages a streamed constant in a pinned buffer: a     *)
(* direct read when the constant's pages are not in the page cache, and a  *)
(* copy of the mapped pages by the staging pool otherwise or when the      *)
(* direct read fails.  The transfer to the device then reads the buffer    *)
(* until the buffer's next turn.                                           *)
(*                                                                         *)
(* The prefetcher's thread is the pool's Caller and the reader of          *)
(* FileIoPool; one buffer and one constant per turn stand for the ring.    *)
(***************************************************************************)
EXTENDS StagingPool, Sequences

CONSTANTS
  IoThreads, Requests, MaxJobs,
  Constants   (* The constants that take turns in the buffer: how many     *)
              (* chunks each has, and what it holds.                       *)

ASSUME ConstantsAssumption ==
  Constants \in Seq([chunks : 1 .. MaxChunks, holds : Sources])
ASSUME DirectAssumption == Requests \in Nat /\ MaxJobs \in Nat

VARIABLES
  stage,    (* Where prefetch() is with the constant.                      *)
  staged,   (* How many constants it has begun to stage.                   *)
  chunks,   (* The chunks of the constant at hand, and what it holds.      *)
  constant,
  jobs_, io, taken, stop_, reader, request, extent, content, submitted,
  pending, failed, to_notify

Direct == INSTANCE FileIoPool

stageVars == <<stage, staged, chunks, constant>>
directVars == <<jobs_, io, taken, stop_, reader, request, extent, content,
                submitted, pending, failed, to_notify>>
allVars   == <<poolVars, directVars, stageVars, buffer>>

StagingInit ==
  /\ Init
  /\ Direct!IoInit
  /\ stage = "idle"
  /\ staged = 0
  /\ chunks = 0
  /\ constant = Blank

-----------------------------------------------------------------------------
(* The buffer's last transfer is done; the next constant takes its turn.   *)
NewTurn ==
  /\ stage = "idle"
  /\ staged < Len(Constants)
  /\ staged' = staged + 1
  /\ chunks' = Constants[staged'].chunks
  /\ constant' = Constants[staged'].holds

(* direct_io_ and fewer than nine tenths of the pages resident.            *)
TryDirect ==
  /\ NewTurn
  /\ Direct!ReadDirect(chunks', constant')
  /\ stage' = "direct"
  /\ UNCHANGED poolVars

(* No direct I/O, most pages resident, or a file that has no descriptor    *)
(* for direct reads.                                                       *)
SkipDirect ==
  /\ NewTurn
  /\ stage' = "copy"
  /\ UNCHANGED <<poolVars, directVars, buffer>>

(* Mutant: the answer of the direct read is not looked at.                 *)
AfterDirect_Ignored == {"warm", "staged"}

(* On success the pages are warmed when warm_page_cache_ is set.           *)
AfterDirect == IF reader = "true" THEN {"warm", "staged"} ELSE {"copy"}

DirectAnswered ==
  /\ stage = "direct"
  /\ Direct!Answered
  /\ stage' \in AfterDirect
  /\ UNCHANGED <<poolVars, staged, chunks, constant>>

WarmAfterRead ==
  /\ stage = "warm"
  /\ Direct!WarmPages
  /\ stage' = "staged"
  /\ UNCHANGED <<poolVars, staged, chunks, constant>>

CopyAtOnce ==
  /\ stage = "copy"
  /\ PlainCopy(chunks, constant)
  /\ stage' = "staged"
  /\ UNCHANGED <<directVars, staged, chunks, constant>>

CopyInPool ==
  /\ stage = "copy"
  /\ Publish(chunks, constant)
  /\ stage' = "copying"
  /\ UNCHANGED <<directVars, staged, chunks, constant>>

CopyReturns ==
  /\ stage = "copying"
  /\ Return
  /\ stage' = "staged"
  /\ UNCHANGED <<directVars, staged, chunks, constant>>

(* The transfer to the device is done.                                     *)
Transferred ==
  /\ stage = "staged"
  /\ stage' = "idle"
  /\ UNCHANGED <<poolVars, directVars, staged, chunks, constant, buffer>>

(* The prefetcher is destroyed, and the process exits.                     *)
Close ==
  /\ stage = "idle"
  /\ Stop
  /\ stage' = "closing"
  /\ UNCHANGED <<directVars, staged, chunks, constant>>

ExitProcess ==
  /\ stage = "closing" /\ pc[Caller] = "gone"
  /\ Direct!Exit
  /\ stage' = "exit"
  /\ UNCHANGED <<poolVars, staged, chunks, constant>>

-----------------------------------------------------------------------------
Stages == \/ DirectAnswered \/ WarmAfterRead \/ CopyAtOnce \/ CopyInPool
          \/ CopyReturns \/ Transferred \/ ExitProcess

PoolSteps(A) == A /\ UNCHANGED <<directVars, stageVars>>
DirectSteps(A) == A /\ UNCHANGED <<poolVars, stageVars>>

HostStep ==
  \/ Stages
  \/ PoolSteps(Notify \/ Work(Caller) \/ NotifyStop \/ Join)
  \/ DirectSteps(Direct!ReaderStep)

PoolThread(w) == PoolSteps(WorkerStep(w))
IoThread(w)   == DirectSteps(Direct!IoStep(w))

StagingNext ==
  \/ TryDirect \/ SkipDirect \/ Close \/ HostStep
  \/ \E w \in Workers : PoolThread(w)
  \/ \E w \in IoThreads : IoThread(w)

(* Every thread that can take a step is scheduled in the end.              *)
StagingSpec ==
  /\ StagingInit /\ [][StagingNext]_allVars
  /\ WF_allVars(HostStep)
  /\ \A w \in Workers : WF_allVars(PoolThread(w))
  /\ \A w \in IoThreads : WF_allVars(IoThread(w))
-----------------------------------------------------------------------------
TypeOK ==
  /\ PoolTypeOK
  /\ Direct!IoTypeOK
  /\ stage \in {"idle", "direct", "warm", "copy", "copying", "staged", "closing", "exit"}
  /\ staged \in 0 .. Len(Constants)
  /\ chunks \in 0 .. MaxChunks
  /\ constant \in Contents

(* While the transfer to the device may read the buffer, it holds the      *)
(* constant that was staged: no thread of either pool that is late for an  *)
(* earlier constant, or for the failed direct read of this one, writes it. *)
StagedHolds ==
  stage \in {"warm", "staged"} => \A c \in 0 .. chunks - 1 : buffer[c] = constant

(* The properties of the direct read, see FileIoPool.                      *)
DirectReadComplete   == Direct!DirectReadComplete
NoJobOutlivesItsRead == Direct!NoJobOutlivesItsRead

(* Staging a constant always ends: the host waits neither for a chunk that *)
(* nobody copies nor for a latch that nobody releases.                     *)
StagingEnds == stage = "direct" \/ stage = "copy" ~> stage = "staged"

(* Both destructors join their threads.                                    *)
ThreadsJoin == stage = "closing" ~> reader = "gone"
=============================================================================
