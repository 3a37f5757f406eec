---------------------------- MODULE Publication ----------------------------
(***************************************************************************)
(* How the command-line tools publish what they compute: under a temporary *)
(* name that is renamed when the file is complete.  A session is a list of *)
(* commands, each run once by a process of its own; processes overlap,     *)
(* fail and are killed at any step.  A command is a record of              *)
(*   tool     "train"     diftrain run-*: resume, train, write a checkpoint*)
(*            "record"    a tuning database: load, then record measurements*)
(*            "quantize"  difquant: program, shard and bundle              *)
(*            "sample"    difflux2sample: use or build a weight cache      *)
(*            "load"      whoever loads a package                          *)
(*   out      the names of the files it publishes, in order                *)
(*   from     the checkpoint it resumes ("" for a fresh start)             *)
(*   program  the fingerprint of its program                               *)
(*   items    the steps it trains, the candidates it records or the        *)
(*            version of what it packs                                     *)
(* A file has two parts of payload and, by kind, a digest.                 *)
(***************************************************************************)
EXTENDS FileSystem, FiniteSets

CONSTANTS
  Names,          (* What is published.                                    *)
  Sessions,       (* Sequences of commands.                                *)
  MaxOverlap      (* Bound on the processes at work at the same time.      *)

ASSUME PathsAssumption == Paths = Names \X {"final", "partial"}

(* What one command publishes no command of another kind does, and files   *)
(* that belong together are only published together.                       *)
Packs(c) == c.tool \in {"quantize", "load"}
ASSUME SessionsAssumption ==
  \A s \in Sessions : \A r \in DOMAIN s :
    /\ s[r].tool \in {"train", "record", "quantize", "sample", "load"}
    /\ s[r].out \in Seq(Names) /\ Len(s[r].out) = (IF Packs(s[r]) THEN 3 ELSE 1)
    /\ IsInjective(s[r].out) /\ s[r].from \in Names \cup {""} /\ Len(s[r].items) \in Nat
    /\ \A q \in DOMAIN s :
         /\ ToSet(s[q].out) \cap ToSet(s[r].out) # {} =>
              s[q].out = s[r].out /\ (Packs(s[q]) \/ s[q].tool = s[r].tool)
         /\ s[r].from \in ToSet(s[q].out) => s[q].tool = "train"

VARIABLES
  session,
  runs,           (* process -> where it is and what it holds.             *)
  saved,          (* Which candidates record() has put in which database.  *)
  contested,      (* Names two overlapping processes were to publish; who  *)
                  (* only reads them contests nothing.                     *)
  spoiled         (* Names whose last bytes were lost when it was closed.  *)

vars == <<names, files, session, runs, saved, contested, spoiled>>

Processes  == DOMAIN session
Cmd(r)     == session[r]
Is(r, t)   == Cmd(r).tool = t
Final(n)   == <<n, "final">>
(* A mutant writes in place.                                               *)
Partial_Mutant(n) == <<n, "final">>
Partial(n) == <<n, "partial">>
Live(r)    == runs[r].pc \notin {"off", "done", "failed", "killed"}
(* At work on files of its own; who only reads is not.                     *)
Publishing(r) == runs[r].pc \in {"work", "open", "write", "rename"}

(* The current file of a process and its value.                            *)
Out(r)     == Cmd(r).out[runs[r].file]

-----------------------------------------------------------------------------
(* Files.                                                                  *)
Part(k, v) == [kind |-> k, of |-> v]
Body(v)    == <<Part("first", v), Part("second", v)>>
Digest(b)  == Part("digest", b)

(* What a file of process r holds when complete; the bundle names what was *)
(* read back as the shard.                                                 *)
Kind(r) == CASE Is(r, "quantize") /\ runs[r].file = 2 -> "tensors"
             [] Is(r, "sample") -> "tensors"
             [] Is(r, "train") -> "checkpoint"
             [] OTHER -> "encoded"
FileValue(r) ==
  IF ~Is(r, "quantize") THEN runs[r].value
  ELSE CASE runs[r].file = 1 -> <<Cmd(r).program>>
         [] runs[r].file = 2 -> Cmd(r).items
         [] runs[r].file = 3 -> <<Cmd(r).program, runs[r].packed>>

(* The parts a process writes through its stream.                          *)
Stream(r) == Body(FileValue(r)) \o
             IF Kind(r) = "encoded" THEN <<Digest(Body(FileValue(r)))>> ELSE <<>>

(* The readers: an encoded file and a checkpoint end in the digest of what *)
(* precedes; a SafeTensors file has a header that says how long it is.     *)
(* A mutant does not compare the digest.                                   *)
Headed(c) == Len(c) >= 1 /\ c[1].kind = "first"
Digested_Mutant(c) == Headed(c) /\ Len(c) = 3
Digested(c) == Headed(c) /\ Len(c) = 3 /\ c[3] = Digest(SubSeq(c, 1, 2))
Sized(c)    == Headed(c) /\ Len(c) = 2

Readable(n, Check(_)) == Exists(Final(n)) /\ Check(Content(Final(n)))
Read(n)  == SubSeq(Content(Final(n)), 1, 2)
Entry(n) == [name |-> n, body |-> Read(n)]
Value(b) == b[1].of
Whole(b) == b = Body(Value(b))

-----------------------------------------------------------------------------
Idle == [pc |-> "off", file |-> 1, inode |-> None, offset |-> 0, item |-> 1,
         value |-> <<>>, packed |-> <<>>, loaded |-> <<>>]

Init ==
  /\ NoFiles
  /\ session \in Sessions
  /\ runs = [r \in Processes |-> Idle]
  /\ saved = {} /\ contested = {} /\ spoiled = {}

Unchanged == UNCHANGED <<session, saved, contested, spoiled>>
Go(r, pc) == runs' = [runs EXCEPT ![r].pc = pc]
At(r, pc) == runs[r].pc = pc

(* require_new, require_new_path.  A mutant would overwrite what is        *)
(* published.                                                              *)
Free_Mutant(n) == ~Exists(Partial(n))
Free(n) == ~Exists(Final(n)) /\ ~Exists(Partial(n))

MayStart_Mutant(c) ==
  c.tool \in {"train", "quantize"} => ~Exists(Partial(c.out[1]))
MayStart(c) ==
  CASE c.tool = "train"    -> ~Exists(Final(c.out[1]))
    [] c.tool = "quantize" -> \A n \in ToSet(c.out) : Free(n)
    [] OTHER -> TRUE

(* What a process starts from: a training state, or the entries of a       *)
(* database (candidate -> the process that measured it).  No element: the  *)
(* file is refused.                                                        *)
From(n) == [value |-> Value(Read(n)), loaded |-> <<Entry(n)>>]
Restored(c) ==
  IF c.from = ""
  THEN {[value |-> [program |-> c.program, steps |-> 0, inputs |-> <<>>], loaded |-> <<>>]}
  ELSE IF Readable(c.from, Digested) /\ Value(Read(c.from)).program = c.program
  THEN {From(c.from)} ELSE {}
Database(n) ==
  IF ~Exists(Final(n)) THEN {[value |-> <<>>, loaded |-> <<>>]}
  ELSE IF Readable(n, Digested) THEN {From(n)} ELSE {}
StartsFrom(r) ==
  CASE Is(r, "train")  -> Restored(Cmd(r))
    [] Is(r, "record") -> Database(Out(r))
    [] OTHER -> {[value |-> <<>>, loaded |-> <<>>]}

(* A process checks its outputs and loads what it starts from, or throws.  *)
Start(r) ==
  /\ At(r, "off") /\ \A q \in 1 .. r - 1 : ~At(q, "off")
  /\ Cardinality({q \in Processes : Live(q)}) < MaxOverlap
  /\ IF MayStart(Cmd(r)) /\ StartsFrom(r) # {}
     THEN \E s \in StartsFrom(r) :
            runs' = [runs EXCEPT
              ![r].pc = IF Is(r, "load") \/ (Is(r, "sample") /\ Exists(Final(Out(r))))
                        THEN "use" ELSE "work",
              ![r].value = s.value, ![r].loaded = s.loaded]
     ELSE Go(r, "failed")
  /\ contested' = contested \cup
       {n \in ToSet(Cmd(r).out) :
          Publishing(r)' /\ \E q \in Processes : Publishing(q) /\ n \in ToSet(Cmd(q).out)}
  /\ UNCHANGED <<names, files, session, saved, spoiled>>

(* The optimizer sees the number of steps completed in all runs so far; a  *)
(* mutant counts those of this run.                                        *)
StepInput_Mutant(state, local) == local
StepInput(state, local) == state.steps + local
Trained(state, steps) ==
  LET inputs == [k \in 1 .. steps |-> StepInput(state, k - 1)]
  IN  [state EXCEPT !.steps = @ + steps, !.inputs = @ \o inputs]

Measured(database, candidate, r) ==
  [c \in DOMAIN database \cup {candidate} |-> IF c = candidate THEN r ELSE database[c]]

(* The computation; a trainer and a cache builder then check that nobody   *)
(* left their names behind.                                                *)
Work(r) ==
  /\ At(r, "work")
  /\ Is(r, "train") => Free(Out(r))
  /\ Is(r, "sample") => ~Exists(Partial(Out(r)))
  /\ runs' = [runs EXCEPT ![r].pc = "open", ![r].value =
       CASE Is(r, "train") -> Trained(@, Len(Cmd(r).items))
         [] Is(r, "record") -> Measured(@, Cmd(r).items[runs[r].item], r)
         [] OTHER -> Cmd(r).items]
  /\ Unchanged /\ UNCHANGED <<names, files>>

Open(r) ==
  /\ At(r, "open")
  /\ OpenTruncated(Partial(Out(r)))
  /\ runs' = [runs EXCEPT ![r].pc = "write", ![r].inode = Opened(Partial(Out(r))),
                          ![r].offset = 0]
  /\ Unchanged

Write(r) ==
  /\ At(r, "write") /\ runs[r].offset < Len(Stream(r))
  /\ WriteAt(runs[r].inode, runs[r].offset, Stream(r)[runs[r].offset + 1])
  /\ runs' = [runs EXCEPT ![r].offset = @ + 1]
  /\ Unchanged

(* The file is closed.  A checkpoint is read back by name for its digest,  *)
(* which is appended by name; a SafeTensors file is read back.             *)
LastFile(r) == runs[r].file = Len(Cmd(r).out)
AfterFile(r, packed) ==
  runs' = [runs EXCEPT ![r].pc = IF LastFile(r) THEN "rename" ELSE "open",
                       ![r].file = IF LastFile(r) THEN 1 ELSE @ + 1, ![r].packed = packed]

Close(r) ==
  /\ At(r, "write") /\ runs[r].offset = Len(Stream(r))
  /\ LET p == Partial(Out(r))
     IN  /\ Kind(r) = "checkpoint" => Exists(p) /\ Len(Content(p)) >= 2
         /\ Kind(r) = "tensors" => Exists(p) /\ Sized(Content(p))
         /\ IF Kind(r) = "checkpoint"
            THEN AppendTo(p, Digest(SubSeq(Content(p), 1, 2)))
            ELSE UNCHANGED <<names, files>>
         /\ AfterFile(r, IF Kind(r) = "tensors" THEN Content(p) ELSE runs[r].packed)
  /\ Unchanged

(* The digest is still in the stream's buffer when the code has looked at  *)
(* the stream for the last time: its destructor cannot report that the     *)
(* disk is full.                                                           *)
CloseShort(r) ==
  /\ At(r, "write") /\ runs[r].offset = 2
  /\ Kind(r) \in {"encoded", "checkpoint"}
  /\ Kind(r) = "checkpoint" => Exists(Partial(Out(r))) /\ Len(Content(Partial(Out(r)))) >= 2
  /\ spoiled' = spoiled \cup {Out(r)}
  /\ AfterFile(r, runs[r].packed)
  /\ UNCHANGED <<names, files, session, saved, contested>>

(* The complete files get their names, in order.  record() has then saved  *)
(* its candidate and the next is measured.                                 *)
Rename(r) ==
  /\ At(r, "rename") /\ Exists(Partial(Out(r)))
  /\ Move(Partial(Out(r)), Final(Out(r)))
  /\ saved' = IF ~Is(r, "record") THEN saved
              ELSE saved \cup {[in |-> Out(r), candidate |-> Cmd(r).items[runs[r].item]]}
  /\ IF ~LastFile(r) THEN runs' = [runs EXCEPT ![r].file = @ + 1]
     ELSE IF Is(r, "record") /\ runs[r].item < Len(Cmd(r).items)
     THEN runs' = [runs EXCEPT ![r].pc = "work", ![r].item = @ + 1]
     ELSE Go(r, IF Is(r, "sample") THEN "use" ELSE "done")
  /\ UNCHANGED <<session, contested, spoiled>>

(* Using a cache, or a package: the program, then the bundle, which must   *)
(* be of that program, then the shard, of which only the size is compared. *)
UseOrder(r) ==
  IF Is(r, "load") THEN <<Cmd(r).out[1], Cmd(r).out[3], Cmd(r).out[2]>> ELSE Cmd(r).out
Use(r) ==
  /\ At(r, "use")
  /\ LET k == Len(runs[r].loaded)
         n == UseOrder(r)[k + 1]
     IN  /\ IF Is(r, "sample") \/ k = 2 THEN Readable(n, Sized) ELSE Readable(n, Digested)
         /\ Is(r, "load") /\ k = 1 =>
              Value(Read(n))[1] = Value(runs[r].loaded[1].body)[1]
         /\ Is(r, "load") /\ k = 2 =>
              Len(Content(Final(n))) = Len(Value(runs[r].loaded[2].body)[2])
         /\ runs' = [runs EXCEPT ![r].loaded = Append(@, Entry(n)),
                                 ![r].pc = IF k + 1 = Len(UseOrder(r)) THEN "done" ELSE "use"]
  /\ Unchanged /\ UNCHANGED <<names, files>>

(* An exception, or what the steps above refuse.  The trainer removes its  *)
(* temporary file and the quantizer its three; the others leave theirs.    *)
Leftover(r) ==
  IF runs[r].pc \notin {"open", "write", "rename"} \/ Cmd(r).tool \notin {"train", "quantize"}
  THEN {} ELSE {Partial(n) : n \in ToSet(Cmd(r).out)}
Fail(r) ==
  /\ Live(r)
  /\ RemoveAll(Leftover(r))
  /\ Go(r, "failed")
  /\ Unchanged

Kill(r) ==
  /\ Live(r)
  /\ Go(r, "killed")
  /\ Unchanged /\ UNCHANGED <<names, files>>

(* Between two commands the user removes a temporary file that was left,   *)
(* as the refusals ask for.                                                *)
Tidy ==
  /\ \A r \in Processes : ~Live(r)
  /\ \E n \in Names : Exists(Partial(n)) /\ RemoveAll({Partial(n)})
  /\ Unchanged /\ UNCHANGED runs

Finished == (\A r \in Processes : ~Live(r) /\ ~At(r, "off")) /\ UNCHANGED vars

Step(r) == \/ Start(r) \/ Work(r) \/ Open(r) \/ Write(r) \/ Close(r) \/ CloseShort(r)
           \/ Rename(r) \/ Use(r) \/ Fail(r) \/ Kill(r)
Next == (\E r \in Processes : Step(r)) \/ Tidy \/ Finished
Spec == Init /\ [][Next]_vars

-----------------------------------------------------------------------------
PublishedBy(tool) == UNION {ToSet(Cmd(r).out) : r \in {q \in Processes : Is(q, tool)}}

(* Whatever a reader accepts is the whole of one value somebody wrote:     *)
(* never a file that was cut short by a crash, and never a mixture.  For   *)
(* the tuning database this holds even when several processes write it at  *)
(* the same time through the one temporary name; the other names are only  *)
(* spoken of when one process at a time was to publish them.               *)
LoadedIsWhole ==
  \A r \in Processes : \A k \in DOMAIN runs[r].loaded :
    LET e == runs[r].loaded[k]
    IN  Is(r, "record") \/ e.name \notin contested => Whole(e.body)

(* A checkpoint that can be resumed holds the state that uninterrupted     *)
(* training to its number of steps gives, however many runs it took and    *)
(* whichever of them failed or were killed.                                *)
ResumedIsUninterrupted ==
  \A n \in PublishedBy("train") \ contested :
    Readable(n, Digested) =>
      LET state == Value(Read(n))
      IN  state.inputs = [k \in 1 .. state.steps |-> k - 1]

(* Once record() has returned, the database can be loaded and has the      *)
(* candidate, whatever later processes do, as long as no two of them are   *)
(* at work at the same time and no close loses its last bytes.             *)
RecordsSurvive ==
  \A m \in saved : m.in \notin contested \cup spoiled =>
    Readable(m.in, Digested) /\ m.candidate \in DOMAIN Value(Read(m.in))

(* A package that loads is the work of one quantizer: the shard is the one *)
(* the bundle was written for, although only its size is compared and      *)
(* wherever the three loads fall between the three renames of a quantizer  *)
(* that is still at work; and what a quantizer that returned has published *)
(* can be loaded.                                                          *)
PackageConsistent ==
  \A r \in Processes : LET out == Cmd(r).out IN
    /\ Is(r, "load") /\ At(r, "done") /\ ToSet(out) \cap contested = {} =>
         LET l == runs[r].loaded
         IN  Value(l[2].body)[2] = l[3].body
    /\ Is(r, "quantize") /\ At(r, "done") /\ ToSet(out) \cap (contested \cup spoiled) = {} =>
         /\ Readable(out[1], Digested) /\ Readable(out[3], Digested)
         /\ Value(Read(out[3])) = <<Value(Read(out[1]))[1], Content(Final(out[2]))>>

(* Checkpoints, packages and caches never change once they have their      *)
(* names.                                                                  *)
PublishedStays ==
  [][\A n \in Names \ (contested' \cup PublishedBy("record")) :
       Exists(Final(n)) => Exists(Final(n))' /\ Content(Final(n))' = Content(Final(n))]_vars
=============================================================================
