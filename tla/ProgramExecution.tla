-------------------------- MODULE ProgramExecution --------------------------
(***************************************************************************)
(* What running a program promises: in every iteration each operation is   *)
(* performed exactly once, after the operations whose results it reads,    *)
(* and the run goes through all its iterations.  Several operations may be *)
(* performed in one step, as a fused launch or a cached region does.       *)
(***************************************************************************)
EXTENDS DiffIR

VARIABLES
  job,        (* The program and how many times it is executed.            *)
  iteration,  (* The iteration under way.                                  *)
  performed   (* The operations performed in it.                           *)

vars == <<job, iteration, performed>>
All  == Operations(job.program)

(* Operations whose results operation i reads.                             *)
Needs(i) == UNION {Producers(job.program, t) : t \in job.program.inputs[i]}

Init == iteration = 0 /\ performed = {}

Perform(S) ==
  /\ S # {} /\ S \cap performed = {}
  /\ \A i \in S : Needs(i) \subseteq performed \cup S
  /\ performed' = performed \cup S
  /\ UNCHANGED <<job, iteration>>

NextIteration ==
  /\ performed = All
  /\ iteration + 1 < job.iterations
  /\ iteration' = iteration + 1
  /\ performed' = {}
  /\ UNCHANGED job

Next == (\E S \in SUBSET All : Perform(S)) \/ NextIteration

Spec == Init /\ [][Next]_vars /\ WF_vars(Next)

Finished == iteration + 1 = job.iterations /\ performed = All
=============================================================================
