------------------------------- MODULE Search -------------------------------
(***************************************************************************)
(* opt::optimize: the beam search over the transforms of Rewrite, one step *)
(* per candidate.  Running and judging a candidate is the environment's:   *)
(* it may throw, be refused by the numeric bars, or be timed at any of the *)
(* given latencies.                                                        *)
(***************************************************************************)
EXTENDS Rewrite

CONSTANTS
  Requests,       (* The base contexts, discovery options and objectives   *)
                  (* optimize may be called with.                          *)
  Latencies,      (* minimum_milliseconds an accepted run may report.      *)
  Noises,         (* Percent by which the rechecked baseline may differ.   *)
  Margin,         (* improvement_margin, in percent.                       *)
  Tolerance,      (* latency_regression_tolerance, in percent.             *)
  BeamWidth, MaxDepth, MaxCandidates,
  MemoryBudget    (* AcceptanceBars::memory_budget_bytes.                  *)

ASSUME BoundsAssumption ==
  /\ BeamWidth \in Nat \ {0} /\ MaxDepth \in Nat /\ MaxCandidates \in Nat
  /\ Margin \in Nat /\ Tolerance \in Nat /\ Tolerance >= 100
  /\ Latencies \subseteq Nat /\ Noises \subseteq Nat /\ MemoryBudget \in Nat

(* Nothing has failed on a context that optimize is called with; of the    *)
(* options, the types.                                                     *)
ASSUME RequestsAssumption ==
  \A q \in Requests : /\ q.base.ok
                      /\ q.options.precisions \in Seq({F32, BF16, F16})
                      /\ q.options.prefetch_distances \in Seq(Nat)
                      /\ q.options.max_precision_candidates \in Nat

VARIABLES
  request,
  phase,          (* "baseline", "depth", "select", "done" or "failed".    *)
  candidates,     (* result.candidates.                                    *)
  contexts,       (* candidate index -> context, of those retained.        *)
  seen,
  beam,           (* The parents of this depth, those still to expand.     *)
  depth,
  transforms,     (* What discover proposed for the parent beam[1].        *)
  produced,       (* Accepted candidates of this depth.                    *)
  noise,          (* Percent by which timings are not to be trusted.        *)
  winner,
  plan,
  database        (* measured context -> its recorded transform sequence.  *)

vars == <<request, phase, candidates, contexts, seen, beam, depth, transforms,
          produced, noise, winner, plan, database>>

base == request.base

Unknown == Illegal([ops |-> <<>>, tensors |-> <<>>, bindings |-> <<>>, distance |-> 0, ok |-> FALSE])
Unexpanded == <<Transform("None", <<>>, 0)>>

Init ==
  /\ request \in Requests
  /\ phase = "baseline"
  /\ candidates = <<>> /\ contexts = <<>> /\ seen = {}
  /\ beam = <<>> /\ depth = 0 /\ transforms = Unexpanded /\ produced = <<>>
  /\ noise = 0 /\ winner = 0 /\ plan = <<>> /\ database = <<>>

Outcome(verdict, latency, bytes) ==
  [verdict |-> verdict, latency |-> latency, bytes |-> bytes]
Record(parent, sequence, c, outcome) ==
  [parent |-> parent, transforms |-> sequence, context |-> c, verdict |-> outcome.verdict,
   latency |-> outcome.latency, bytes |-> outcome.bytes]
Accepted(r) == r.verdict = "accepted"
Value(r) == IF request.objective = "latency" THEN r.latency ELSE r.bytes

(* evaluate: verify and measure, run, judge.  plan_memory refuses a total  *)
(* that does not fit the word; the run may throw, or a bar refuse its      *)
(* outputs; the memory budget refuses what it must.                        *)
Outcomes(c) ==
  LET bytes == PlannedBytes(c)
  IN  IF ~VerifiedContext(c) \/ bytes \notin 0 .. MaxU64 THEN {Outcome("verify", 0, 0)}
      ELSE {Outcome("rejected", 0, bytes)} \cup
           {Outcome("accepted", l, bytes) : l \in {k \in Latencies : bytes <= MemoryBudget}}

(* The baseline has to clear its own bars.                                 *)
Baseline ==
  /\ phase = "baseline"
  /\ \E outcome \in Outcomes(base) :
       /\ candidates' = <<Record(1, <<>>, base, outcome)>>
       /\ phase' = IF outcome.verdict = "accepted" THEN IF MaxDepth = 0 THEN "select" ELSE "depth"
                   ELSE "failed"
  /\ contexts' = <<base>>
  /\ seen' = {base}
  /\ beam' = <<1>>
  /\ depth' = 1
  /\ UNCHANGED <<request, transforms, produced, noise, winner, plan, database>>

Searching == phase = "depth" /\ depth <= MaxDepth /\ beam # <<>>
Full == Len(candidates) >= MaxCandidates

Expand ==
  /\ Searching /\ ~Full /\ transforms = Unexpanded
  /\ transforms' = Discover(contexts[beam[1]], request.options)
  /\ UNCHANGED <<request, phase, candidates, contexts, seen, beam, depth, produced,
                 noise, winner, plan, database>>

Add(r) == candidates' = Append(candidates, r)
Retain(i, c) == [j \in DOMAIN contexts \cup {i} |-> IF j = i THEN c ELSE contexts[j]]

(* A mutant extends the sequence of the candidate recorded last.           *)
Sequence_Mutant(parent, tr) == Append(Last(candidates).transforms, tr)
Sequence(parent, tr) == Append(candidates[parent].transforms, tr)

(* One proposed transform: refused by apply, a program seen before, or     *)
(* evaluated.  A program that does not verify cannot be encoded and has no *)
(* fingerprint.                                                            *)
Try ==
  /\ Searching /\ ~Full /\ transforms # Unexpanded /\ transforms # <<>>
  /\ LET parent == beam[1]
         tr == transforms[1]
         c == Apply(tr, contexts[parent])
         sequence == Sequence(parent, tr)
         index == Len(candidates) + 1
     IN  \/ /\ ~c.ok
            /\ Add(Record(parent, sequence, Unknown, Outcome("verify", 0, 0)))
            /\ UNCHANGED <<contexts, seen, produced>>
         \/ /\ c.ok /\ c \in seen
            /\ UNCHANGED <<candidates, contexts, seen, produced>>
         \/ /\ c.ok /\ c \notin seen
            /\ \E outcome \in Outcomes(c) :
                 /\ seen' = IF VerifiedContext(c) THEN seen \cup {c} ELSE seen
                 /\ Add(Record(parent, sequence, IF VerifiedContext(c) THEN c ELSE Unknown,
                               outcome))
                 /\ IF outcome.verdict = "accepted"
                    THEN contexts' = Retain(index, c) /\ produced' = Append(produced, index)
                    ELSE UNCHANGED <<contexts, produced>>
  /\ transforms' = Tail(transforms)
  /\ UNCHANGED <<request, phase, beam, depth, noise, winner, plan, database>>

NextParent ==
  /\ Searching
  /\ Full \/ transforms = <<>>
  /\ beam' = Tail(beam)
  /\ transforms' = Unexpanded
  /\ UNCHANGED <<request, phase, candidates, contexts, seen, depth, produced, noise, winner,
                 plan, database>>

(* The best of the accepted become the next beam, equal ones in the order  *)
(* of their digests, which is any order; every other context is dropped.   *)
BySortedValue(s) ==
  {q \in SetToAllKPermutations(ToSet(s)) :
     Len(q) = Len(s) /\ \A j, k \in DOMAIN q :
       j < k => Value(candidates[q[j]]) <= Value(candidates[q[k]])}

EndDepth ==
  /\ phase = "depth" /\ depth <= MaxDepth /\ beam = <<>>
  /\ IF produced = <<>>
     THEN phase' = "select" /\ UNCHANGED <<contexts, beam, depth>>
     ELSE /\ \E q \in BySortedValue(produced) :
               beam' = SubSeq(q, 1, Min({Len(q), BeamWidth}))
          /\ contexts' = [i \in ToSet(beam') |-> contexts[i]]
          /\ depth' = depth + 1
          /\ phase' = IF depth' > MaxDepth THEN "select" ELSE "depth"
  /\ produced' = <<>>
  /\ UNCHANGED <<request, candidates, seen, transforms, noise, winner, plan, database>>

(* The margin and the tolerance are widened to the noise of the machine;   *)
(* memory is computed, not timed.                                          *)
EffectiveMargin(n) == IF request.objective = "latency" THEN Max({Margin, n}) ELSE Margin
EffectiveTolerance(n) == Max({Tolerance, 100 + n})

(* A mutant lets candidates compete that missed their bars.                *)
Admissible_Mutant(r, n) ==
  /\ r.verdict # "verify"
  /\ request.objective = "memory" =>
       r.latency * 100 <= candidates[1].latency * EffectiveTolerance(n)
  /\ Value(r) * 100 <= Value(candidates[1]) * (100 - EffectiveMargin(n))

Admissible(r, n) ==
  /\ Accepted(r)
  /\ request.objective = "memory" =>
       r.latency * 100 <= candidates[1].latency * EffectiveTolerance(n)
  /\ Value(r) * 100 <= Value(candidates[1]) * (100 - EffectiveMargin(n))

(* Candidate i displaces the incumbent w.  Of candidates equal in value    *)
(* and length the one with the least digest wins, which may be any.        *)
Better(i, w, least) ==
  LET r == candidates[i]
      incumbent == candidates[w]
  IN  \/ Value(r) < Value(incumbent)
      \/ /\ Value(r) = Value(incumbent)
         /\ \/ Len(r.transforms) < Len(incumbent.transforms)
            \/ Len(r.transforms) = Len(incumbent.transforms) /\ i = least

Winner(n, least) ==
  LET improve(w, i) ==
        IF i # 1 /\ Admissible(candidates[i], n) /\ Better(i, w, least) THEN i ELSE w
  IN  FoldLeft(improve, 1, [i \in DOMAIN candidates |-> i])

(* plan.cpp replay_program: the base must be the recorded one, the result  *)
(* must verify and be the recorded candidate.                              *)
Replayed(start, sequence) == FoldLeft(LAMBDA c, tr : Apply(tr, c), start, sequence)
Replays(r) ==
  LET c == Replayed(base, r.transforms) IN c.ok /\ VerifiedContext(c) /\ c = r.context

(* The candidates that have a fingerprint, and the last with that of c.    *)
Fingerprinted == {i \in DOMAIN candidates : candidates[i].context # Unknown}
LastOf(c) == Max({i \in Fingerprinted : candidates[i].context = c})

(* Selection, the replay of the winner's plan, and one database record for *)
(* every candidate that has a fingerprint.                                 *)
Select ==
  /\ phase = "select"
  /\ noise' \in Noises
  /\ \E least \in DOMAIN candidates :
       /\ winner' = Winner(noise', least)
       /\ plan' = candidates[winner'].transforms
       /\ IF Replays(candidates[winner'])
          THEN /\ phase' = "done"
               /\ database' = [c \in {candidates[i].context : i \in Fingerprinted} |->
                                 candidates[LastOf(c)].transforms]
          ELSE phase' = "failed" /\ UNCHANGED database
  /\ UNCHANGED <<request, candidates, contexts, seen, beam, depth, transforms, produced>>

(* optimize returned, or threw.                                            *)
Finished == phase \in {"done", "failed"} /\ UNCHANGED vars

Next == Baseline \/ Expand \/ Try \/ NextParent \/ EndDepth \/ Select \/ Finished
Spec == Init /\ [][Next]_vars

-----------------------------------------------------------------------------
Preserves(c, d, tr) ==
  LET before == Meaning(c)
      after  == Meaning(d)
  IN  /\ DOMAIN after = DOMAIN before
      /\ \A t \in DOMAIN before :
           /\ after[t].real = before[t].real
           /\ tr.kind \notin Numeric => after[t].exact = before[t].exact

(* Of candidates the properties look at the one recorded last: each is     *)
(* that for a while.                                                       *)
Tried == phase = "depth" /\ Len(candidates) > 1

(* Every candidate computes what its parent computes, for every input of   *)
(* the program: bit by bit unless its last transform is numeric, and up to *)
(* rounding, precision and accumulation order in any case.  The rewrites   *)
(* of rewrite.cpp move, merge, fold and duplicate operations; each is only *)
(* legal because of conditions on readers, producers, roles and types that *)
(* earlier rewrites of the same sequence may have changed.                 *)
MeaningPreserved ==
  LET r == Last(candidates)
  IN  Tried /\ r.context # Unknown =>
        Preserves(candidates[r.parent].context, r.context, Last(r.transforms))

(* What discover proposes can be applied, and the program that results     *)
(* passes ir::verify, at any depth of the search.  The one exception: the  *)
(* legality of fusing a bias does not look at shapes, and a Linear whose   *)
(* result has more than two dimensions wants a bias of the whole row.      *)
ProposedAreLegal ==
  LET r == Last(candidates)
      c == candidates[r.parent].context
      wide(id) == Len(Dims(c, c.ops[At(c, id)].out[1])) > 2
      rest == SelectSeq(BiasSites(c), LAMBDA id : ~wide(id))
  IN  Tried /\ r.context = Unknown =>
        /\ Last(r.transforms).kind = "FuseLinearBias"
        /\ \E id \in ToSet(BiasSites(c)) : wide(id)
        /\ rest # <<>> => VerifiedContext(Apply(Transform("FuseLinearBias", rest, 0), c))

(* Replaying a recorded sequence of transforms on the base program builds  *)
(* the candidate it is recorded for, although the search dropped most      *)
(* contexts on its way: for every measurement of the database and for the  *)
(* plan that is returned.                                                  *)
PlansRebuild ==
  /\ \A c \in DOMAIN database : LET d == Replayed(base, database[c]) IN d.ok /\ d = c
  /\ phase = "done" => Replayed(base, plan) = candidates[winner].context

(* The winner is the baseline, or a measured candidate within the memory   *)
(* budget that beats the baseline by more than the noise of the machine;   *)
(* and no candidate that may win, the baseline included, is better.        *)
WinnerIsBest ==
  phase = "done" =>
    LET w == candidates[winner]
        rivals == {i \in 2 .. Len(candidates) : Admissible(candidates[i], noise)}
    IN  /\ Accepted(w) /\ w.bytes <= MemoryBudget
        /\ winner \in rivals \cup {1}
        /\ winner # 1 => Value(w) * 100 <= Value(candidates[1]) * (100 - Margin)
        /\ \A i \in rivals \cup {1} :
             \/ Value(w) < Value(candidates[i])
             \/ /\ Value(w) = Value(candidates[i])
                /\ Len(w.transforms) <= Len(candidates[i].transforms)

=============================================================================
