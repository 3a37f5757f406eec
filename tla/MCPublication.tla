--------------------------- MODULE MCPublication ---------------------------
(***************************************************************************)
(* Instance of Publication: per tool, sessions whose commands can meet.    *)
(***************************************************************************)
EXTENDS Publication

MCNames == {"ckptA", "ckptB", "db", "program", "shard", "bundle", "cache"}
MCPaths == MCNames \X {"final", "partial"}

Command(tool, out, from, program, items) ==
  [tool |-> tool, out |-> out, from |-> from, program |-> program, items |-> items]

Train(out, from, program, steps) ==
  Command("train", <<out>>, from, program, [k \in 1 .. steps |-> k])
RecordAll(candidates) == Command("record", <<"db">>, "", "p", candidates)
Package == <<"program", "shard", "bundle">>
Quantize(version) == Command("quantize", Package, "", "p", <<version>>)
Load == Command("load", Package, "", "p", <<>>)
Sample == Command("sample", <<"cache">>, "", "p", <<"weights">>)

(* Resuming what may not be there yet, or belongs to another program.      *)
MCSessions ==
  { << Train("ckptA", "", "p", 2), Train("ckptB", "ckptA", "p", 1), Train("ckptB", "ckptA", "p", 2) >>,
    << Train("ckptA", "", "p", 1), Train("ckptA", "", "q", 2), Train("ckptB", "ckptA", "p", 1) >>,
    << RecordAll(<<1, 2>>), RecordAll(<<2>>), RecordAll(<<3>>) >>,
    << Quantize(1), Quantize(2), Load >>,
    << Sample, Sample, Sample >> }
=============================================================================
