-------------------------- MODULE MCWorkerCommands --------------------------
(* Overlapping workers are interchangeable: nothing in the specification   *)
(* names one.  The view leaves out what no action reads and no property of *)
(* this instance is about: which rows were cancelled, whether a report was *)
(* quiet, the reports a settled row no longer takes, and who was told that *)
(* a row is uncertain.                                                     *)
EXTENDS WorkerCommands, TLC

Symmetry == Permutations(Workers)

Usable == {<<r.cmd, r.found>> : r \in {s \in reports : status[s.cmd] \notin Settled}}
ToldEnds == {a \in told : a.answer \in Settled}

NoAudit ==
  <<rows, jobVars, workerVars, effectVars, waiting, ToldEnds, clock, stops, Usable,
    Cardinality(reports)>>
=============================================================================
