-------------------------- MODULE MCEntryAdmission --------------------------
(* The instance of EntryAdmission for TLC, with a view.  Past its checks a    *)
(* run reads neither the contract nor the deadline.  Once the item neither    *)
(* waits nor is being run nothing changes it any more, and no step reads it   *)
(* or its runs; the view keeps of them whether the status is a known one and  *)
(* whether an order exists.  Whether the deadline is still to come is kept    *)
(* throughout: the fairness reads it.                                         *)
EXTENDS EntryAdmission

Known == {"executing", "submitted", "failed", "unknown"}
WhatMatters ==
  <<streamVars, item.deadline /\ ~overdue,
    CASE run = Idle /\ item.status # "pending" -> <<item.status \in Known, sent # {}>>
      [] run.pc \in {"send", "record"} -> <<item.status, run.pc, run.answer, runs, sent>>
      [] OTHER -> <<item, contract, overdue, run, runs, sent>> >>
=============================================================================
