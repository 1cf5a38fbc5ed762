---------------------------- MODULE EntryAdmission ----------------------------
(* An entry of a message, held back while the private stream cannot vouch for *)
(* what it would do: the run of its instruction item with the stream's gates, *)
(* its execution contract, the deadline, and the reconcilers that release or  *)
(* expire it.  The contract mode is "shadow", the one in production: a        *)
(* projection that fails or conflicts is swallowed.                           *)
EXTENDS PrivateStream

CONSTANTS
  MaxOthers,  \* bound: changes of the account not made by this entry
  MaxRuns     \* bound: runs of the message's instructions

ASSUME EntryAssumption == MaxOthers \in Nat /\ MaxRuns \in Nat

VARIABLES
  item,      \* message_instruction_items: status, the visibility delay has not
             \* elapsed, execution_deadline_at is set, the reason in error_json
  contract,  \* instruction_execution_contracts: state, deadline_at is set
  overdue,   \* the deadline has passed
  run,       \* the thread that runs the item: where it is, whether the deadline
             \* had passed when it claimed the item, the contract state it read,
             \* what it knows of the order
  runs,      \* runs so far
  sent       \* the runs whose order exists on the exchange

entryVars == <<item, contract, overdue, run, runs, sent>>
vars == <<streamVars, entryVars>>

Idle == [pc |-> "idle", late |-> FALSE, seen |-> "none", answer |-> "none"]

Init ==
  /\ StreamInit
  /\ item = [status |-> "pending", delay |-> FALSE, deadline |-> FALSE,
             reason |-> "none"]
  /\ contract = [state |-> "pending", deadline |-> FALSE]
  /\ overdue = FALSE /\ run = Idle /\ runs = 0 /\ sent = {}

\* The item's last word: its deadline or its retries are over.
Expired == [item EXCEPT !.status = "failed", !.delay = FALSE, !.reason = "expired"]

---------------------------------------------------------------------------
(* The run.                                                                 *)

Ends(status) ==
  /\ item' = [item EXCEPT !.status = status]
  /\ run' = Idle

Claim ==
  /\ Alive /\ run = Idle /\ runs < MaxRuns
  /\ item.status = "pending" /\ ~item.delay
  /\ item' = [item EXCEPT !.status = "executing"]
  /\ run' = [Idle EXCEPT !.pc = "gate", !.late = overdue]
  /\ runs' = runs + 1
  /\ UNCHANGED <<streamVars, contract, overdue, sent>>

\* The stream does not vouch, or its open gaps cannot be counted.
Refused ==
  \/ ~PermitsNewEntry /\ UNCHANGED troubles
  \/ Fault

Admit ==
  /\ run.pc = "gate" /\ PermitsNewEntry
  /\ run' = [run EXCEPT !.pc = "prepare"]
  /\ UNCHANGED <<streamVars, item, contract, overdue, runs, sent>>

\* Mutant: the deadline is written to the contract only.
StampContract ==
  /\ contract' = [contract EXCEPT !.deadline = TRUE]
  /\ run' = [run EXCEPT !.pc = "project"]
  /\ UNCHANGED item
\* _ensure_entry_admission_deadline; an item without one gets it from the run's
\* clock, which is not late then.
Stamp ==
  /\ item' = [item EXCEPT !.deadline = TRUE]
  /\ contract' = [contract EXCEPT !.deadline = TRUE]
  /\ run' = [run EXCEPT !.pc = "project"]

Hold ==
  /\ run.pc = "gate"
  /\ \/ Refused /\ Stamp
     \/ ~PermitsNewEntry /\ Fault /\ Ends("failed") /\ UNCHANGED contract
  /\ UNCHANGED <<exVars, dbVars, mem, snapshot, excused, overdue, runs, sent>>

ProjectDeferred ==
  /\ run.pc = "project"
  /\ \E ok \in BOOLEAN :
       /\ Trial(ok)
       /\ contract' = IF ok /\ contract.state = "pending"
                      THEN [contract EXCEPT !.state = "deferred"] ELSE contract
  /\ run' = [run EXCEPT !.pc = "defer"]
  /\ UNCHANGED <<exVars, dbVars, mem, snapshot, excused, item, overdue, runs, sent>>

\* The six hours of visibility retries began with the deferral that stamped the
\* deadline.  A write that fails leaves the item executing.
Defer ==
  /\ run.pc = "defer"
  /\ \E ok \in BOOLEAN :
       /\ Trial(ok)
       /\ item' = IF ~ok THEN item
                  ELSE IF run.late THEN Expired
                  ELSE [item EXCEPT !.status = "pending", !.delay = TRUE]
  /\ run' = Idle
  /\ UNCHANGED <<exVars, dbVars, mem, snapshot, excused, contract, overdue, runs, sent>>

\* prepare_entry_submission_contract up to its compare-and-set.
Prepare ==
  /\ run.pc = "prepare"
  /\ IF contract.state \notin {"pending", "deferred"}
       THEN Ends("failed") /\ UNCHANGED <<contract, troubles>>
     ELSE IF contract.deadline /\ overdue
       THEN Ends("failed") /\ UNCHANGED troubles
            /\ contract' = [contract EXCEPT !.state = "expired"]
     ELSE \E ok \in BOOLEAN :
            /\ Trial(ok)
            /\ run' = IF ok THEN [run EXCEPT !.pc = "commit", !.seen = contract.state]
                       ELSE [run EXCEPT !.pc = "check"]
            /\ UNCHANGED <<item, contract>>
  /\ UNCHANGED <<exVars, dbVars, mem, snapshot, excused, overdue, runs, sent>>

\* The contract may have been expired since; the conflict is swallowed.
Commit ==
  /\ run.pc = "commit"
  /\ contract' = IF contract.state = run.seen
                 THEN [contract EXCEPT !.state = "submitting"] ELSE contract
  /\ run' = [run EXCEPT !.pc = "check", !.seen = "none"]
  /\ UNCHANGED <<streamVars, item, overdue, runs, sent>>

\* The writer's own two gates, of which the second stands before the write.
Check ==
  /\ run.pc = "check"
  /\ \/ /\ PermitsNewEntry
        /\ run' = [run EXCEPT !.pc = "send"]
        /\ UNCHANGED <<item, contract, troubles>>
     \/ /\ Refused
        /\ Ends("failed")
        /\ contract' = IF contract.state = "submitting"
                       THEN [contract EXCEPT !.state = "failed"] ELSE contract
  /\ UNCHANGED <<exVars, dbVars, mem, snapshot, excused, overdue, runs, sent>>

\* The order call: placed or not, answered or not.
Send ==
  /\ run.pc = "send"
  /\ \E placed \in BOOLEAN, answer \in {"yes", "no", "lost"} :
       /\ answer = "yes" => placed
       /\ answer = "no" => ~placed
       /\ run' = [run EXCEPT !.pc = "record", !.answer = answer]
       /\ sent' = IF placed THEN sent \cup {runs} ELSE sent
       /\ IF placed THEN Change ELSE UNCHANGED <<world, wire, excused>>
  /\ UNCHANGED <<sock, dbVars, mem, snapshot, troubles, item, contract, overdue, runs>>

\* Mutant: the item gets the contract's word for an unknown outcome.
ContractStatuses(answer) ==
  CASE answer = "yes" -> {"submitted"} [] answer = "no" -> {"failed"}
    [] answer = "lost" -> {"submit_unknown"}
\* Mutant: an order without an answer is tried again.
LostWaits(answer) ==
  CASE answer = "yes" -> {"submitted", "failed"} [] answer = "no" -> {"failed"}
    [] answer = "lost" -> {"unknown", "pending"}
\* What execute_message_instruction_items files.  Only an unknown outcome that the
\* client reports as one is "unknown"; any other exception of the call, an answer
\* without an id for a trigger order, and whatever is raised after the answer by
\* the rows and protections still to be written make the item "failed".
ItemStatuses(answer) ==
  CASE answer = "yes" -> {"submitted", "failed"} [] answer = "no" -> {"failed"}
    [] answer = "lost" -> {"unknown", "failed"}

\* An answered order may still lack exact evidence, and a projection that fails
\* leaves the contract behind.
Record ==
  /\ run.pc = "record"
  /\ \E s \in {"verified", "submit_unknown", "submitting"} :
       /\ s = "verified" => run.answer = "yes"
       /\ contract' = IF contract.state = "submitting"
                      THEN [contract EXCEPT !.state = s] ELSE contract
  /\ \E status \in ItemStatuses(run.answer) : Ends(status)
  /\ UNCHANGED <<streamVars, overdue, runs, sent>>

Run == Admit \/ Hold \/ ProjectDeferred \/ Defer \/ Prepare \/ Commit \/ Check \/ Send \/ Record

---------------------------------------------------------------------------
(* The reconcilers and time.                                                *)

Held == item.status = "pending" /\ contract.state = "deferred"

\* _reconcile_ws_observation_defers: both rows or none.
Expire ==
  /\ Alive /\ Held /\ item.deadline /\ overdue
  /\ contract' = [contract EXCEPT !.state = "expired"]
  /\ item' = Expired
  /\ UNCHANGED <<streamVars, overdue, run, runs, sent>>

Release ==
  /\ Alive /\ Held /\ item.delay /\ ~overdue /\ PermitsNewEntry
  /\ item' = [item EXCEPT !.delay = FALSE]
  /\ UNCHANGED <<streamVars, contract, overdue, run, runs, sent>>

\* reconcile_instruction_execution_contracts looks at the contract alone.  The
\* tick tries Expire first, which skips an item that is being run or was updated
\* within five seconds.
ExpireContract ==
  /\ Alive /\ contract.state = "deferred" /\ contract.deadline /\ overdue
  /\ contract' = [contract EXCEPT !.state = "expired"]
  /\ UNCHANGED <<streamVars, item, overdue, run, runs, sent>>

DelayElapses ==
  /\ item.delay
  /\ item' = [item EXCEPT !.delay = FALSE]
  /\ UNCHANGED <<streamVars, contract, overdue, run, runs, sent>>

DeadlinePasses ==
  /\ item.deadline /\ ~overdue
  /\ overdue' = TRUE
  /\ UNCHANGED <<streamVars, item, contract, run, runs, sent>>

Others ==
  /\ world < MaxOthers + (IF sent # {} THEN 1 ELSE 0)
  /\ Change
  /\ UNCHANGED <<sock, dbVars, mem, snapshot, troubles, entryVars>>

\* The process dies: the run with it, its item stays executing.
Crash ==
  /\ Kill
  /\ run' = Idle
  /\ UNCHANGED <<item, contract, overdue, runs, sent>>

StreamStep == (Reader \/ TakesEffect \/ RoutingStops \/ Closes) /\ UNCHANGED entryVars

Next ==
  \/ StreamStep \/ Crash \/ Others
  \/ Claim \/ Run
  \/ Expire \/ Release \/ ExpireContract \/ DelayElapses \/ DeadlinePasses

Spec == Init /\ [][Next]_vars

\* The worker is restarted, its reader and the reconciler loop keep running and
\* time passes.  Nobody is obliged to run the message again.
FairSpec ==
  /\ Spec
  /\ WF_vars(Reader /\ UNCHANGED entryVars)
  /\ WF_vars(Expire) /\ WF_vars(DeadlinePasses)

---------------------------------------------------------------------------
(* Properties.                                                              *)

TypeOK ==
  /\ StreamTypes
  /\ item \in [status : {"pending", "executing", "submitted", "failed", "unknown"},
               delay : BOOLEAN, deadline : BOOLEAN, reason : {"none", "expired"}]
  /\ contract \in [state : {"pending", "deferred", "submitting", "submit_unknown",
                            "verified", "failed", "expired"}, deadline : BOOLEAN]
  /\ overdue \in BOOLEAN
  /\ run \in [pc : {"idle", "gate", "project", "defer", "prepare", "commit", "check",
                    "send", "record"}, late : BOOLEAN,
              seen : {"none", "pending", "deferred"}, answer : {"none", "yes", "no", "lost"}]
  /\ runs \in 0..MaxRuns /\ sent \subseteq 1..MaxRuns

\* The runs of which the item says that they ordered nothing: it waits for
\* another one, was claimed for a later one, or expired.
Back == item.status = "pending" \/ item.reason = "expired"
Fruitless == {r \in 1..runs : r < runs \/ Back}

\* Each run of the entry keeps the promise of FiledCall: its item is claimed before
\* the order is called for; an item that is put back to be run again, or has
\* expired, has had no order, whatever the runs before it met; a submitted one has
\* the order of its last run.  A failed item may or may not have one.
Calls == INSTANCE FiledCall WITH
  Ids <- 1..MaxRuns, filed <- (1..runs) \ Fruitless,
  calls <- [r \in 1..MaxRuns |-> IF r \in sent THEN 1 ELSE 0],
  effects <- sent,
  done <- (IF item.status = "submitted" THEN {runs} ELSE {}),
  denied <- Fruitless
CallsFiled == Calls!Spec

\* "Or the reconciler would hold the entry forever": a held entry is run again,
\* or its deadline ends it.  (An item whose contract was expired without it is
\* not Held any more, and nothing ends it.)
HeldEntryEnds == []<>~Held

\* The three promises of what must eventually happen.
Progress == StreamRecovers /\ MissedIsFound /\ HeldEntryEnds
=============================================================================
