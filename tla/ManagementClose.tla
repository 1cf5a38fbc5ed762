--------------------------- MODULE ManagementClose ---------------------------
(* One close batch of a strategy, from "ready" to its end: the message thread *)
(* M that planned it executes it at once, the management worker W picks up    *)
(* what M did not start or a crash left behind, and the reconcilers, taken    *)
(* together as R, carry exchange truth into the batch.  The position          *)
(* authority lock serialises executions and reconciliations; W's claim, its   *)
(* restart check and its two freezes run outside of it.                       *)
EXTENDS Naturals, FiniteSets

CONSTANTS
  Legs,        \* strategy_management_legs of the batch
  MaxTroubles  \* bound: process deaths, exchange calls whose answer is lost,
               \* changes of a position or its ownership by others, all together

ASSUME CloseAssumption ==
  /\ IsFiniteSet(Legs) /\ Legs # {}
  /\ MaxTroubles \in Nat

Actors == {"M", "W", "R"}
Executors == {"M", "W"}
LegStates == {"planned", "reserved", "submitted", "submit_unknown", "partial",
              "confirmed", "inconsistent", "failed"}
\* ACTIVE_MANAGEMENT_BATCH_SQL_PREDICATE: these no longer hold the strategy.
Ended == {"succeeded", "blocked", "resolved"}
Statuses == Ended \cup {"ready", "executing", "reconciling", "partial_failed",
                        "recovery_required"}
\* A position against the leg's plan: preflight size, between, preflight minus
\* the planned close (nothing, for a full close), less than that.
Sizes == {"before", "between", "planned", "below"}

VARIABLES
  kind,     \* effective_action: a full or a partial close
  status,   \* strategy_management_batches.status
  why,      \* .reason_code, the ones a step depends on
  leg,      \* per leg: strategy_management_legs.status
  cid,      \* the legs whose client_order_id has been written
  entry,    \* the unfilled entry leg of the snapshot, as the books have it
  xentry,   \* and its order on the exchange
  life,     \* the strategy in the books: its entry legs active, verified and
            \* exactly the batch's ("owned"), no longer so ("lost"), or "exited"
  regained, \* history: ownership came back between W's checks and its block
  pos,      \* per leg: size of the position on the exchange
  order,    \* the legs whose close order exists on the exchange
  sends,    \* per leg: close calls made
  lock,     \* holder of the position authority lock, or "free"
  pc,       \* per actor
  cur,      \* leg the lock's holder is closing, or "none"
  ans,      \* what the holder knows of that call
  tick,     \* W's: it claimed the batch ("fresh"), the positions are as planned
            \* ("steady")
  rpos,     \* R's snapshot: positions
  rfound,   \* and the legs with a close order
  seen,     \* batch status R read in its session
  troubles  \* what counts for MaxTroubles

batVars == <<kind, status, why>>
legVars == <<leg, cid>>
bookVars == <<entry, life, regained>>
exVars == <<xentry, pos, order, sends>>
runVars == <<cur, ans>>
rVars == <<rpos, rfound, seen>>
vars == <<batVars, legVars, bookVars, exVars, lock, pc, runVars, tick, rVars,
          troubles>>

\* One more death, lost answer or change by others.
Trouble == troubles < MaxTroubles /\ troubles' = troubles + 1

Init ==
  /\ kind \in {"full", "partial"} /\ status = "ready" /\ why = "none"
  /\ leg = [l \in Legs |-> "planned"] /\ cid = {}
  /\ entry \in (IF kind = "full" THEN {"none", "pending"} ELSE {"none"})
  /\ xentry = (IF entry = "pending" THEN "open" ELSE "none")
  /\ life = "owned" /\ regained = FALSE
  /\ pos = [l \in Legs |-> "before"] /\ order = {}
  /\ sends = [l \in Legs |-> 0]
  /\ lock = "free" /\ pc = [a \in Actors |-> IF a = "M" THEN "wait" ELSE "idle"]
  /\ cur = "none" /\ ans = "none" /\ tick = {}
  /\ rpos = pos /\ rfound = order /\ seen = "none"
  /\ troubles = 0

-----------------------------------------------------------------------------
(* What the checks read.                                                    *)

\* _require_exact_entry_legs.
EntriesExact == life = "owned" /\ entry \in {"none", "pending", "cancelled"}

\* _identity_is_exact: a full close must have cancelled its unfilled entry.
IdentityExact == life = "owned" /\ entry \in {"none", "cancelled"}

\* _preflight_exact_position_identity and the sizes, against live positions.
PositionsAsPlanned == xentry # "filled" /\ \A l \in Legs : pos[l] = "before"

\* _has_submission_evidence.
HasEvidence ==
  \E l \in Legs : leg[l] \in {"reserved", "submitted", "submit_unknown",
                              "partial", "confirmed"}

AllPlanned == \A l \in Legs : leg[l] = "planned"

\* transition_batch.
Transition(new, reason) ==
  /\ status' = new /\ why' = reason
  /\ UNCHANGED kind

-----------------------------------------------------------------------------
(* execute_management_batch, under the lock.                                *)

Goto(a, p) == pc' = [pc EXCEPT ![a] = p]

\* Returns, or raises ManagementBatchExecutionError, which W's tick handles.
Leave(a, raised) ==
  /\ lock' = "free"
  /\ Goto(a, IF a = "M" THEN "done" ELSE IF raised THEN "recheck" ELSE "idle")

Acquire(a) ==
  /\ pc[a] = "wait" /\ lock = "free"
  /\ lock' = a /\ Goto(a, IF a = "R" THEN "read" ELSE "open")
  /\ UNCHANGED <<batVars, legVars, bookVars, exVars, runVars, tick, rVars, troubles>>

\* A failed claim of a ready batch is no obstacle if somebody else claimed it.
Open(a) ==
  /\ pc[a] = "open"
  /\ \/ /\ status \in {"ready", "executing"}
        /\ Transition("executing", why) /\ Goto(a, "entries") /\ UNCHANGED lock
     \/ /\ status \notin {"ready", "executing"}
        /\ Leave(a, status # "reconciling") /\ UNCHANGED batVars
  /\ UNCHANGED <<legVars, bookVars, exVars, runVars, tick, rVars, troubles>>

\* The batch waits for recovery; if it is no longer executing, the executor raises.
Pause(a, reason) ==
  \/ status = "executing" /\ Transition("recovery_required", reason) /\ Leave(a, FALSE)
  \/ status # "executing" /\ UNCHANGED batVars /\ Leave(a, TRUE)

\* Mutant: the executor relies on the check of whoever handed it the batch.
Unchecked == TRUE
\* The executor's own check, under the lock.
MayClose == EntriesExact

Entries(a) ==
  /\ pc[a] = "entries"
  /\ \/ MayClose /\ Goto(a, "cancel") /\ UNCHANGED <<batVars, lock>>
     \/ ~MayClose /\ kind = "full" /\ Pause(a, "none")
     \/ ~MayClose /\ kind = "partial" /\ Leave(a, TRUE) /\ UNCHANGED batVars
  /\ UNCHANGED <<legVars, bookVars, exVars, runVars, tick, rVars, troubles>>

\* Mutant: a cancel without an answer is taken for done.
GoesOn(a) == Goto(a, "cancelled") /\ UNCHANGED <<batVars, lock>>
\* What becomes of a cancel without an answer.
LostCancel(a) == Pause(a, "none")

\* _cancel_deferred_entry_legs: nothing to cancel; not pending in the books or
\* not found on the exchange; cancelled; rejected, for it was filled meanwhile;
\* no answer.
Cancel(a) ==
  /\ pc[a] = "cancel"
  /\ \/ entry = "none" /\ Goto(a, "boundary")
        /\ UNCHANGED <<batVars, xentry, lock, troubles>>
     \/ entry # "none" /\ ~(entry = "pending" /\ xentry = "open")
        /\ Pause(a, "none") /\ UNCHANGED <<xentry, troubles>>
     \/ entry = "pending" /\ xentry = "open"
        /\ \/ xentry' = "gone" /\ Goto(a, "cancelled")
              /\ UNCHANGED <<batVars, lock, troubles>>
           \/ xentry' = "filled" /\ Pause(a, "race") /\ UNCHANGED troubles
           \/ Trouble /\ xentry' \in {"open", "gone"} /\ LostCancel(a)
  /\ UNCHANGED <<legVars, bookVars, pos, order, sends, runVars, tick, rVars>>

RecordCancel(a) ==
  /\ pc[a] = "cancelled"
  /\ entry' = "cancelled" /\ Goto(a, "boundary")
  /\ UNCHANGED <<batVars, legVars, life, regained, exVars, lock, runVars, tick,
                 rVars, troubles>>

\* A reservation found here may have been submitted: it is never repeated.
Swept(l) == IF leg[l] = "reserved" THEN "submit_unknown" ELSE leg[l]

\* _require_fresh_close_write_boundary.
Boundary(a) ==
  /\ pc[a] = "boundary"
  /\ \/ /\ PositionsAsPlanned /\ Goto(a, "legs")
        /\ leg' = [l \in Legs |-> Swept(l)]
        /\ UNCHANGED <<batVars, lock, troubles>>
     \/ ~PositionsAsPlanned /\ Pause(a, "none") /\ UNCHANGED <<leg, troubles>>
     \/ /\ Trouble
        /\ Pause(a, "none") /\ UNCHANGED leg
  /\ UNCHANGED <<cid, bookVars, exVars, runVars, tick, rVars>>

\* Mutant: the reservation is not written before the call.
UnwrittenReservation == "planned"
\* What transition_leg writes before the call.
Reservation == "reserved"

Reserve(a, l) ==
  /\ pc[a] = "legs" /\ leg[l] = "planned"
  /\ leg' = [leg EXCEPT ![l] = Reservation] /\ cid' = cid \cup {l}
  /\ cur' = l /\ Goto(a, "send")
  /\ UNCHANGED <<batVars, bookVars, exVars, lock, ans, tick, rVars, troubles>>

\* close_exact_position: accepted; rejected; refused by the gateway, nothing
\* sent; or no answer, or one without an order id, whatever happened.
Send(a) ==
  /\ pc[a] = "send" /\ Goto(a, "record")
  /\ \/ /\ ans' = "submitted" /\ order' = order \cup {cur}
        /\ sends' = [sends EXCEPT ![cur] = @ + 1] /\ UNCHANGED troubles
     \/ /\ ans' = "failed" /\ sends' = [sends EXCEPT ![cur] = @ + 1]
        /\ UNCHANGED <<order, troubles>>
     \/ ans' = "failed" /\ UNCHANGED <<order, sends, troubles>>
     \/ /\ ans' = "submit_unknown" /\ Trouble
        /\ order' \in {order, order \cup {cur}}
        /\ sends' = [sends EXCEPT ![cur] = @ + 1]
  /\ UNCHANGED <<batVars, legVars, bookVars, xentry, pos, lock, cur, tick, rVars>>

\* The leg's status after the call.
Recorded(answer) == answer

Record(a) ==
  /\ pc[a] = "record"
  /\ leg' = [leg EXCEPT ![cur] = Recorded(ans)] /\ Goto(a, "legs")
  /\ cur' = "none" /\ ans' = "none"
  /\ UNCHANGED <<batVars, cid, bookVars, exVars, lock, tick, rVars, troubles>>

Finish(a) ==
  /\ pc[a] = "legs" /\ \A l \in Legs : leg[l] # "planned"
  /\ \/ /\ status = "executing" /\ Leave(a, FALSE)
        /\ Transition(IF \E l \in Legs : leg[l] = "failed"
                      THEN "partial_failed" ELSE "reconciling", "none")
     \/ status # "executing" /\ Leave(a, TRUE) /\ UNCHANGED batVars
  /\ UNCHANGED <<legVars, bookVars, exVars, runVars, tick, rVars, troubles>>

-----------------------------------------------------------------------------
(* run_strategy_management_worker_tick, outside the lock.                   *)

\* Mutant: only a ready batch is taken up.
NeverTakenUp == FALSE
\* All-planned legs stand for a crash before the first reservation.
Untouched == ~HasEvidence

\* list_worker_batches and the dispatch; the rest is the reconciler's.
ListWork ==
  /\ pc["W"] = "idle"
  /\ \/ status = "ready" /\ Goto("W", "claim")
     \/ status = "executing" /\ Untouched /\ Goto("W", "check")
  /\ UNCHANGED <<batVars, legVars, bookVars, exVars, lock, runVars, tick, rVars,
                 troubles>>

\* claim_worker_batch.
ClaimWork ==
  /\ pc["W"] = "claim"
  /\ \/ status = "ready" /\ Transition("executing", why) /\ Goto("W", "check")
        /\ tick' = {"fresh"}
     \/ status # "ready" /\ UNCHANGED <<batVars, tick>> /\ Goto("W", "idle")
  /\ UNCHANGED <<legVars, bookVars, exVars, lock, runVars, rVars, troubles>>

\* The snapshot of the restart check: read, or not readable.
CheckPositions ==
  /\ pc["W"] = "check" /\ Goto("W", "judge")
  /\ \/ tick' = (IF PositionsAsPlanned THEN tick \cup {"steady"} ELSE tick)
        /\ UNCHANGED troubles
     \/ Trouble /\ UNCHANGED tick
  /\ UNCHANGED <<batVars, legVars, bookVars, exVars, lock, runVars, rVars>>

\* A compare-and-set from "executing"; nothing happens if it no longer is.
Freeze ==
  \/ status = "executing" /\ Transition("recovery_required", "none")
  \/ status # "executing" /\ UNCHANGED batVars

\* validate_management_restart_snapshot and what follows from its failure.
Judge ==
  /\ pc["W"] = "judge"
  /\ \/ EntriesExact /\ "steady" \in tick /\ Goto("W", "wait") /\ UNCHANGED batVars
     \/ EntriesExact /\ "steady" \notin tick /\ Goto("W", "idle") /\ Freeze
     \/ ~EntriesExact /\ kind = "full" /\ Goto("W", "idle") /\ Freeze
     \/ ~EntriesExact /\ kind = "partial" /\ "fresh" \notin tick /\ Goto("W", "idle")
        /\ Freeze
     \/ ~EntriesExact /\ kind = "partial" /\ "fresh" \in tick /\ Goto("W", "recheck")
        /\ UNCHANGED batVars
  /\ tick' = {}
  /\ UNCHANGED <<legVars, bookVars, exVars, lock, runVars, rVars, troubles>>

\* The statuses that stand in the way of "nothing was submitted".
NoLegSubmitted ==
  \A l \in Legs : leg[l] \notin {"reserved", "submitted", "submit_unknown", "partial"}

\* _persist_deterministic_pre_submit_failure: first the read, then the CAS.
Recheck ==
  /\ pc["W"] = "recheck"
  /\ Goto("W", IF status = "executing" /\ NoLegSubmitted THEN "block" ELSE "idle")
  /\ UNCHANGED <<batVars, legVars, bookVars, exVars, lock, runVars, tick, rVars,
                 troubles>>

Block ==
  /\ pc["W"] = "block" /\ Goto("W", "idle")
  /\ \/ status = "executing" /\ Transition("blocked", "presubmit")
     \/ status # "executing" /\ UNCHANGED batVars
  /\ UNCHANGED <<legVars, bookVars, exVars, lock, runVars, tick, rVars, troubles>>

\* _resolve_deferred_entry_cancel_race_successor: the entry's fill is owned and
\* live, so a new batch without unfilled entries takes the strategy over.
ResolveRace ==
  /\ pc["W"] = "idle" /\ status = "recovery_required" /\ why = "race"
  /\ entry = "active" /\ life = "owned" /\ \A l \in Legs : pos[l] # "planned"
  /\ Transition("resolved", "none")
  /\ UNCHANGED <<legVars, bookVars, exVars, lock, pc, runVars, tick, rVars, troubles>>

\* expire_stuck_management_recoveries: gone positions resolve the batch, unless
\* they cannot be read.  Timing: its sixty minutes are longer than any execution
\* or reconciliation that began before them.
Expire ==
  /\ pc["W"] = "idle" /\ status = "recovery_required"
  /\ pc["M"] = "done" /\ pc["R"] # "write"
  /\ \/ Transition("blocked", "none")
     \/ Transition("resolved", "none")
        /\ \A l \in Legs : pos[l] = IF kind = "full" THEN "planned" ELSE "below"
  /\ UNCHANGED <<legVars, bookVars, exVars, lock, pc, runVars, tick, rVars, troubles>>

-----------------------------------------------------------------------------
(* reconcile_strategy_management_batches, by whoever has taken a snapshot.  *)

\* Positions are read first, orders after them, both before the lock.
SnapshotPositions ==
  /\ pc["R"] = "idle" /\ Goto("R", "orders")
  /\ rpos' = pos
  /\ UNCHANGED <<batVars, legVars, bookVars, exVars, lock, runVars, tick, rfound,
                 seen, troubles>>

\* An unreadable order list is an empty one.
SnapshotOrders ==
  /\ pc["R"] = "orders" /\ Goto("R", "wait")
  /\ \/ rfound' = order /\ UNCHANGED troubles
     \/ /\ Trouble
        /\ rfound' = {}
  /\ UNCHANGED <<batVars, legVars, bookVars, exVars, lock, runVars, tick, rpos,
                 seen>>

NoSnapshot ==
  /\ rpos' = [l \in Legs |-> "before"] /\ rfound' = {}
  /\ seen' = "none"

\* _ACTIVE_RECONCILIATION_STATUSES.
ReadBatch ==
  /\ pc["R"] = "read"
  /\ \/ /\ status \in {"executing", "reconciling", "partial_failed"}
        /\ seen' = status /\ Goto("R", "write") /\ UNCHANGED <<lock, rpos, rfound>>
     \/ /\ status \notin {"executing", "reconciling", "partial_failed"}
        /\ NoSnapshot /\ Goto("R", "idle") /\ lock' = "free"
  /\ UNCHANGED <<batVars, legVars, bookVars, exVars, runVars, tick, troubles>>

\* Mutant: any reduction counts as the planned one.
AnyReduction(l) == IF rpos[l] = "before" THEN "submitted" ELSE "confirmed"
\* What the position of the snapshot says of a leg.
SizeSays(l) ==
  CASE rpos[l] = "planned" -> "confirmed"
    [] rpos[l] = "before" -> "submitted"
    [] rpos[l] = "between" -> "partial"
    [] OTHER -> "inconsistent"

\* The leg's own order is among the snapshot's.
OrderFound(l) == l \in cid /\ l \in rfound

\* _reconcile_leg.
Reconciled(l) ==
  IF leg[l] \in {"failed", "inconsistent"} THEN leg[l]
  ELSE IF leg[l] \in {"submitted", "partial"} /\ l \notin cid THEN "inconsistent"
  ELSE IF leg[l] \in {"reserved", "submit_unknown"} /\ ~OrderFound(l) THEN "submit_unknown"
  ELSE IF leg[l] \in {"submitted", "partial"} /\ ~OrderFound(l) THEN leg[l]
  ELSE SizeSays(l)

\* Mutant: a batch that waits for the exchange gets the status of its legs.
LegOutcome(new) ==
  IF \A l \in Legs : new[l] = "confirmed" THEN "succeeded" ELSE "submitted"
\* The batch after its legs.
Outcome(new) ==
  LET some(states) == \E l \in Legs : new[l] \in states
  IN  IF \A l \in Legs : new[l] = "confirmed" THEN "succeeded"
      ELSE IF some({"failed"}) THEN "partial_failed"
      ELSE IF some({"partial", "inconsistent", "submit_unknown"}) THEN "recovery_required"
      ELSE IF some({"confirmed"}) /\ kind = "partial" THEN "recovery_required"
      ELSE "reconciling"

\* The session writes what it changed over whatever is there by then.
Writes(new, reason) ==
  /\ status' = (IF new = seen THEN status ELSE new)
  /\ why' = reason /\ UNCHANGED kind

WriteBatch ==
  /\ pc["R"] = "write" /\ Goto("R", "idle") /\ lock' = "free" /\ NoSnapshot
  /\ \/ /\ ~IdentityExact /\ Writes("recovery_required", "none")
        /\ UNCHANGED <<leg, life>>
     \/ /\ IdentityExact /\ AllPlanned /\ entry # "none"
        /\ Writes("recovery_required", "none") /\ UNCHANGED <<leg, life>>
     \/ /\ IdentityExact /\ AllPlanned /\ entry = "none" /\ seen = "executing"
        /\ UNCHANGED <<batVars, leg, life>>
     \/ /\ IdentityExact /\ ~(AllPlanned /\ (entry # "none" \/ seen = "executing"))
        /\ leg' = [l \in Legs |-> Reconciled(l)]
        /\ Writes(Outcome(leg'), "none")
        /\ life' = (IF kind = "full" /\ Outcome(leg') = "succeeded" THEN "exited"
                    ELSE life)
  /\ UNCHANGED <<cid, entry, regained, exVars, runVars, tick, troubles>>

-----------------------------------------------------------------------------
(* The exchange, other writers and the process.                             *)

Fill(l) ==
  /\ l \in order
  /\ \/ pos[l] = "before" /\ pos' \in {[pos EXCEPT ![l] = s] : s \in {"between", "planned"}}
     \/ pos[l] = "between" /\ pos' = [pos EXCEPT ![l] = "planned"]
  /\ UNCHANGED <<batVars, legVars, bookVars, xentry, order, sends, lock, pc, runVars,
                 tick, rVars, troubles>>

EntryFills ==
  /\ xentry = "open" /\ xentry' = "filled"
  /\ UNCHANGED <<batVars, legVars, bookVars, pos, order, sends, lock, pc, runVars,
                 tick, rVars, troubles>>

\* A stop, a user or another batch reduces a position.
Reduced(l) ==
  /\ Trouble
  /\ \E s \in Sizes \ {"before"} :
       /\ kind = "full" => s # "below"
       /\ CASE pos[l] = "before" -> TRUE
            [] pos[l] = "between" -> s \in {"planned", "below"}
            [] pos[l] = "planned" -> s = "below"
            [] OTHER -> FALSE
       /\ pos' = [pos EXCEPT ![l] = s]
  /\ UNCHANGED <<batVars, legVars, bookVars, xentry, order, sends, lock, pc, runVars,
                 tick, rVars>>

\* The ownership reconciler, under the lock, attributes the entry's fill or
\* finds the batch's own legs no longer its own.
Attribute ==
  /\ lock = "free" /\ entry = "pending" /\ xentry = "filled" /\ entry' = "active"
  /\ UNCHANGED <<batVars, legVars, life, regained, exVars, lock, pc, runVars, tick,
                 rVars, troubles>>

Disowned ==
  /\ lock = "free" /\ life = "owned" /\ Trouble
  /\ life' = "lost"
  /\ UNCHANGED <<batVars, legVars, entry, regained, exVars, lock, pc, runVars, tick,
                 rVars>>

\* A later round verifies or restores the ownership an earlier one took away.
Reowned ==
  /\ lock = "free" /\ life = "lost"
  /\ life' = "owned" /\ regained' = (regained \/ pc["W"] \in {"recheck", "block"})
  /\ UNCHANGED <<batVars, legVars, entry, exVars, lock, pc, runVars, tick, rVars,
                 troubles>>

\* The message's execution is not repeated; the loops start again.
Crash ==
  /\ Trouble
  /\ lock' = "free" /\ pc' = [a \in Actors |-> IF a = "M" THEN "done" ELSE "idle"]
  /\ cur' = "none" /\ ans' = "none" /\ tick' = {} /\ NoSnapshot
  /\ UNCHANGED <<batVars, legVars, bookVars, exVars>>

-----------------------------------------------------------------------------
Execute(a) ==
  \/ Open(a) \/ Entries(a) \/ Cancel(a) \/ RecordCancel(a) \/ Boundary(a)
  \/ Send(a) \/ Record(a) \/ Finish(a) \/ \E l \in Legs : Reserve(a, l)

Worker ==
  ListWork \/ ClaimWork \/ CheckPositions \/ Judge \/ Recheck \/ Block \/ ResolveRace
  \/ Expire

Reconcile == SnapshotPositions \/ SnapshotOrders \/ ReadBatch \/ WriteBatch

Next ==
  \/ \E a \in Actors : Acquire(a)
  \/ \E a \in Executors : Execute(a)
  \/ Worker \/ Reconcile
  \/ EntryFills \/ Attribute \/ Disowned \/ Reowned \/ Crash
  \/ \E l \in Legs : Fill(l) \/ Reduced(l)

Spec == Init /\ [][Next]_vars

\* The loops of W and R go on, an order is filled, and an execution that waits
\* for the lock gets it: it is free between the rounds of R.
Fairness ==
  /\ SF_vars(\E a \in Executors : Acquire(a))
  /\ WF_vars(\E a \in Executors : Execute(a))
  /\ WF_vars(Worker) /\ WF_vars(Acquire("R") \/ Reconcile)
  /\ WF_vars(\E l \in Legs : Fill(l))

FairSpec == Spec /\ Fairness
-----------------------------------------------------------------------------
(* Properties.                                                              *)

TypeOK ==
  /\ kind \in {"full", "partial"} /\ status \in Statuses
  /\ why \in {"none", "race", "presubmit"}
  /\ leg \in [Legs -> LegStates] /\ cid \subseteq Legs
  /\ entry \in {"none", "pending", "cancelled", "active"}
  /\ xentry \in {"none", "open", "gone", "filled"}
  /\ life \in {"owned", "lost", "exited"} /\ regained \in BOOLEAN
  /\ pos \in [Legs -> Sizes] /\ order \subseteq Legs /\ sends \in [Legs -> Nat]
  /\ lock \in Actors \cup {"free"}
  /\ pc \in [Actors -> {"idle", "wait", "open", "entries", "cancel", "cancelled",
                        "boundary", "legs", "send", "record", "done", "claim", "check",
                        "judge", "recheck", "block", "orders", "read", "write"}]
  /\ cur \in Legs \cup {"none"} /\ ans \in {"none", "submitted", "failed", "submit_unknown"}
  /\ tick \subseteq {"fresh", "steady"}
  /\ rpos \in [Legs -> Sizes] /\ rfound \subseteq Legs /\ seen \in Statuses \cup {"none"}
  /\ troubles \in Nat

\* However often the batch is claimed, left behind by a crash and taken up
\* again, the close of a leg is called for at most once.
SentOnce == \A l \in Legs : sends[l] <= 1

\* A leg whose order exists is never filed as untouched or as failed.
OrderIsFollowed == \A l \in order : leg[l] \notin {"planned", "failed"}

\* Once a batch has ended, and so no longer holds its strategy, nobody reserves or
\* calls for another close of it: neither the execution that was under way when
\* somebody else ended it, nor one that waited for the lock meanwhile.  Unless
\* the worker blocks it on a loss of ownership that was made good while it was
\* about to: it does not look again, and the execution that waited finds
\* everything in order.
EndedIsSilent == [][(status \in Ended /\ ~regained) => UNCHANGED <<cid, sends>>]_vars

\* The batch keeps the promise of FiledCall: a leg's reservation, with the id of
\* its order, files the close.  A failed leg has no order; the legs of a
\* succeeded batch that were reserved have theirs.
Calls == INSTANCE FiledCall WITH
  Ids <- Legs, filed <- {l \in cid : leg[l] # "failed"}, calls <- sends, effects <- order,
  done <- (IF status = "succeeded" THEN cid ELSE {}),
  denied <- {l \in Legs : leg[l] = "failed"}
CallsFiled == Calls!Spec

\* A full exit does not close a position while its unfilled entry could still
\* open another: that order was cancelled first.
EntryGoneFirst ==
  kind = "full" /\ (\E l \in Legs : sends[l] > 0) => xentry \in {"none", "gone"}

\* A batch that says "blocked before submission" has no close order and gets none,
\* though the worker writes this without the lock and from an earlier look at the
\* legs: unless ownership came back between that look and the write.
BlockedSentNothing == why = "presubmit" /\ ~regained => order = {}

\* A succeeded batch: the planned size has left every position; a leg that was
\* reserved has its order; and the strategy has exited only if nothing is left.
SucceededIsTrue ==
  /\ status = "succeeded" =>
       \A l \in Legs : pos[l] \in {"planned", "below"} /\ (l \in cid => l \in order)
  /\ life = "exited" => kind = "full" /\ \A l \in Legs : pos[l] = "planned"

\* The batch comes to an end, or to partial_failed, which only a person ends.
BatchEnds == <>(status \in Ended \cup {"partial_failed"})
=============================================================================
