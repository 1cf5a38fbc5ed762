---------------------------- MODULE MessageQueue ----------------------------
(***************************************************************************)
(* The durable queue of Telegram messages: the ingest process enqueues one *)
(* row of message_processing_jobs per stored message, the worker's loop    *)
(* claims the oldest unsettled row of each chat, processes it in a thread  *)
(* and settles it.                                                         *)
(*                                                                         *)
(* Rows of one chat form a lane: only its oldest unsettled row may be      *)
(* claimed.  A claim is a lease; a row whose lease ran out is claimed again*)
(* although its first processor may be alive, and the compare-and-set on   *)
(* the claim token keeps that processor from settling it.  The thread of a *)
(* cancelled task is not stopped: it goes on, and it still writes the      *)
(* message's decision, which carries no claim token.                       *)
(*                                                                         *)
(* Time is relative and saturates: ages count up to the threshold they are *)
(* compared with, waits count down to zero.  A claim token is a fresh uuid,*)
(* represented by the number of the claim on its row.                      *)
(***************************************************************************)
EXTENDS Naturals, FiniteSets

CONSTANTS
  NumMsgs,      \* bound: messages stored; raw message ids are 1..NumMsgs
  ChatOf,       \* the chat of each message
  Cap,          \* message_processing_max_parallel_chats
  Lease,        \* stale_after
  MaxAttempts,  \* max_attempts
  RetryBase,    \* retry_base_seconds
  RetryMax,     \* retry_max_seconds
  MaxAge,       \* authoritative_gap_recovery_max_age_minutes
  Refused,      \* messages a provider outage excuses from expiring
  MaxStops,     \* bound: crashes, cancellations and ended loops together
  MaxSlow,      \* bound: processors that outlive their lease
  MaxRearms,    \* bound: settled jobs put back on the queue
  MaxTroubles   \* bound: those three together

Msgs == 1..NumMsgs

ASSUME QueueAssumption ==
  /\ NumMsgs \in Nat /\ MaxAge \in Nat
  /\ Cap \in Nat \ {0} /\ Lease \in Nat \ {0} /\ MaxAttempts \in Nat \ {0}
  /\ RetryBase \in Nat /\ RetryMax \in Nat
  /\ MaxStops \in Nat /\ MaxSlow \in Nat /\ MaxRearms \in Nat
  /\ MaxTroubles \in Nat
  /\ ChatOf \in [Msgs -> Nat]
  /\ Refused \subseteq Msgs

\* The provers do not know powers; this is all they need of them.
ASSUME BackoffAssumption == \A n \in 1..MaxAttempts : RetryBase * 2^(n - 1) \in Nat

VARIABLES
  status,    \* per job: message_processing_jobs.status
  token,     \* per job: number of its latest claim
  attempts,  \* per job: attempt_count
  wait,      \* per job: time until next_attempt_at
  age,       \* per job: time since claimed_at
  old,       \* per message: time since posted_at
  decision,  \* per message: what its recognition_decisions row says
  procs,     \* live processors: [msg, tok, att, at, age, awaited]
  loop,      \* the worker's loop
  errors,    \* history, per job: failed processings since it was armed
  late,      \* history: messages armed behind a claimed later one
  lapsed,    \* history: messages claimed while a processor of theirs was alive
  executed,  \* history: messages whose instruction was carried out
  stops, slow, rearms

jobVars == <<status, token, attempts, wait, age, old>>
history == <<errors, late, lapsed, executed>>
budgets == <<stops, slow, rearms>>
vars == <<jobVars, decision, procs, loop, history, budgets>>

\* What went wrong so far, counted for the bounds.
Troubles == stops + slow + rearms

Settled == {"succeeded", "failed", "expired"}
Live == {"pending", "claimed"}
Stages == {"expire", "run", "ok", "error", "terminal", "gap"}

Least(a, b) == IF a <= b THEN a ELSE b
Minus(a, b) == IF a <= b THEN 0 ELSE a - b
RowAge == IF Lease <= RetryMax THEN RetryMax ELSE Lease

Processors == [msg : Msgs, tok : Nat, att : Nat, at : Stages, age : 0..Lease,
               awaited : BOOLEAN]

TypeOK ==
  /\ status \in [Msgs -> {"absent"} \cup Live \cup Settled]
  /\ token \in [Msgs -> Nat]
  /\ attempts \in [Msgs -> 0..MaxAttempts]
  /\ wait \in [Msgs -> 0..RetryMax]
  /\ age \in [Msgs -> 0..RowAge]
  /\ old \in [Msgs -> 0..MaxAge]
  /\ decision \in [Msgs -> {"none", "done", "refused", "failed", "exhausted", "expired"}]
  /\ procs \subseteq Processors
  /\ loop \in {"up", "ended"}
  /\ errors \in [Msgs -> Nat]
  /\ late \subseteq Msgs /\ lapsed \subseteq Msgs /\ executed \subseteq Msgs
  /\ stops \in Nat /\ slow \in Nat /\ rearms \in Nat

Init ==
  /\ status = [m \in Msgs |-> "absent"]
  /\ token = [m \in Msgs |-> 0]
  /\ attempts = [m \in Msgs |-> 0]
  /\ wait = [m \in Msgs |-> 0]
  /\ age = [m \in Msgs |-> 0]
  /\ old = [m \in Msgs |-> 0]
  /\ decision = [m \in Msgs |-> "none"]
  /\ procs = {}
  /\ loop = "up"
  /\ errors = [m \in Msgs |-> 0]
  /\ late = {} /\ lapsed = {} /\ executed = {}
  /\ stops = 0 /\ slow = 0 /\ rearms = 0

Chat(m) == {n \in Msgs : ChatOf[n] = ChatOf[m]}

\* The row is pending, due at once, charged with no attempt.
Arm(m) ==
  /\ status' = [status EXCEPT ![m] = "pending"]
  /\ attempts' = [attempts EXCEPT ![m] = 0]
  /\ wait' = [wait EXCEPT ![m] = 0]
  /\ age' = [age EXCEPT ![m] = 0]
  /\ errors' = [errors EXCEPT ![m] = 0]
  /\ late' = IF \E n \in Chat(m) : n > m /\ status[n] = "claimed"
             THEN late \cup {m} ELSE late

\* _enqueue_processing_jobs for a message without a row: at once, or later by
\* reconciliation when the live enqueue failed, so that messages need not be
\* enqueued in order, nor young.
Enqueue(m) ==
  /\ status[m] = "absent"
  /\ Arm(m)
  /\ \E posted \in {0, MaxAge} : old' = [old EXCEPT ![m] = posted]
  /\ UNCHANGED <<token, decision, procs, loop, lapsed, executed, budgets>>

\* Mutant: a row somebody works on is armed again.
RearmableOnceClaimed(m) == status[m] \in Settled \cup {"claimed"}

\* resume_terminal_jobs: a deferred, replayed or repaired message whose job is
\* settled is put back on the queue.
Rearmable(m) == status[m] \in Settled

Rearm(m) ==
  /\ rearms < MaxRearms /\ Troubles < MaxTroubles
  /\ Rearmable(m)
  /\ Arm(m)
  /\ rearms' = rearms + 1
  /\ UNCHANGED <<token, old, decision, procs, loop, lapsed, executed, stops, slow>>

-----------------------------------------------------------------------------
(* Claiming.                                                               *)

\* Mutant: only a pending row stands before another one of its chat.
OwnsLaneOfPending(m) ==
  /\ status[m] \in Live
  /\ \A n \in Chat(m) : status[n] = "pending" => m <= n

\* The oldest unsettled row of its chat, by raw message id.
OwnsLane(m) ==
  /\ status[m] \in Live
  /\ \A n \in Chat(m) : status[n] \in Live => m <= n

\* Mutant: a claimed row is left to the processor that claimed it.
ClaimablePending(m) == OwnsLane(m) /\ status[m] = "pending" /\ wait[m] = 0

Claimable(m) ==
  /\ OwnsLane(m)
  /\ \/ status[m] = "pending" /\ wait[m] = 0
     \/ status[m] = "claimed" /\ age[m] >= Lease

Tasks == {p \in procs : p.awaited}

\* Mutant: taking over a lapsed claim counts as an attempt.
ChargedReclaim(m) == attempts[m] + (IF status[m] = "claimed" THEN 1 ELSE 0)

\* attempt_count as the claim copies it; a reclaim does not change it.
AttemptsSeen(m) == attempts[m]

\* claim_message_processing_jobs, in the order of the chats, while a slot is
\* free; the tick starts at once and classifies expiry by its start time.
Claim(m) ==
  /\ loop = "up"
  /\ Cardinality(Tasks) < Cap
  /\ Claimable(m)
  /\ \A n \in Msgs : Claimable(n) => ChatOf[m] <= ChatOf[n]
  /\ status' = [status EXCEPT ![m] = "claimed"]
  /\ token' = [token EXCEPT ![m] = @ + 1]
  /\ age' = [age EXCEPT ![m] = 0]
  /\ procs' = procs \cup
       {[msg |-> m, tok |-> token[m] + 1, att |-> AttemptsSeen(m),
         at |-> IF old[m] >= MaxAge /\ m \notin Refused THEN "expire" ELSE "run",
         age |-> 0, awaited |-> TRUE]}
  /\ lapsed' = IF \E p \in procs : p.msg = m THEN lapsed \cup {m} ELSE lapsed
  /\ UNCHANGED <<attempts, wait, old, decision, loop, errors, late,
                 executed, budgets>>

-----------------------------------------------------------------------------
(* Processing, in a thread that outlives its task's cancellation.          *)

\* The thread is done: its task goes on to settle, or it is nobody's.
Ends(p, how) ==
  procs' = IF p.awaited THEN (procs \ {p}) \cup {[p EXCEPT !.at = how]}
                        ELSE procs \ {p}

Erred(p) == errors' = [errors EXCEPT ![p.msg] = @ + 1]

\* The decision is recorded and the instruction carried out; what comes after
\* it in the job, notifications and alerts, may still raise.
Completes(p) ==
  /\ p.at = "run"
  /\ decision' = [decision EXCEPT ![p.msg] = "done"]
  /\ executed' = executed \cup {p.msg}
  /\ \/ Ends(p, "ok") /\ UNCHANGED errors
     \/ Ends(p, "error") /\ Erred(p)
  /\ UNCHANGED <<jobVars, loop, late, lapsed, budgets>>

\* The model's answer is an authoritative failure: the decision says so, with
\* the reason that promises a retry, and the job raises.  A message without
\* input fails the same way and is not retried; a contract failure records a
\* terminal reason instead.
Fails(p) ==
  /\ p.at = "run"
  /\ \/ /\ decision' = [decision EXCEPT ![p.msg] = "failed"]
        /\ \/ Ends(p, "error") /\ Erred(p)
           \/ Ends(p, "terminal") /\ UNCHANGED errors
     \/ /\ decision' = [decision EXCEPT ![p.msg] = "refused"]
        /\ Ends(p, "terminal") /\ UNCHANGED errors
  /\ UNCHANGED <<jobVars, loop, late, lapsed, executed, budgets>>

\* The job raises and leaves the decision alone: an execution owns the message,
\* the database is locked, a row is missing.
Raises(p) ==
  /\ p.at \in {"run", "expire"}
  /\ Ends(p, "error") /\ Erred(p)
  /\ UNCHANGED <<jobVars, decision, loop, late, lapsed, executed, budgets>>

\* _record_expired_authoritative_recovery_gap replaces whatever decision the
\* message has, unless an execution is under way (then it raises).
RecordGap(p) ==
  /\ p.at = "expire"
  /\ decision' = [decision EXCEPT ![p.msg] = "expired"]
  /\ Ends(p, "gap")
  /\ UNCHANGED <<jobVars, loop, history, budgets>>

-----------------------------------------------------------------------------
(* Settling.                                                               *)

\* Mutant: the settlement does not ask whose claim it is.
HoldsAnyClaim(p) == status[p.msg] = "claimed"

\* The compare-and-set: the row is claimed, and by this claim.
Holds(p) == status[p.msg] = "claimed" /\ token[p.msg] = p.tok

\* Mutant: the stage is stored where the status belongs.
OutcomeOfStage(p) == p.at

Outcome(p) == IF p.at = "gap" THEN "expired" ELSE "succeeded"

Settle(p) ==
  /\ p.awaited /\ p.at \in {"ok", "terminal", "gap"}
  /\ IF Holds(p)
     THEN /\ status' = [status EXCEPT ![p.msg] = Outcome(p)]
          /\ wait' = [wait EXCEPT ![p.msg] = 0]
          /\ age' = [age EXCEPT ![p.msg] = 0]
     ELSE UNCHANGED <<status, wait, age>>
  /\ procs' = procs \ {p}
  /\ UNCHANGED <<token, attempts, old, decision, loop, history, budgets>>

Backoff(n) == Least(RetryMax, RetryBase * 2^(n - 1))

\* Mutant: the decision is rewritten when the gap was expired.
GivesUpOnExpired(d) == IF d = "expired" THEN "exhausted" ELSE d

\* _mark_authoritative_failure_exhausted_in_session
GivesUp(d) == IF d = "failed" THEN "exhausted" ELSE d

\* _defer_or_fail_message_processing_job.  The backoff counts from the start of
\* the tick.
Defer(p) ==
  /\ p.awaited /\ p.at = "error"
  /\ LET n == p.att + 1
         last == n >= MaxAttempts
     IN IF Holds(p)
        THEN /\ status' = [status EXCEPT ![p.msg] = IF last THEN "failed" ELSE "pending"]
             /\ attempts' = [attempts EXCEPT ![p.msg] = n]
             /\ wait' = [wait EXCEPT ![p.msg] =
                           IF last THEN 0 ELSE Minus(Backoff(n), age[p.msg])]
             /\ age' = [age EXCEPT ![p.msg] = 0]
             /\ decision' = IF last
                            THEN [decision EXCEPT ![p.msg] = GivesUp(decision[p.msg])]
                            ELSE decision
        ELSE UNCHANGED <<status, attempts, wait, age, decision>>
  /\ procs' = procs \ {p}
  /\ UNCHANGED <<token, old, loop, history, budgets>>

-----------------------------------------------------------------------------
(* Stops and time.                                                         *)

Abandoned == {[p EXCEPT !.awaited = FALSE] :
                p \in {q \in procs : q.at \in {"run", "expire"}}}

\* The loop ends, by cancellation or after too many locked claims; its tasks
\* are cancelled and their claims are left to lapse.  Threads go on.
LoopEnds ==
  /\ loop = "up" /\ stops < MaxStops /\ Troubles < MaxTroubles
  /\ loop' = "ended"
  /\ procs' = Abandoned
  /\ stops' = stops + 1
  /\ UNCHANGED <<jobVars, decision, history, slow, rearms>>

Crash ==
  /\ stops < MaxStops /\ Troubles < MaxTroubles
  /\ loop' = "ended"
  /\ procs' = {}
  /\ stops' = stops + 1
  /\ UNCHANGED <<jobVars, decision, history, slow, rearms>>

\* The supervisor starts the loop again in the same process, threads or not, or
\* a new process does.
Restart ==
  /\ loop = "ended"
  /\ loop' = "up"
  /\ UNCHANGED <<jobVars, decision, procs, history, budgets>>

Overdue == {p \in procs : p.age + 1 = Lease}

Tick ==
  /\ slow + Cardinality(Overdue) <= MaxSlow
  /\ Troubles + Cardinality(Overdue) <= MaxTroubles
  /\ slow' = slow + Cardinality(Overdue)
  /\ wait' = [m \in Msgs |-> Minus(wait[m], 1)]
  /\ age' = [m \in Msgs |-> IF status[m] = "claimed" THEN Least(RowAge, age[m] + 1)
                            ELSE age[m]]
  /\ old' = [m \in Msgs |-> IF status[m] \in Live THEN Least(MaxAge, old[m] + 1)
                            ELSE old[m]]
  /\ procs' = {[p EXCEPT !.age = Least(Lease, p.age + 1)] : p \in procs}
  /\ UNCHANGED <<status, token, attempts, decision, loop, history, stops, rearms>>

-----------------------------------------------------------------------------
ProcStep(p) ==
  \/ Completes(p) \/ Fails(p) \/ Raises(p) \/ RecordGap(p)
  \/ Settle(p) \/ Defer(p)

Next ==
  \/ \E m \in Msgs : Enqueue(m) \/ Rearm(m) \/ Claim(m)
  \/ \E p \in procs : ProcStep(p)
  \/ LoopEnds \/ Crash \/ Restart \/ Tick

Spec == Init /\ [][Next]_vars

\* The loop polls, threads end, a stopped worker is started again, time passes.
Fairness ==
  /\ WF_vars(\E m \in Msgs : Claim(m))
  /\ WF_vars(\E p \in procs : ProcStep(p))
  /\ WF_vars(Restart)
  /\ WF_vars(Tick)

FairSpec == Spec /\ Fairness
-----------------------------------------------------------------------------
(* Properties.                                                             *)

\* Within its lease a processor's claim is its own: whatever other processors
\* settle late, whatever is enqueued, re-armed or restarted, nobody takes the
\* row of a message whose processor is not overdue.
ClaimHeld == \A p \in procs : p.age < Lease => Holds(p)

\* Two processors of one chat that both hold their claims work on different
\* messages, and the earlier message was armed behind the later one's claim.
OneHolderPerLane ==
  \A p, q \in procs :
    /\ p # q
    /\ Holds(p) /\ Holds(q)
    /\ ChatOf[p.msg] = ChatOf[q.msg]
    /\ p.msg <= q.msg
    => p.msg # q.msg /\ p.msg \in late

\* The instructions of a chat are carried out in the order of its messages: when
\* one is carried out for the first time, no earlier message of its chat is
\* still on the queue, however often claims lapsed, failed and were retried in
\* between.  Left out: a message armed behind a claim that was already given,
\* and a message whose claims overlapped.
ChatOrder ==
  [][\A n \in (executed' \ executed) \ lapsed :
       \A m \in Chat(n) : m < n /\ status[m] \in Live => m \in late]_vars

\* A job is given up only after MaxAttempts processings of it have failed since
\* it was armed: neither a lapsed claim nor a late failure is charged to it.
FailedIsEarned == \A m \in Msgs : status[m] = "failed" => errors[m] >= MaxAttempts

\* A failed job whose claims never overlapped does not leave a decision that
\* promises a retry (entries of the chat wait for such a decision).
FailedSaysSo ==
  \A m \in Msgs :
    status[m] = "failed" /\ decision[m] = "failed" => m \in lapsed

\* Every enqueued message is settled in the end: one that is slow, crashes the
\* worker, fails or waits for its backoff does not hold its lane for ever.
JobsSettle == \A m \in Msgs : status[m] \in Live ~> status[m] \in Settled

\* What the expiry record says: the message was not recognised in time and
\* nothing was traded for it.
ExpiredNotExecuted == \A m \in Msgs : decision[m] = "expired" => m \notin executed

\* Every job keeps the promise of MessageJob: a processor whose claim was taken
\* over, or that its loop let go of, neither settles nor defers nor charges the
\* job, whatever it does late.
AtWork(m) == {p.tok : p \in {q \in procs : q.msg = m}}
Holder(m) ==
  IF \E p \in procs : p.msg = m /\ p.awaited /\ Holds(p) THEN token[m] ELSE 0
Job(m) == INSTANCE MessageJob WITH
  job <- IF status[m] \in Settled THEN "settled" ELSE status[m],
  work <- AtWork(m), holder <- Holder(m),
  charged <- status[m] \in Live /\ attempts[m] > 0
JobsKept ==
  /\ \A m \in Msgs : Job(m)!Init
  /\ [][\A m \in Msgs : [Job(m)!Next]_(Job(m)!vars)]_vars
=============================================================================
