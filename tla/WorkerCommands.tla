--------------------------- MODULE WorkerCommands ---------------------------
(***************************************************************************)
(* The durable command queue between the web process, which has no         *)
(* authority over the exchange, and the worker process, which has.         *)
(*                                                                         *)
(* A web request enqueues a row of worker_command_jobs and polls it.  The  *)
(* worker's loop runs ticks: sweep the rows whose lease ran out after the  *)
(* side-effect boundary, claim at most one row, commit the boundary, run   *)
(* the adapter in a thread, settle.  Every database transaction is one     *)
(* action; between two of them the process may be killed, may be asked to  *)
(* stop (its task is cancelled at the await it is suspended in), another   *)
(* worker may step, and time may pass.                                     *)
(*                                                                         *)
(* A claim token is a fresh uuid; it is represented by the number of the   *)
(* claim on its row, which attempt_count makes unique.                     *)
(***************************************************************************)
EXTENDS Naturals, FiniteSets

CONSTANTS
  Workers,      \* worker processes sharing the database (one, in production)
  Clients,      \* web requests that may be waiting at the same time
  Types,        \* command types
  EntryTypes,   \* the types that submit new entries
  Keys,         \* idempotency keys
  Reqs,         \* request payloads, one per fingerprint
  Frozen,       \* deployment_entry_frozen
  MaxCmds,      \* bound: rows ever enqueued
  Lease,        \* lease length, in clock units
  MaxClock,     \* bound: the clock stops here
  MaxStops,     \* bound: crashes, cancellations and failed ticks together
  MaxReports,   \* bound: reports read by reconcilers
  None

ASSUME CommandsAssumption ==
  /\ EntryTypes \subseteq Types
  /\ Frozen \in BOOLEAN
  /\ MaxCmds \in Nat /\ MaxClock \in Nat /\ MaxStops \in Nat
  /\ MaxReports \in Nat
  /\ Lease \in Nat \ {0}
  /\ None \notin Keys

VARIABLES
  rows,      \* number of rows enqueued; the row ids are 1..rows
  spec,      \* per row: command_type, idempotency_key and request
  status,    \* per row
  token,     \* per row: claim_token, 0 when NULL
  lease,     \* per row: lease_expires_at
  attempts,  \* per row: attempt_count
  boundary,  \* per row: side_effect_started_at is set
  pc,        \* per worker: where its tick is
  now,       \* per worker: tick_time
  held,      \* per worker: the row of the claim in hand, 0 for none
  heldToken, \* per worker: the token of that claim
  outcome,   \* per worker: what the adapter ended with
  stopping,  \* per worker: its task was cancelled and is still running
  threads,   \* adapter threads alive: [cmd, worker, wrote]
  runs,      \* per row: adapter invocations so far
  writes,    \* per row: exchange writes made by its adapters
  reports,   \* evidence read by reconcilers and not yet forgotten
  reconciled,\* the reports a row was settled by: reconciled_at and its result
  cancelled, \* history: rows whose adapter was cancelled while it ran
  waiting,   \* per client: the row it polls, 0 for none
  told,      \* terminal answers rendered to clients so far
  clock,
  stops

jobVars    == <<spec, status, token, lease, attempts, boundary>>
workerVars == <<pc, now, held, heldToken, outcome, stopping>>
effectVars == <<threads, runs, writes>>
clientVars == <<waiting, told>>
auditVars == <<reports, reconciled, cancelled>>
vars == <<rows, jobVars, workerVars, effectVars, auditVars, clientVars, clock, stops>>

Cmds == 1..MaxCmds
Enqueued == 1..rows

\* The types a worker claims: all of them, or the protective ones only
\* while the deployment freezes entries.
AllowedTypes == IF Frozen THEN Types \ EntryTypes ELSE Types

Settled == {"succeeded", "failed"}
Terminal == Settled \cup {"uncertain"}

NoSpec == [type |-> None, key |-> None, req |-> None]

JobsOK ==
  /\ rows \in 0..MaxCmds
  /\ spec \in [Cmds -> [type : Types \cup {None}, key : Keys \cup {None},
                        req : Reqs \cup {None}]]
  /\ status \in [Cmds -> {"absent", "pending", "claimed", "executing"} \cup Terminal]
  /\ token \in [Cmds -> Nat]
  /\ lease \in [Cmds -> Nat]
  /\ attempts \in [Cmds -> Nat]
  /\ boundary \in [Cmds -> BOOLEAN]

WorkersOK ==
  /\ pc \in [Workers -> {"down", "idle", "sweep", "claim", "cross", "adapter",
                         "settle", "stopped"}]
  /\ now \in [Workers -> Nat]
  /\ held \in [Workers -> Cmds \cup {0}]
  /\ heldToken \in [Workers -> Nat]
  /\ outcome \in [Workers -> Settled \cup {None}]
  /\ stopping \in [Workers -> BOOLEAN]

EffectsOK ==
  /\ threads \subseteq [cmd : Cmds, worker : Workers, wrote : BOOLEAN]
  /\ runs \in [Cmds -> Nat]
  /\ writes \in [Cmds -> Nat]

\* What a reconciler found of a row.  quiet is history: the row had left
\* executing by then and its adapter was never cancelled.
Reports == [cmd : Cmds, found : BOOLEAN, quiet : BOOLEAN]

AuditOK ==
  /\ reports \subseteq Reports /\ reconciled \subseteq reports
  /\ cancelled \subseteq Cmds

ClientsOK ==
  /\ waiting \in [Clients -> Cmds \cup {0}]
  /\ told \subseteq [cmd : Cmds, answer : Terminal]

TypeOK ==
  /\ JobsOK /\ WorkersOK /\ EffectsOK /\ AuditOK /\ ClientsOK
  /\ clock \in Nat /\ stops \in Nat

Init ==
  /\ rows = 0
  /\ spec = [c \in Cmds |-> NoSpec]
  /\ status = [c \in Cmds |-> "absent"]
  /\ token = [c \in Cmds |-> 0]
  /\ lease = [c \in Cmds |-> 0]
  /\ attempts = [c \in Cmds |-> 0]
  /\ boundary = [c \in Cmds |-> FALSE]
  /\ pc = [w \in Workers |-> "idle"]
  /\ now = [w \in Workers |-> 0]
  /\ held = [w \in Workers |-> 0]
  /\ heldToken = [w \in Workers |-> 0]
  /\ outcome = [w \in Workers |-> None]
  /\ stopping = [w \in Workers |-> FALSE]
  /\ threads = {}
  /\ runs = [c \in Cmds |-> 0]
  /\ writes = [c \in Cmds |-> 0]
  /\ reports = {} /\ reconciled = {} /\ cancelled = {}
  /\ waiting = [k \in Clients |-> 0]
  /\ told = {}
  /\ clock = 0
  /\ stops = 0

-----------------------------------------------------------------------------
(* The web process: enqueue_worker_command and the polling request.        *)

\* Mutant: the key is looked up among the rows still under way only.
UnsettledHolders(type, key) ==
  {c \in Enqueued : /\ key # None /\ spec[c].type = type /\ spec[c].key = key
                    /\ status[c] \notin Terminal}

\* The row an idempotency key already stands for.
Holders(type, key) ==
  {c \in Enqueued : key # None /\ spec[c].type = type /\ spec[c].key = key}

\* A new row; the request then waits for it.  A request whose entry type is
\* frozen is answered 503 and leaves no row.
EnqueueNew(k, type, key, req) ==
  /\ waiting[k] = 0
  /\ type \in AllowedTypes
  /\ Holders(type, key) = {}
  /\ rows < MaxCmds
  /\ rows' = rows + 1
  /\ spec' = [spec EXCEPT ![rows + 1] = [type |-> type, key |-> key, req |-> req]]
  /\ status' = [status EXCEPT ![rows + 1] = "pending"]
  /\ waiting' = [waiting EXCEPT ![k] = rows + 1]
  /\ UNCHANGED <<token, lease, attempts, boundary, workerVars, effectVars, auditVars,
                 told, clock, stops>>

\* The same key with the same request reattaches to the row it stands for;
\* with another request it is a 409 that changes nothing.
Reattach(k, type, key, req) ==
  /\ waiting[k] = 0
  /\ type \in AllowedTypes
  /\ \E c \in Holders(type, key) :
       /\ spec[c].req = req
       /\ waiting' = [waiting EXCEPT ![k] = c]
  /\ UNCHANGED <<rows, jobVars, workerVars, effectVars, auditVars, told, clock, stops>>

\* A poll that finds a terminal row renders it.
Poll(k) ==
  /\ waiting[k] # 0
  /\ status[waiting[k]] \in Terminal
  /\ told' = told \cup {[cmd |-> waiting[k], answer |-> status[waiting[k]]]}
  /\ waiting' = [waiting EXCEPT ![k] = 0]
  /\ UNCHANGED <<rows, jobVars, workerVars, effectVars, auditVars, clock, stops>>

\* The wait deadline passes (504) or the request is dropped; the job goes on.
GiveUp(k) ==
  /\ waiting[k] # 0
  /\ status[waiting[k]] \notin Terminal
  /\ waiting' = [waiting EXCEPT ![k] = 0]
  /\ UNCHANGED <<rows, jobVars, workerVars, effectVars, auditVars, told, clock, stops>>

-----------------------------------------------------------------------------
(* The worker's tick.                                                      *)

\* The worker goes somewhere where it holds nothing; the tick is over.
GoTo(w, where) ==
  /\ pc' = [pc EXCEPT ![w] = where]
  /\ now' = [now EXCEPT ![w] = 0]
  /\ held' = [held EXCEPT ![w] = 0]
  /\ heldToken' = [heldToken EXCEPT ![w] = 0]
  /\ outcome' = [outcome EXCEPT ![w] = None]
GoIdle(w) == GoTo(w, "idle") /\ UNCHANGED stopping

\* tick_time is read once, before the first transaction of the tick.
StartTick(w) ==
  /\ pc[w] = "idle"
  /\ pc' = [pc EXCEPT ![w] = "sweep"]
  /\ now' = [now EXCEPT ![w] = clock]
  /\ UNCHANGED <<rows, jobVars, held, heldToken, outcome, stopping, effectVars, auditVars,
                 clientVars, clock, stops>>

Expired(c, at) == lease[c] <= at

\* Mutants: the sweep forgets the status; it tests the boundary the wrong way.
SweepableAnyStatus(at) == {c \in Enqueued : boundary[c] /\ Expired(c, at)}
SweepableUnstarted(at) ==
  {c \in Enqueued : status[c] = "executing" /\ ~boundary[c] /\ Expired(c, at)}

\* mark_expired_executing_commands_uncertain
Sweepable(at) ==
  {c \in Enqueued : status[c] = "executing" /\ boundary[c] /\ Expired(c, at)}

SweepExpired(w) ==
  /\ pc[w] = "sweep"
  /\ LET lost == Sweepable(now[w])
     IN /\ status' = [c \in Cmds |-> IF c \in lost THEN "uncertain" ELSE status[c]]
        /\ token' = [c \in Cmds |-> IF c \in lost THEN 0 ELSE token[c]]
        /\ lease' = [c \in Cmds |-> IF c \in lost THEN 0 ELSE lease[c]]
  /\ pc' = [pc EXCEPT ![w] = "claim"]
  /\ UNCHANGED <<rows, spec, attempts, boundary, now, held, heldToken, outcome,
                 stopping, effectVars, auditVars, clientVars, clock, stops>>

\* Mutant: a NULL lease excludes a row.
ClaimableLeased(c, at) ==
  /\ lease[c] # 0
  /\ status[c] = "pending" \/ (status[c] = "claimed" /\ Expired(c, at))

\* claim_worker_commands with limit 1: the oldest row that is pending, or
\* claimed by someone whose lease ran out before the boundary.
Claimable(c, at) ==
  /\ spec[c].type \in AllowedTypes
  /\ \/ status[c] = "pending"
     \/ /\ status[c] = "claimed"
        /\ ~boundary[c]
        /\ Expired(c, at)

Oldest(c, at) ==
  Claimable(c, at) /\ \A d \in Enqueued : Claimable(d, at) => c <= d

Claim(w) ==
  /\ pc[w] = "claim"
  /\ \E c \in Enqueued :
       /\ Oldest(c, now[w])
       /\ status' = [status EXCEPT ![c] = "claimed"]
       /\ attempts' = [attempts EXCEPT ![c] = @ + 1]
       /\ token' = [token EXCEPT ![c] = attempts[c] + 1]
       /\ lease' = [lease EXCEPT ![c] = now[w] + Lease]
       /\ held' = [held EXCEPT ![w] = c]
       /\ heldToken' = [heldToken EXCEPT ![w] = attempts[c] + 1]
  /\ pc' = [pc EXCEPT ![w] = "cross"]
  /\ now' = [now EXCEPT ![w] = 0]
  /\ UNCHANGED <<rows, spec, boundary, outcome, stopping, effectVars, auditVars, clientVars,
                 clock, stops>>

ClaimNothing(w) ==
  /\ pc[w] = "claim"
  /\ \A c \in Enqueued : ~Claimable(c, now[w])
  /\ GoIdle(w)
  /\ UNCHANGED <<rows, jobVars, effectVars, auditVars, clientVars, clock, stops>>

\* Mutant: crossing only asks that the row is not over yet.
OwnsUnsettled(w) == status[held[w]] \notin Terminal

\* mark_worker_command_executing: compare-and-set on status, token and the
\* boundary (the lease is not looked at); then the adapter is invoked.
Owns(w) ==
  LET c == held[w]
  IN /\ status[c] = "claimed"
     /\ token[c] = heldToken[w]
     /\ ~boundary[c]

Cross(w) ==
  /\ pc[w] = "cross"
  /\ Owns(w)
  /\ LET c == held[w]
     IN /\ status' = [status EXCEPT ![c] = "executing"]
        /\ boundary' = [boundary EXCEPT ![c] = TRUE]
        /\ runs' = [runs EXCEPT ![c] = @ + 1]
        /\ threads' = threads \cup {[cmd |-> c, worker |-> w, wrote |-> FALSE]}
  /\ pc' = [pc EXCEPT ![w] = "adapter"]
  /\ UNCHANGED <<rows, spec, token, lease, attempts, now, held, heldToken,
                 outcome, stopping, writes, auditVars, clientVars, clock, stops>>

LoseClaim(w) ==
  /\ pc[w] = "cross"
  /\ ~Owns(w)
  /\ GoIdle(w)
  /\ UNCHANGED <<rows, jobVars, effectVars, auditVars, clientVars, clock, stops>>

\* The adapter's thread performs the command's exchange write.
ThreadWrites(t) ==
  /\ t \in threads /\ ~t.wrote
  /\ threads' = (threads \ {t}) \cup
                  {[cmd |-> t.cmd, worker |-> t.worker, wrote |-> TRUE]}
  /\ writes' = [writes EXCEPT ![t.cmd] = @ + 1]
  /\ UNCHANGED <<rows, jobVars, workerVars, runs, auditVars, clientVars, clock, stops>>

\* The awaited thread of the command worker w is executing.
Awaited(w, t) ==
  /\ pc[w] = "adapter"
  /\ t \in threads /\ t.worker = w /\ t.cmd = held[w]

AdapterEnds(w, how) ==
  /\ pc' = [pc EXCEPT ![w] = "settle"]
  /\ outcome' = [outcome EXCEPT ![w] = how]
  /\ UNCHANGED <<now, held, heldToken>>

\* Mutant: an exception is mapped while the thread goes on.
RaisesEarly(w) ==
  /\ \E t \in threads : Awaited(w, t)
  /\ AdapterEnds(w, "failed")
  /\ UNCHANGED <<rows, jobVars, stopping, effectVars, auditVars, clientVars, clock, stops>>

\* The adapter returns after its write, or without one: nothing was there to
\* be processed, or the command only reads.
AdapterReturns(w) ==
  /\ \E t \in threads : Awaited(w, t) /\ threads' = threads \ {t}
  /\ AdapterEnds(w, "succeeded")
  /\ UNCHANGED <<rows, jobVars, stopping, runs, writes, auditVars, clientVars, clock, stops>>

\* Whatever the adapter raises is mapped to a bounded failure: a domain
\* rejection before the write, a lost response or a failing notification
\* after it.
AdapterRaises(w) ==
  /\ \E t \in threads : Awaited(w, t) /\ threads' = threads \ {t}
  /\ AdapterEnds(w, "failed")
  /\ UNCHANGED <<rows, jobVars, stopping, runs, writes, auditVars, clientVars, clock, stops>>

\* A thread nobody awaits any more ends by itself.
OrphanEnds(t) ==
  /\ t \in threads
  /\ ~Awaited(t.worker, t)
  /\ threads' = threads \ {t}
  /\ UNCHANGED <<rows, jobVars, workerVars, runs, writes, auditVars, clientVars, clock, stops>>

\* _settle_worker_command: compare-and-set on executing and the token.
Settle(w) ==
  /\ pc[w] = "settle"
  /\ LET c == held[w]
         owner == status[c] = "executing" /\ token[c] = heldToken[w]
     IN IF owner
        THEN /\ status' = [status EXCEPT ![c] = outcome[w]]
             /\ token' = [token EXCEPT ![c] = 0]
             /\ lease' = [lease EXCEPT ![c] = 0]
        ELSE UNCHANGED <<status, token, lease>>
  /\ GoIdle(w)
  /\ UNCHANGED <<rows, spec, attempts, boundary, effectVars, auditVars, clientVars, clock,
                 stops>>

-----------------------------------------------------------------------------
(* Failures.                                                               *)

\* A transaction of the tick raises (a locked database, a result that cannot
\* be stored): the tick is abandoned and the supervised loop starts again.
TickFails(w) ==
  /\ stops < MaxStops
  /\ pc[w] \in {"sweep", "claim", "cross", "settle"}
  /\ GoIdle(w)
  /\ stops' = stops + 1
  /\ UNCHANGED <<rows, jobVars, effectVars, auditVars, clientVars, clock>>

\* The process is asked to stop.  Suspended anywhere but in the adapter, the
\* loop ends.  Inside the adapter the CancelledError is mapped like any other
\* exception: the command is settled failed, the loop goes on, and the thread
\* it no longer awaits keeps running.
Cancel(w) ==
  /\ stops < MaxStops /\ ~stopping[w]
  /\ pc[w] \in {"idle", "sweep", "claim", "cross", "settle"}
  /\ GoTo(w, "stopped")
  /\ stopping' = [stopping EXCEPT ![w] = TRUE]
  /\ stops' = stops + 1
  /\ UNCHANGED <<rows, jobVars, effectVars, auditVars, clientVars, clock>>

CancelInAdapter(w) ==
  /\ stops < MaxStops /\ ~stopping[w]
  /\ pc[w] = "adapter"
  /\ AdapterEnds(w, "failed")
  /\ stopping' = [stopping EXCEPT ![w] = TRUE]
  /\ cancelled' = cancelled \cup {held[w]}
  /\ stops' = stops + 1
  /\ UNCHANGED <<rows, jobVars, effectVars, reports, reconciled, clientVars, clock>>

\* The process is gone, killed or exited, and its threads with it.
Down(w) ==
  /\ GoTo(w, "down")
  /\ stopping' = [stopping EXCEPT ![w] = FALSE]
  /\ threads' = {t \in threads : t.worker # w}
  /\ UNCHANGED <<rows, jobVars, runs, writes, auditVars, clientVars, clock>>

Crash(w) ==
  /\ stops < MaxStops
  /\ pc[w] \notin {"down", "stopped"}
  /\ Down(w)
  /\ stops' = stops + 1

\* Interpreter exit waits for the threads still running.
Exit(w) ==
  /\ pc[w] = "stopped"
  /\ \A t \in threads : t.worker # w
  /\ Down(w)
  /\ UNCHANGED stops

Restart(w) ==
  /\ pc[w] = "down"
  /\ GoIdle(w)
  /\ UNCHANGED <<rows, jobVars, effectVars, auditVars, clientVars, clock, stops>>

Tick ==
  /\ clock < MaxClock
  /\ clock' = clock + 1
  /\ UNCHANGED <<rows, jobVars, workerVars, effectVars, auditVars, clientVars, stops>>

-----------------------------------------------------------------------------
(* The operator's reconciliation.  The reader is complete and true when it *)
(* reads; the row is looked at again, and changed, only afterwards.        *)

\* Mutant: an incomplete snapshot is taken for the proof of absence.
ReadIncomplete(c) ==
  /\ Cardinality(reports) < MaxReports
  /\ boundary[c] /\ status[c] \notin Settled
  /\ \E found \in {writes[c] > 0, FALSE} :
       reports' = reports \cup
         {[cmd |-> c, found |-> found,
           quiet |-> status[c] = "uncertain" /\ c \notin cancelled]}
  /\ UNCHANGED <<rows, jobVars, workerVars, effectVars, reconciled, cancelled,
                 clientVars, clock, stops>>

\* collect_worker_command_evidence: whether the exchange has the submission of
\* the command.  Nothing asks for the row's status before it is read.
ReadEvidence(c) ==
  /\ Cardinality(reports) < MaxReports
  /\ boundary[c] /\ status[c] \notin Settled
  /\ reports' = reports \cup
       {[cmd |-> c, found |-> writes[c] > 0,
         quiet |-> status[c] = "uncertain" /\ c \notin cancelled]}
  /\ UNCHANGED <<rows, jobVars, workerVars, effectVars, reconciled, cancelled,
                 clientVars, clock, stops>>

\* Mutant: the report's outcome is stored where its status belongs.
ReconcileOutcome(c) ==
  /\ status[c] = "uncertain"
  /\ status' = [status EXCEPT ![c] = "confirmed_succeeded"]
  /\ UNCHANGED <<rows, spec, token, lease, attempts, boundary, workerVars,
                 effectVars, auditVars, clientVars, clock, stops>>

\* reconcile_uncertain_worker_command, applied with one of the reports read.
Reconcile(c) ==
  /\ status[c] = "uncertain"
  /\ \E r \in reports :
       /\ r.cmd = c
       /\ status' = [status EXCEPT ![c] = IF r.found THEN "succeeded" ELSE "failed"]
       /\ reconciled' = reconciled \cup {r}
  /\ UNCHANGED <<rows, spec, token, lease, attempts, boundary, workerVars,
                 effectVars, reports, cancelled, clientVars, clock, stops>>

-----------------------------------------------------------------------------
Web ==
  \E k \in Clients :
    \/ \E type \in Types, key \in Keys \cup {None}, req \in Reqs :
         EnqueueNew(k, type, key, req) \/ Reattach(k, type, key, req)
    \/ Poll(k)
    \/ GiveUp(k)

WorkerStep(w) ==
  \/ StartTick(w) \/ SweepExpired(w) \/ Claim(w) \/ ClaimNothing(w)
  \/ Cross(w) \/ LoseClaim(w) \/ AdapterReturns(w) \/ AdapterRaises(w)
  \/ Settle(w) \/ Exit(w) \/ Restart(w)

Threads == \E t \in threads : ThreadWrites(t) \/ OrphanEnds(t)

Failure(w) == TickFails(w) \/ Cancel(w) \/ CancelInAdapter(w) \/ Crash(w)

Next ==
  \/ Web
  \/ \E w \in Workers : WorkerStep(w) \/ Failure(w)
  \/ Threads
  \/ \E c \in Cmds : ReadEvidence(c) \/ Reconcile(c)
  \/ Tick

Spec == Init /\ [][Next]_vars

\* The loop of every worker keeps being scheduled, a killed process is
\* restarted, and a thread makes progress.
Fairness ==
  /\ \A w \in Workers : WF_vars(WorkerStep(w))
  /\ WF_vars(Threads)

FairSpec == Spec /\ Fairness
-----------------------------------------------------------------------------
(* Properties.                                                             *)

\* The adapter of a command is invoked at most once, whatever crashes,
\* reclaims and overlapping workers do around the boundary.
AtMostOneRun == \A c \in Cmds : runs[c] <= 1

\* One keyed user action reaches the exchange at most once, however often the
\* browser repeats the request: the rows that share a type and a key have made
\* at most one write together.
KeyedOnce ==
  /\ \A c \in Cmds : writes[c] <= 1
  /\ \A c, d \in Enqueued :
       /\ writes[c] > 0 /\ writes[d] > 0
       /\ spec[c].type = spec[d].type
       /\ spec[c].key = spec[d].key /\ spec[c].key # None
       => c = d

\* No two requests are told opposite ends of the same command, one of them
\* before and one after a sweep, a late settlement or a reconciliation.
OneStory ==
  \A c \in Cmds :
    ~ \A answer \in Settled : [cmd |-> c, answer |-> answer] \in told

\* Past the boundary a row is never offered to a claim again.
NoReplay ==
  [][\A c \in Cmds : boundary[c] =>
       boundary'[c] /\ status'[c] \notin {"absent", "pending", "claimed"}]_vars

\* With one worker, a thread that can still write belongs to a command that is
\* executing, unless the process was asked to stop while it ran: nobody is told
\* an outcome, and nobody reconciles one, while the writer is still at work.
NoLateWriter ==
  \A t \in threads : status[t.cmd] = "executing" \/ t.cmd \in cancelled

\* With one worker, the queue keeps the promise of FiledCall: the boundary is
\* the filing, the adapter's write the call.  What an adapter ended with is no
\* definite word: a success may have had nothing to write, a failure may have
\* written.  Reconciliation gives the definite ones, and they stay true: that a
\* command was submitted, and, from evidence read once its row was swept and
\* unless its adapter was cancelled, that it never was.
Denied ==
  {c \in Cmds : status[c] = "failed" /\ \E r \in reconciled : r.cmd = c /\ r.quiet}

Calls == INSTANCE FiledCall WITH
  Ids <- Cmds, filed <- {c \in Cmds : boundary[c]} \ Denied, calls <- writes,
  effects <- {c \in Cmds : writes[c] > 0},
  done <- {c \in Cmds : status[c] = "succeeded" /\ \E r \in reconciled : r.cmd = c},
  denied <- Denied
CallsFiled == Calls!Spec

\* A command that may be claimed is not left pending for ever.
PendingServed ==
  \A c \in Cmds :
    (status[c] = "pending" /\ spec[c].type \in AllowedTypes) ~> status[c] # "pending"

\* An executing command whose lease ran out gets an answer the web can render.
ExecutingResolves ==
  \A c \in Cmds :
    (status[c] = "executing" /\ lease[c] <= clock) ~> status[c] \in Terminal
=============================================================================
