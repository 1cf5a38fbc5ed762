----------------------- MODULE AuthoritativeExecution -----------------------
(***************************************************************************)
(* The execution of one message.  A thread of the worker, started by the   *)
(* message's queue job or by a context reanalysis, assesses the message,   *)
(* saves the decision under a fresh generation, claims that generation,    *)
(* crosses the side-effect boundary, lets the trade executor talk to the   *)
(* exchange and files what it learned.                                     *)
(*                                                                         *)
(* The decision row has one status and one generation token; every         *)
(* generation that was claimed has a row of its own, the attempt.  The     *)
(* two change together by compare-and-set.  Threads that the queue gave up *)
(* on go on; a process may be drained or killed at any point, after which  *)
(* a scanner classifies the attempts it left.                              *)
(*                                                                         *)
(* A generation is a uuid, represented by its number.  Leases are not      *)
(* counted: the scanner asks for a dead owner besides an expired lease, and*)
(* a lease of a dead owner expires.                                        *)
(***************************************************************************)
EXTENDS Naturals, FiniteSets

CONSTANTS
  NumProcs,    \* bound: threads that may work on the message at once
  MaxGens,     \* bound: generations of the decision
  MaxCrashes,  \* bound: worker processes that end
  MaxLapses,   \* bound: claims taken over while their thread is alive
  MaxFaults,   \* bound: classifications that fail
  MaxContext,  \* bound: context reanalyses started
  MaxRearms    \* bound: times the settled job is put back on the queue

Procs == 1..NumProcs
Gens == 1..MaxGens

ASSUME ExecutionAssumption ==
  /\ NumProcs \in Nat /\ MaxGens \in Nat /\ MaxCrashes \in Nat
  /\ MaxLapses \in Nat /\ MaxFaults \in Nat /\ MaxContext \in Nat
  /\ MaxRearms \in Nat

VARIABLES
  dec,        \* recognition_decisions.comparison_status
  gen,        \* comparison_claim_token: the newest generation saved
  dfailed,    \* agreement_status = 'authoritative_failed'
  dauto,      \* generation whose outcome automation_status shows, 0 another
  astat,      \* per generation: authoritative_execution_attempts.status
  effect,     \* per generation: exchange_effect
  dead,       \* generations whose owner process is gone
  venue,      \* per generation: what the exchange did for it
  job,        \* message_processing_jobs.status
  holder,     \* the thread the job's claim token belongs to, 0 nobody living
  charged,    \* attempt_count > 0
  reclaimed,  \* last_reason = 'stale_claim_reclaimed'
  aged,       \* the message is too old to be acted on
  open,       \* an unresolved context resolution waits for its trigger
  ctx,        \* the context reanalysis to run
  ctxHolder,  \* the thread its claim token belongs to, 0 nobody living
  accepting,  \* the registry of the process admits executions
  pc,         \* per thread: what it does next
  src,        \* per thread: what started it
  mine,       \* per thread: the generation it saved
  saw,        \* per thread: what its boundary tracker saw of the exchange
  crashes, lapses, faults, contexts, rearms

decVars == <<dec, gen, dfailed, dauto>>
attVars == <<astat, effect, dead>>
jobVars == <<job, holder, charged, reclaimed, aged>>
ctxVars == <<open, ctx, ctxHolder>>
local == <<src, mine, saw>>
budgets == <<crashes, lapses, faults, contexts, rearms>>
vars == <<decVars, attVars, venue, jobVars, ctxVars, accepting, pc, local, budgets>>

Active == {"claimed", "executing", "outcome_recorded"}
Blocking == {"claimed", "executing", "uncertain", "closed"}
Crossed == {"run", "record", "refuse", "preflight"}
Owning == Crossed \cup {"admit", "apply", "finalize"}
Stages == Owning \cup {"idle", "guard", "resume", "assess", "label", "claim",
                       "expire", "reload", "ok", "error", "blocked"}

RowsOK ==
  /\ dec \in {"absent", "pending", "running", "uncertain", "completed"}
  /\ gen \in 0..MaxGens /\ dfailed \in BOOLEAN /\ dauto \in 0..MaxGens
  /\ astat \in [Gens -> {"none", "succeeded", "failed_safe"} \cup Active \cup Blocking]
  /\ effect \in [Gens -> {"", "none", "applied", "rejected", "unknown"}]
  /\ dead \subseteq Gens
  /\ venue \in [Gens -> {"none", "applied", "rejected"}]

QueuesOK ==
  /\ job \in {"pending", "claimed", "settled"} /\ holder \in 0..NumProcs
  /\ charged \in BOOLEAN /\ reclaimed \in BOOLEAN /\ aged \in BOOLEAN
  /\ open \in BOOLEAN /\ ctx \in {"idle", "pending", "retry", "running"}
  /\ ctxHolder \in 0..NumProcs
  /\ accepting \in BOOLEAN

ThreadsOK ==
  /\ pc \in [Procs -> Stages]
  /\ src \in [Procs -> {"job", "event", "retry"}]
  /\ mine \in [Procs -> 0..MaxGens]
  /\ saw \in [Procs -> {"hold", "none", "applied", "rejected", "unknown"}]

BudgetsOK ==
  crashes \in Nat /\ lapses \in Nat /\ faults \in Nat /\ contexts \in Nat /\ rearms \in Nat

TypeOK == RowsOK /\ QueuesOK /\ ThreadsOK /\ BudgetsOK

Init ==
  /\ dec = "absent" /\ gen = 0 /\ dfailed = FALSE /\ dauto = 0
  /\ astat = [g \in Gens |-> "none"]
  /\ effect = [g \in Gens |-> ""]
  /\ dead = {}
  /\ venue = [g \in Gens |-> "none"]
  /\ job = "pending" /\ holder = 0 /\ charged = FALSE /\ reclaimed = FALSE
  /\ aged = FALSE
  /\ open = FALSE /\ ctx = "idle" /\ ctxHolder = 0
  /\ accepting = TRUE
  /\ pc = [p \in Procs |-> "idle"]
  /\ src = [p \in Procs |-> "job"]
  /\ mine = [p \in Procs |-> 0]
  /\ saw = [p \in Procs |-> "none"]
  /\ crashes = 0 /\ lapses = 0 /\ faults = 0 /\ contexts = 0 /\ rearms = 0

GoesTo(p, stage) == pc' = [pc EXCEPT ![p] = stage]

\* The execution is over for this thread, what it knew is forgotten.
Leaves(p, how) ==
  /\ GoesTo(p, how)
  /\ mine' = [mine EXCEPT ![p] = 0]
  /\ saw' = [saw EXCEPT ![p] = "none"]
  /\ UNCHANGED src

Ends(p) ==
  /\ GoesTo(p, "idle")
  /\ src' = [src EXCEPT ![p] = "job"]
  /\ UNCHANGED <<mine, saw>>

-----------------------------------------------------------------------------
(* What starts a thread.                                                   *)

Begin(p, source, first) ==
  /\ pc[p] = "idle" /\ accepting
  /\ GoesTo(p, first)
  /\ src' = [src EXCEPT ![p] = source]
  /\ UNCHANGED <<mine, saw>>

\* A claim that is taken over belongs to a dead process, or to a living thread
\* that is slower than the lease.
TakesOver(owner) ==
  lapses' = IF owner = 0 THEN lapses ELSE lapses + 1

\* The worker classifies a claim by the age of its message.
ByAge == IF aged THEN "expire" ELSE "guard"

Ages ==
  /\ ~aged /\ aged' = TRUE
  /\ UNCHANGED <<decVars, attVars, venue, job, holder, charged, reclaimed, ctxVars,
                 accepting, pc, local, budgets>>

StartJob(p) ==
  /\ job = "pending"
  /\ Begin(p, "job", ByAge)
  /\ job' = "claimed" /\ holder' = p /\ reclaimed' = FALSE
  /\ UNCHANGED <<decVars, attVars, venue, charged, aged, ctxVars, accepting, budgets>>

ReclaimJob(p) ==
  /\ job = "claimed" /\ (holder = 0 \/ lapses < MaxLapses)
  /\ Begin(p, "job", ByAge)
  /\ holder' = p /\ reclaimed' = TRUE
  /\ TakesOver(holder)
  /\ UNCHANGED <<decVars, attVars, venue, job, charged, aged, ctxVars, accepting,
                 crashes, faults, contexts, rearms>>

\* A rearmed job is a new invocation: no attempt is charged to it.
Rearm ==
  /\ job = "settled" /\ rearms < MaxRearms
  /\ job' = "pending" /\ charged' = FALSE
  /\ rearms' = rearms + 1
  /\ UNCHANGED <<decVars, attVars, venue, holder, reclaimed, aged, ctxVars,
                 accepting, pc, local, crashes, lapses, faults, contexts>>

\* schedule_context_reanalysis: an event the unresolved decision waits for.
Event ==
  /\ open /\ ctx = "idle"
  /\ open' = FALSE /\ ctx' = "pending"
  /\ UNCHANGED <<decVars, attVars, venue, jobVars, ctxHolder, accepting, pc, local,
                 budgets>>

\* _has_terminal_instruction: the instruction reached the exchange.
Terminal == \E g \in Gens : venue[g] = "applied"

\* claim_next_context_reanalysis: a row whose claim went stale is taken over as
\* "running", whatever it was when it was first claimed.
ClaimContext ==
  /\ contexts < MaxContext
  /\ contexts' = contexts + 1
  /\ \/ ctx \in {"pending", "retry"} /\ UNCHANGED lapses
     \/ /\ ctx = "running" /\ (ctxHolder = 0 \/ lapses < MaxLapses)
        /\ TakesOver(ctxHolder)
  /\ UNCHANGED <<crashes, faults, rearms>>

\* run_context_resolution_once: the reanalysis is dropped (always when the
\* instruction is terminal; its chat is switched off, the message has had its
\* share, the context is unchanged) or runs.
StartContext(p) ==
  /\ ClaimContext
  /\ \/ ctx' = "idle" /\ ctxHolder' = 0 /\ accepting /\ UNCHANGED <<pc, local>>
     \/ /\ ~Terminal
        /\ Begin(p, IF ctx = "retry" THEN "retry" ELSE "event", "guard")
        /\ ctx' = "running" /\ ctxHolder' = p
  /\ UNCHANGED <<decVars, attVars, venue, jobVars, open, accepting>>

-----------------------------------------------------------------------------
(* The guard of automatic retries.                                         *)

Claimed == {g \in Gens : astat[g] # "none"}
Latest == IF Claimed = {} THEN 0 ELSE CHOOSE g \in Claimed : \A h \in Claimed : h <= g

\* Mutant: only a failed processing makes the next one a retry.
RetriesOnlyFailures(p) == src[p] = "retry" \/ (job = "claimed" /\ charged)

\* Read from the job row, whatever started this thread.
IsAutomatic(p) ==
  \/ src[p] = "retry"
  \/ job = "claimed" /\ (charged \/ reclaimed)

OwnsMessage(g) == g # 0 /\ astat[g] \in Blocking

\* An exact durable success, still shown by the decision.
Returnable(g) ==
  /\ g # 0 /\ astat[g] = "succeeded"
  /\ dec = "completed" /\ ~dfailed /\ dauto = g

\* The generation is the decision's own and nobody else has finalized it.
Owns(g) == dec = "running" /\ gen = g

Finalizes(g) ==
  /\ astat[g] = "outcome_recorded" /\ Owns(g)
  /\ astat' = [astat EXCEPT ![g] = "succeeded"]
  /\ dec' = "completed" /\ dfailed' = FALSE /\ dauto' = g
  /\ UNCHANGED <<gen, effect, dead>>

\* _load_completed_execution_for_automatic_retry; "reload" is its second look,
\* after it has tried to finalize the outcome it found.
Guard(p) ==
  /\ pc[p] \in {"guard", "reload"}
  /\ LET found == Latest # 0 /\ astat[Latest] = "outcome_recorded"
         next == IF pc[p] = "guard" /\ ~IsAutomatic(p) THEN "assess"
                 ELSE IF OwnsMessage(Latest) THEN "blocked"
                 ELSE IF found THEN IF pc[p] = "guard" THEN "resume" ELSE "error"
                 ELSE IF Returnable(Latest) THEN "ok" ELSE "assess"
     IN /\ GoesTo(p, next)
        /\ mine' = [mine EXCEPT ![p] = IF next = "resume" THEN Latest ELSE 0]
  /\ UNCHANGED <<decVars, attVars, venue, jobVars, ctxVars, accepting, src, saw,
                 budgets>>

Resume(p) ==
  /\ pc[p] = "resume"
  /\ \/ Finalizes(mine[p])
     \/ UNCHANGED <<decVars, attVars>>
  /\ Leaves(p, "reload")
  /\ UNCHANGED <<venue, jobVars, ctxVars, accepting, budgets>>

\* The job's message is too old: the gap is recorded instead.
Expire(p) ==
  /\ pc[p] = "expire"
  /\ IF dec \in {"running", "uncertain"}
     THEN GoesTo(p, "error") /\ UNCHANGED <<dec, dfailed, dauto>>
     ELSE /\ dec' = "completed" /\ dfailed' = TRUE /\ dauto' = 0
          /\ GoesTo(p, "ok")
  /\ UNCHANGED <<gen, attVars, venue, jobVars, ctxVars, accepting, local, budgets>>

-----------------------------------------------------------------------------
(* Assessment: evidence extraction and context resolution, both by a model *)
(* and both slow, then the decision.                                       *)

\* Mutant: a new decision displaces an execution that is frozen.
DisplacesFrozen == dec # "running"

\* save_* refuse to displace an executor.
Displaceable == dec \notin {"running", "uncertain"}

\* Nothing durable is written: a provider, a lock, a concurrent extraction.
Breaks(p) ==
  /\ pc[p] \in {"assess", "label"}
  /\ GoesTo(p, "error")
  /\ UNCHANGED <<decVars, attVars, venue, jobVars, ctxVars, accepting, local, budgets>>

Refused(p) ==
  /\ pc[p] = "assess" /\ ~Displaceable
  /\ GoesTo(p, "blocked")
  /\ UNCHANGED <<decVars, attVars, venue, jobVars, ctxVars, accepting, local, budgets>>

\* save_terminal_authoritative_decision; a network failure of the context
\* resolution leaves a row to retry.
SaveTerminal(p) ==
  /\ pc[p] = "assess" /\ Displaceable
  /\ dec' = "completed" /\ dfailed' = TRUE
  /\ ctx' \in {ctx} \cup (IF ctx = "idle" THEN {"retry"} ELSE {})
  /\ GoesTo(p, "label")
  /\ UNCHANGED <<gen, dauto, attVars, venue, jobVars, open, ctxHolder, accepting,
                 local, budgets>>

\* update_recognition_execution_outcome asks for nothing but the row.
Label(p) ==
  /\ pc[p] = "label"
  /\ dauto' = 0
  /\ GoesTo(p, "error")
  /\ UNCHANGED <<dec, gen, dfailed, attVars, venue, jobVars, ctxVars, accepting,
                 local, budgets>>

\* save_pending_authoritative_decision.  An unresolved context has no action to
\* execute and waits for an event; what is saved after the decision may raise.
SavePending(p) ==
  /\ pc[p] = "assess" /\ Displaceable
  /\ gen < MaxGens
  /\ gen' = gen + 1
  /\ dec' = "pending" /\ dfailed' = FALSE /\ dauto' = 0
  /\ \E knows \in {"none", "hold"} :
       /\ open' = (open \/ knows = "hold")
       /\ \/ /\ mine' = [mine EXCEPT ![p] = gen + 1]
             /\ saw' = [saw EXCEPT ![p] = knows]
             /\ GoesTo(p, "claim")
          \/ GoesTo(p, "error") /\ UNCHANGED <<mine, saw>>
  /\ UNCHANGED <<attVars, venue, jobVars, ctx, ctxHolder, accepting, src, budgets>>

-----------------------------------------------------------------------------
(* Ownership.                                                              *)

\* Mutant: any pending generation will do.
ClaimsAnyPending(p) == dec = "pending"

\* The compare-and-set of the claim.
Claims(p) == dec = "pending" /\ gen = mine[p]

\* require_accepting, then claim_authoritative_execution_attempt.
Claim(p) ==
  /\ pc[p] = "claim"
  /\ IF accepting /\ Claims(p)
     THEN /\ dec' = "running"
          /\ astat' = [astat EXCEPT ![mine[p]] = "claimed"]
          /\ GoesTo(p, "admit") /\ UNCHANGED local
     ELSE Leaves(p, "error") /\ UNCHANGED <<dec, astat>>
  /\ UNCHANGED <<gen, dfailed, dauto, effect, dead, venue, jobVars, ctxVars, accepting,
                 budgets>>

\* fail_safe_authoritative_execution_attempt
FailsSafe(g) ==
  /\ astat[g] = "claimed" /\ Owns(g)
  /\ astat' = [astat EXCEPT ![g] = "failed_safe"]
  /\ dec' = "completed" /\ dfailed' = FALSE /\ dauto' = 0
  /\ UNCHANGED <<gen, effect, dead>>

\* mark_authoritative_execution_uncertain
Freezes(g) ==
  /\ astat[g] = "executing" /\ Owns(g)
  /\ astat' = [astat EXCEPT ![g] = "uncertain"]
  /\ effect' = [effect EXCEPT ![g] = "unknown"]
  /\ dec' = "uncertain" /\ dauto' = 0
  /\ UNCHANGED <<gen, dfailed, dead>>

\* admitted: the process may have begun to drain since the claim.
Admit(p) ==
  /\ pc[p] = "admit"
  /\ IF accepting THEN GoesTo(p, "apply") /\ UNCHANGED <<decVars, attVars, local>>
     ELSE Leaves(p, "error") /\ FailsSafe(mine[p])
  /\ UNCHANGED <<venue, jobVars, ctxVars, accepting, budgets>>

\* The message is blocked, deferred or without an action: nothing to execute.
Skip(p) ==
  /\ pc[p] = "apply"
  /\ GoesTo(p, "record")
  /\ UNCHANGED <<decVars, attVars, venue, jobVars, ctxVars, accepting, local, budgets>>

\* Mutant: the boundary is marked when the executor has returned.
MarkedOnReturn == "claimed"

\* The durable mark of an attempt that may reach the exchange.
Marked == "executing"

\* mark_authoritative_side_effect_started
Cross(p) ==
  /\ pc[p] = "apply" /\ saw[p] # "hold"
  /\ astat[mine[p]] = "claimed"
  /\ astat' = [astat EXCEPT ![mine[p]] = Marked]
  /\ GoesTo(p, "run")
  /\ UNCHANGED <<decVars, effect, dead, venue, jobVars, ctxVars, accepting, local,
                 budgets>>

\* One request to the exchange and what the tracker makes of its answer.
Write(p) ==
  /\ pc[p] = "run" /\ saw[p] = "none"
  /\ \E did \in {"applied", "rejected"} :
       /\ venue' = [venue EXCEPT ![mine[p]] = did]
       /\ \E s \in {did, "unknown"} : saw' = [saw EXCEPT ![p] = s]
  /\ UNCHANGED <<decVars, attVars, jobVars, ctxVars, accepting, pc, src, mine, budgets>>

\* Mutant: a run without a tracked write files its refusal, written or not.
ProvesNothingSent(p) == saw[p] \in {"none", "unknown"}

\* No tracked write: the items' own refusals or the batch ledger prove it.
ProvesNoContact(p) == saw[p] = "none"

\* build_execution_boundary_outcome.  Without a write, the items may show what
\* an earlier generation did; an unknown outcome is classified like an error.
Return(p) ==
  /\ pc[p] = "run"
  /\ \/ saw[p] \in {"none", "applied", "rejected"} /\ GoesTo(p, "record") /\ UNCHANGED saw
     \/ /\ saw[p] = "none" /\ Terminal
        /\ saw' = [saw EXCEPT ![p] = "applied"]
        /\ GoesTo(p, "record")
     \/ /\ ProvesNoContact(p)
        /\ \E how \in {"refuse", "preflight"} : GoesTo(p, how)
        /\ UNCHANGED saw
  /\ UNCHANGED <<decVars, attVars, venue, jobVars, ctxVars, accepting, src, mine, budgets>>

-----------------------------------------------------------------------------
(* Filing the outcome.                                                     *)

\* Mutant: a message without an action is filed under its plan.
EffectAsPlanned(p) == saw[p]

Effect(p) == IF saw[p] = "hold" THEN "none" ELSE saw[p]

\* record_authoritative_automation_outcome
Record(p) ==
  /\ pc[p] = "record"
  /\ \/ astat[mine[p]] = "executing"
     \/ astat[mine[p]] = "claimed" /\ saw[p] \in {"hold", "none"}
  /\ astat' = [astat EXCEPT ![mine[p]] = "outcome_recorded"]
  /\ effect' = [effect EXCEPT ![mine[p]] = Effect(p)]
  /\ GoesTo(p, "finalize")
  /\ UNCHANGED <<decVars, dead, venue, jobVars, ctxVars, accepting, local, budgets>>

\* What comes after the execution, wakeups and alerts, may raise.
Finalize(p) ==
  /\ pc[p] = "finalize"
  /\ Finalizes(mine[p])
  /\ \E next \in {"ok", "error"} : Leaves(p, next)
  /\ UNCHANGED <<venue, jobVars, ctxVars, accepting, budgets>>

\* record_authoritative_deterministic_refusal, record_management_preflight_refusal
Refuse(p) ==
  /\ pc[p] \in {"refuse", "preflight"}
  /\ astat[mine[p]] = "executing" /\ Owns(mine[p])
  /\ astat' = [astat EXCEPT ![mine[p]] =
                 IF pc[p] = "refuse" THEN "failed_safe" ELSE "closed"]
  /\ effect' = [effect EXCEPT ![mine[p]] = "none"]
  /\ dec' = "completed" /\ dfailed' = FALSE /\ dauto' = 0
  /\ \E next \in {"ok", "error"} : Leaves(p, next)
  /\ UNCHANGED <<gen, dead, venue, jobVars, ctxVars, accepting, budgets>>

\* Anything raises, or the outcome is unknown: the attempt is classified by the
\* status it is found in; an outcome already recorded stays for a later
\* finalization, one that a retry has finalized meanwhile stays as it is.
Classify(p) ==
  /\ pc[p] \in Owning \ {"admit"}
  /\ \/ FailsSafe(mine[p])
     \/ Freezes(mine[p])
     \/ astat[mine[p]] \notin {"claimed", "executing"} /\ UNCHANGED <<decVars, attVars>>
  /\ Leaves(p, "error")
  /\ UNCHANGED <<venue, jobVars, ctxVars, accepting, budgets>>

\* The classification itself fails; its thread leaves the attempt behind.
Unclassified(p) ==
  /\ faults < MaxFaults /\ pc[p] \in Owning
  /\ Leaves(p, "error")
  /\ faults' = faults + 1
  /\ UNCHANGED <<decVars, attVars, venue, jobVars, ctxVars, accepting, crashes,
                 lapses, contexts, rearms>>

-----------------------------------------------------------------------------
(* What becomes of the job and of the reanalysis.                          *)

\* A failed job is due again or, its attempts used up or its failure terminal,
\* settled; a claim that was taken over settles nothing.
SettleJob(p) ==
  /\ src[p] = "job" /\ pc[p] \in {"ok", "error", "blocked"}
  /\ IF holder # p THEN UNCHANGED jobVars
     ELSE /\ \/ job' = "settled" /\ UNCHANGED charged
             \/ pc[p] # "ok" /\ job' = "pending" /\ charged' = TRUE
          /\ holder' = 0
          /\ UNCHANGED <<reclaimed, aged>>
  /\ Ends(p)
  /\ UNCHANGED <<decVars, attVars, venue, ctxVars, accepting, budgets>>

\* Being blocked is an expected end; after an error the row is due again, or
\* exhausted.
SettleContext(p) ==
  /\ src[p] # "job" /\ pc[p] \in {"ok", "error", "blocked"}
  /\ IF ctx # "running" \/ ctxHolder # p THEN UNCHANGED <<ctx, ctxHolder>>
     ELSE /\ \/ ctx' = "idle"
             \/ pc[p] = "error" /\ ctx' \in {"pending", src[p]} \ {"event"}
          /\ ctxHolder' = 0
  /\ Ends(p)
  /\ UNCHANGED <<decVars, attVars, venue, jobVars, open, accepting, budgets>>

-----------------------------------------------------------------------------
(* Processes and the scanner.                                              *)

Left == {g \in Gens : astat[g] \in Active}

\* Shutdown: no new execution, and the queue's task lets go of its claim; the
\* threads go on until the process ends.
Drain ==
  /\ accepting /\ crashes < MaxCrashes
  /\ accepting' = FALSE
  /\ holder' = 0
  /\ UNCHANGED <<decVars, attVars, venue, job, charged, reclaimed, aged, ctxVars, pc,
                 local, budgets>>

\* The process ends, drained or killed, and another one starts.
Crash ==
  /\ crashes < MaxCrashes
  /\ crashes' = crashes + 1
  /\ pc' = [p \in Procs |-> "idle"]
  /\ src' = [p \in Procs |-> "job"]
  /\ mine' = [p \in Procs |-> 0]
  /\ saw' = [p \in Procs |-> "none"]
  /\ dead' = dead \cup Left
  /\ holder' = 0 /\ ctxHolder' = 0
  /\ accepting' = TRUE
  /\ UNCHANGED <<decVars, astat, effect, venue, job, charged, reclaimed, aged, open, ctx,
                 lapses, faults, contexts, rearms>>

\* Mutant: the scanner looks for interrupted executions only.
ExecutingOwnerGone(g) == g \in dead /\ astat[g] = "executing"

\* The owner's process is provably gone.
OwnerGone(g) == g \in dead

\* _inspect_row
Scan(g) ==
  /\ OwnerGone(g)
  /\ FailsSafe(g) \/ Freezes(g) \/ Finalizes(g)
  /\ UNCHANGED <<venue, jobVars, ctxVars, accepting, pc, local, budgets>>

\* apply_uncertain_attempt_closeout leaves the decision frozen.
Closeout(g) ==
  /\ astat[g] = "uncertain"
  /\ astat' = [astat EXCEPT ![g] = "closed"]
  /\ UNCHANGED <<decVars, effect, dead, venue, jobVars, ctxVars, accepting, pc, local,
                 budgets>>

-----------------------------------------------------------------------------
Thread(p) ==
  \/ Guard(p) \/ Resume(p) \/ Expire(p)
  \/ Breaks(p) \/ Refused(p) \/ SaveTerminal(p) \/ Label(p) \/ SavePending(p)
  \/ Claim(p) \/ Admit(p) \/ Skip(p) \/ Cross(p) \/ Write(p) \/ Return(p)
  \/ Record(p) \/ Finalize(p) \/ Refuse(p) \/ Classify(p) \/ Unclassified(p)
  \/ SettleJob(p) \/ SettleContext(p)

Next ==
  \/ \E p \in Procs : StartJob(p) \/ ReclaimJob(p) \/ StartContext(p) \/ Thread(p)
  \/ \E g \in Gens : Scan(g) \/ Closeout(g)
  \/ Rearm \/ Ages \/ Event \/ Drain \/ Crash

Spec == Init /\ [][Next]_vars

\* Threads end, the scanner runs, a drained process ends.
Fairness ==
  /\ \A p \in Procs : WF_vars(Thread(p))
  /\ \A g \in Gens : WF_vars(Scan(g))
  /\ WF_vars(~accepting /\ Crash)

FairSpec == Spec /\ Fairness
-----------------------------------------------------------------------------
(* Properties.                                                             *)

\* The decision row says that an execution is under way exactly when one
\* attempt is, and it is the attempt of the decision's own generation: crashes,
\* late threads, the scanner and the operator never part the two rows.
OwnershipAgrees ==
  \A g \in Gens : astat[g] \in Active <=> Owns(g)

\* The fence the ownership promises; see ExecutionFence.
Gate == CASE dec = "running" -> "held"
          [] dec = "uncertain" -> "frozen"
          [] OTHER -> "open"
Fence == INSTANCE ExecutionFence WITH
  Hands <- Gens, gate <- Gate, hand <- Latest,
  written <- {g \in Gens : venue[g] # "none"}
RefinesFence == Fence!Spec

\* What is on file about the exchange is true: an attempt filed as not started,
\* refused or proven unsent sent nothing, and one filed as applied stands for a
\* request that was carried out, by it or by an earlier generation.
OutcomeTruthful ==
  \A g \in Gens :
    /\ effect[g] = "none" \/ astat[g] = "failed_safe" => venue[g] = "none"
    /\ effect[g] = "applied" => \E h \in 1..g : venue[h] = "applied"
    /\ effect[g] = "rejected" => venue[g] = "rejected"

\* Nothing that reached the exchange is lost from the books: a generation that
\* wrote is under way, on file with what it did, frozen, or closed from frozen.
WritesAreFiled ==
  \A g \in Gens :
    venue[g] # "none" =>
      \/ astat[g] \in {"executing", "uncertain"}
      \/ effect[g] \in {venue[g], "unknown"}

\* The execution keeps the promise of FiledCall: the mark "executing" files the
\* generation's request.  On file without effect is a definite word; on file as
\* applied is none of its own, for it may stand for an earlier generation.
NoEffect == {g \in Gens : effect[g] \in {"none", "rejected"} \/ astat[g] = "failed_safe"}
Calls == INSTANCE FiledCall WITH
  Ids <- Gens,
  filed <- {g \in Gens : astat[g] \notin {"none", "claimed"}} \ NoEffect,
  calls <- [g \in Gens |-> IF venue[g] = "none" THEN 0 ELSE 1],
  effects <- {g \in Gens : venue[g] = "applied"}, done <- {}, denied <- NoEffect
CallsFiled == Calls!Spec

\* As long as no claim is taken over from a living thread, no job re-armed and
\* no context re-analysed, whatever crashes, drains and retries there are, the
\* instruction is carried out once.
ExecutedOnce ==
  lapses = 0 /\ rearms = 0 /\ MaxContext = 0 =>
    Cardinality({g \in Gens : venue[g] = "applied"}) <= 1

\* An attempt does not stay on one of the two sides of the boundary for ever,
\* nor does a dead process's outcome stay unpublished.  (An outcome recorded by
\* a living process may: nobody finalizes it once the job is given up.)
Unresolved(g) ==
  \/ astat[g] \in {"claimed", "executing"}
  \/ astat[g] = "outcome_recorded" /\ g \in dead
AttemptsResolve == \A g \in Gens : []<>~Unresolved(g)

\* What the guard says: an automatic retry is given the durable success instead
\* of replaying it.
Retries(p) == src[p] = "retry" \/ (holder = p /\ (charged \/ reclaimed))
NoReplay ==
  [][\A p \in Procs :
       pc[p] = "apply" /\ pc'[p] = "run" /\ Retries(p)
       => \A g \in Gens : ~(astat[g] = "succeeded" /\ venue[g] = "applied")]_vars
=============================================================================
