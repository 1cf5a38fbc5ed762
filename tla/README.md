# TLA+ verification of telegram-kol-analyzer

The program reads trading messages from Telegram groups, has language models
recognise them, and trades them on the Deepcoin exchange. A mistake of its
control flow costs money: an instruction executed twice, an order on the wrong
side of a crash, a queue that silently stops. This directory models the
protocols that prevent such mistakes, checks them with TLC on small instances
and proves the central results for every instance with TLAPS.

Paths below are relative to `src/telegram_kol_research/` unless they start with
`docs/` or `tests/`.

Contents: 1 the system, 2 the inventory, 3 the plan, 4 the modules, 5 the runs,
6 fairness, 7 the proofs, 8 disagreements found, 9 what is not covered, 10 how to
run.

## 1. The system

Three operating-system processes share one SQLite database
(`docs/ARCHITECTURE.md`):

```
 Telegram ──> ingest ──message_processing_jobs──> worker ──writes──> Deepcoin
                                                    ^  ^
 browser ───> web ─────worker_command_jobs──────────┘  └── loops: reconcile,
                                                           management, protection,
                                                           deletion exits, scanner
```

* **ingest** owns the Telegram session. It stores raw messages and enqueues one
  processing job per message; it recognises and executes nothing.
* **worker** runs every background loop and is the only process that may write
  to the exchange.
* **web** serves HTTP. An action that needs the exchange becomes a row of
  `worker_command_jobs`, and the request polls that row.

No in-process lock reaches another process: exclusion between processes is a
compare-and-set on a database row (a status, a claim token, a generation). This
is why the models below have one action per database transaction, and let
everything happen between two of them: another thread, another process, an
expired lease, the death of the process.

## 2. Inventory

For each part: its state; its operations; what it touches; what is hard; what
makes it correct. The parts in bold are modelled, some of them partly
(`PROJECT.json` says which operations are left out).

| part (source) | state | operations | hard behaviour | correct when |
|---|---|---|---|---|
| **Worker commands** (`worker_command_jobs.py`, `worker_command_executor.py`, `worker_command_reconciliation.py`) | one row per command: status, claim token, lease, attempt count, boundary time, idempotency key | enqueue or reattach, claim, cross the boundary, run the adapter, settle, sweep, reconcile, poll | lapsed leases, overlap of two workers, crash on either side of the exchange write, threads that outlive a cancellation, repeated requests | one adapter invocation per command, one write per key, one story told, every execution answered |
| **Message queue** (`message_processing_worker.py`, enqueue in `telegram_live_listener.py`) | one row per message: status, claim token, attempts, next attempt; the message's decision | enqueue, re-arm, claim in lane order, process, settle, defer, give up, expire | processors slower than their lease, cancelled loops whose threads go on, backoff, re-armed settled jobs | a claim is held for its lease, chat order, earned failures, no message is stuck |
| **Authoritative execution** (`authoritative_execution_attempts.py`, `authoritative_recognition.py`, `recognition_decisions.py`, `recognition_execution_scanner.py`, `recognition_execution_runtime.py`, `context_resolution_worker.py`, `uncertain_attempt_closeout.py`, `execution_boundary.py`) | a decision row per message, one attempt row per generation, exchange outcome counters | guard, save pending, claim, admit, cross, write, record, finalize, refuse, freeze, scan, close out | queue retries and context reanalyses of the same message, crashes between mark, write and record, shutdown, an alive-looking owner | decision and attempts agree, one executor at a time, books true, nothing replayed |
| **Position mutation gateway** (`position_mutation_gateway.py`, `position_mutation_intents.py`, `position_mutation_authority.py`, `protection_ledger.py`) | one intent per idempotency key, with fingerprints of position and request; ledger of protection orders | reserve, verify, submit, confirm by readback, cancel, close | crash between submitting and submitted, additive `set-position-sltp`, readback by attributes | at most one write per intent; a refused write has no effect; one close per version of a position |
| **Protection replacement** (`protection_replacement.py`, its callers in `deepcoin_execution_actions.py`, `take_profit_adjustment_executor.py`, `break_even_convergence_executor.py`) | old and new orders of a run, ledger rows | stops: place new, then cancel old; take profits: cancel old, then place new | one step of several failing, list unreadable, replays with the same keys, a break-even beside an adjustment | a position that had a stop never loses its last one through a replacement |
| Ingest locks (`keyed_async_locks.py`) | lock and reference count per chat, readers, waiting writers | lock a chat, lock all | cancellation at every await, writer preference | exclusion, no leaked count, no lost wake-up |
| **Management batches** (`strategy_management_batches.py`, `_worker.py`, `_executor.py`, `_reconciliation.py`, `management_recovery_timeout.py`) | batch and legs with statuses, the entry legs of the strategy | execute, claim, restart check, freeze, block, cancel the entry, close per leg, reconcile, successor, timeout | crash between reservation and submission, two executions of one batch, freezes outside the lock, stale snapshots, race of a cancel with a fill | a close is sent once and never forgotten; the entry goes first; blocked and succeeded are true; the batch ends |
| **Private stream and entry admission** (`deepcoin_private_ws.py`, `deepcoin_ws_resync.py`, `deepcoin_ws_silence_probe.py`, `deepcoin_ws_stream_state.py`, `deepcoin_entry_admission.py`, `entry_admission_reconciler.py`, `instruction_execution_*.py`, `message_instruction_items.py`) | four-state machine, inbox of frames, gap rows, silence baseline; instruction item, execution contract, deadline | connect, resync, read, probe, file a gap, reconnect; admit, hold, release or expire an entry | a subscription that takes effect late or goes deaf, reads that fail, deaths with an open gap row, three loops that may end a held entry | it vouches for a complete picture only; what was missed is on record; it vouches again; a held entry ends |
| Deletion exits (`source_message_deletion_worker.py`, `source_deletion_exit_timeout.py`) | leased exit rows in stages | claim by fairness order, cancel entries, exit, prove flat | slow holder of a lapsed lease, starvation | every exit is reached; a finished exit is proven flat |
| Entry assembly and revisions (`entry_*`) | fragments, attempts, wake-ups, revision batches | assemble, wait, wake up, revise | a second execution fence with its own scanner | same as authoritative execution |
| Rate limits (`deepcoin_client.py`) | token bucket and sliding window per process | acquire | three processes share an account limit | the account's limit is respected |
| Naked-fill net, stop ladder, break-even, rescue | observations, intents | compare, decide, write through the gateway | convergence with late evidence | protection never moves against the position |
| Settings (`trading_settings.py`) | one row | save, compare-and-set of the cap | concurrent writers | no lost update |
| Runtime incidents, agents, bots | incident rows, notification outboxes | claim, transition, deliver | leases, duplicates | a fenced transition; delivery at least once |
| Strategy records, lifecycle, recognition, planning, reports, CLI | derived records | pure functions over text and prices, model calls | data rather than control | outside this method's reach |

`PROJECT.json` lists every part with its status, and under `hazards` what is
hard to test in each, at its line.

### Interactions

* ingest → queue: `_enqueue_processing_jobs` in the transaction that stores the
  message; the gap-recovery loop enqueues what that missed.
* queue → execution: `process_message_job` calls the recognition and
  `process_authoritative_message` in a thread; its exceptions decide whether the
  job is settled, deferred or given up.
* context worker → execution: `run_context_resolution_once` executes the *same*
  message outside the queue, when a later message of the chat explains it.
* scanner → execution: settles what dead owners left, from another task.
* web → commands → exchange; the sweep and the reconciliation answer what a
  lost worker left.
* management, adjustments, break-even → gateway: every close, every protection
  order and every cancel of one goes through an intent; adjustments and
  management hold the position authority lock, a break-even does not.
* stream → entries: every gate of a new entry asks the stream's state machine and the
  gap rows; held entries are looked at again by a timer of the worker and the maintenance tick of
  the operator bot.
* reconcilers → intents, ledger, batches: what the exchange shows, read before the
  lock is taken, is applied under it.
* Every write passes `ExecutionBoundaryTracker`, whose counters decide what is
  filed about it.

## 3. The plan

In order of what a failure costs. The first six are built and proved.

1. `WorkerCommands`: one exchange write per operator command.
2. `MessageQueue`: no message lost, stuck or out of order.
3. `AuthoritativeExecution` refining `ExecutionFence`: one execution per message,
   true books.
4. `PositionGateway` with `ProtectionReplacement` on top of it: one write per
   intent, and a position that had a stop keeps one.
5. `ManagementClose`: a close batch of several positions, sent once, filed
   truthfully, ended.

6. `PrivateStream` with `EntryAdmission` on top of it: what the stream vouches for,
   and the entry that waits for it.

What a continuation would take up, most important first:

7. The rest of the management batches: contracts (`strategy_management_composite_executor.py`),
   the protection phase after a partial close, the successor of a race.
8. `EntryWakeups`: the second implementation of `ExecutionFence`.
9. `DeletionExits`: leases of the exit pipeline and the fairness of its candidate
   order; the folding of frames into entity states.
10. `KeyedLocks`: the admission barrier and its reference counts under cancellation.
11. A full composition of `MessageQueue` and `AuthoritativeExecution`. Today the
    second module carries the part of the first it needs (`job`, `holder`, `charged`,
    `reclaimed`, `aged`); both are proved to obey `MessageJob`, but not that the
    part leaves nothing of the queue out.

Three abstract specifications are stated: `ExecutionFence`, what owning a message's
execution promises; `FiledCall`, what every component that calls the exchange
promises about its calls, which five modules implement; and `MessageJob`, what the
queue promises the threads that work on a message, which both the queue and the
execution's picture of it obey. A run is
kept for each distinct question; where a theorem covers a property for every
instance its run is only as large as is needed to keep it from being vacuous.

## 4. The modules

| module | what it is |
|---|---|
| `WorkerCommands` | the command queue, its executor, sweep, reconciliation and polling requests |
| `MCWorkerCommands` | symmetry of the workers, and a view |
| `WorkerCommandsProofs` | its theorems |
| `MessageQueue` | the message queue: enqueue, lanes, claims, processing, settlement, time |
| `MessageJob` | abstract: what the queue promises of one message's job |
| `MCMessageQueue` | assignments of messages to chats |
| `MessageQueueProofs` | its theorems |
| `FiledCall` | abstract: what a component that calls the exchange promises about its calls |
| `FiledCallProofs` | what follows from that promise |
| `ExecutionFence` | abstract: what owning a message's execution promises |
| `AuthoritativeExecution` | decision, attempts, threads, process, scanner and operator of one message |
| `MCAuthoritativeExecution` | its instances |
| `AuthoritativeExecutionProofs` | its theorems, the refinement of `ExecutionFence` among them |
| `PositionGateway` | intents, writes, readback and closes of one position; no specification of its own |
| `ProtectionReplacement` | extends it: the runs that replace stops and take profits |
| `MCProtectionReplacement` | plans and keys of its instances |
| `ProtectionReplacementProofs` | theorems about both |
| `ManagementClose` | a close batch: executor, worker, reconcilers, timeout, exchange, crashes |
| `ManagementCloseProofs` | its theorems |
| `PrivateStream` | the reader of the private stream and its surroundings; no specification of its own |
| `EntryAdmission` | extends it: one entry held back while the stream cannot vouch, and its reconcilers |
| `MCEntryAdmission` | a view of its instance |
| `EntryAdmissionProofs` | theorems about both |

Operators whose comment begins with *Mutant* are plausible mistakes in the
definition that follows; no specification uses them. Each property is known to
fail when one of them replaces its definition (`PROJECT.json`, `mutants`).

### FiledCall

Every component that writes to the exchange has the same problem: the call and the
row about it cannot change together, and a process may die between them. The source
solves it the same way each time, under five names (boundary, mark, reservation, leg
identity, claim of an item), and `FiledCall` states the solution once. A call is
*filed* in the database before it is made; it is made at most once; and two words the
database may say of it are definite: *done*, it took effect, and *denied*, it never
will. Both are true when they are given and are never taken back. Between the filing
and a word the database says nothing. Each component defines `Calls == INSTANCE
FiledCall WITH ...` and the property `CallsFiled == Calls!Spec`:

| component | a call is | filed | done | denied |
|---|---|---|---|---|
| `WorkerCommands` | the command's write | its boundary is crossed | reconciled from a report that found it | reconciled from a quiet report that did not |
| `AuthoritativeExecution` | the write of a generation | attempt is past *claimed* | never: *applied* may stand for an earlier generation | outcome *none* or *rejected*, or *failed_safe* |
| `ProtectionReplacement` | the write of an intent | *submitting* to *confirmed* | a close *confirmed* | *rejected*, *blocked* |
| `ManagementClose` | the close order of a leg | the leg has its client id | batch *succeeded* | leg *failed* |
| `EntryAdmission` | the order of a run of the item | the run claimed the item | item *submitted* (its last run) | the item was put back, claimed again, or has expired |

What is missing from the table is as telling: a confirmed *set* intent is not *done*,
because its confirmation may be borrowed from another write (section 8). What an
adapter of a worker command ended with says nothing of its write: a lost answer ends as
*failed*, and *succeeded* is also how a command ends that found nothing to do or only
reads (`worker_command_executor.py:484`, `:377`). A *failed* item of an entry says nothing
of its order either (section 8); that it waits or has expired does.

### MessageJob

A job is the interface of the queue and the execution: the queue decides who holds it,
the execution's threads come and go. `MessageJob` says what may happen to one job. It is
armed from nothing or from *settled*; a new thread claims it, due or over the head of
another; only the holder's answer takes it off its claim, settling it or putting it back
with an attempt charged; whoever does not hold it can only end; and the process may let
go of all its threads. A slow processor, a cancelled task or a re-armed job thus never
touches the books of a claim that is not its own. `MessageQueue` instantiates it for
each message (`Job(m)`, property `JobsKept`): *work* are the claim numbers of the
message's processors, the *holder* the one that is awaited and holds its claim.
`AuthoritativeExecution` models one message and only the part of the queue its threads
see; its `job`, `holder` and `charged` are mapped to the same variables in
`AuthoritativeExecutionProofs`.

### WorkerCommands

*State.* A row of `worker_command_jobs` is a number; `spec`, `status`, `token`,
`lease`, `attempts` and `boundary` are its columns. A worker is a process with
one loop: `pc` is where its tick is, `now` its `tick_time`, `held`/`heldToken`
the claim it carries in local variables, `outcome` the adapter's result,
`stopping` an absorbed cancellation. `threads` are adapter threads, which
outlive the task that started them. `writes`, `runs` and `told` are what the
exchange, the adapter and the browsers have seen. `reports` is the evidence reconcilers
have read, `reconciled` the reports a row was settled by, `cancelled` a history: the
rows whose adapter was cancelled while it ran.

*Actions.* `EnqueueNew`/`Reattach` are `enqueue_worker_command`; `Poll`/`GiveUp`
the request; `StartTick`, `SweepExpired`, `Claim`, `ClaimNothing`, `Cross`,
`LoseClaim`, the adapter's return and the settlement are the tick in its order;
`TickFails`, `Cancel`, `CancelInAdapter` and `Crash` are its interruptions, each
possible at the awaits the code has. An adapter returns with or without a write
(`AdapterReturns` asks for none). `ReadEvidence` and `Reconcile` are the operator's
reconciliation: the evidence is collected at one moment, whatever the row is then, and
applied at another, if the row is uncertain by then; `Tick` is time.

*Choices.* A claim token is a fresh uuid: the number of the claim on its row
stands for it, which `attempt_count` makes unique. The evidence is complete and true
of the moment it was read; the reader of a single row in the
source always reports its evidence incomplete, so the production path does less
than the model allows. A report is *quiet* if its row was already uncertain and its
adapter was not cancelled; `CallsFiled` counts a command as denied only then, because
evidence read while the thread still works can be outdated when it is applied (section 8). The shadow executor is left out: it has no caller.

### MessageQueue

*State.* The columns of `message_processing_jobs`; times are relative and
saturate at the threshold they are compared with (`wait` to `next_attempt_at`,
`age` since `claimed_at`, `old` since the message was posted). `procs` are the
processors: thread plus local claim (`msg`, `tok`, `att`), its stage, its age
and whether a task still waits for it. A cancelled task leaves a processor that
nobody awaits but that still writes the message's decision.

*Actions.* `Enqueue`/`Rearm` (`_enqueue_processing_jobs`), `Claim` (claim and
start of the tick: the classification of expiry uses that moment), `Completes`,
`Fails`, `Raises`, `RecordGap` (the ends of the thread), `Settle`, `Defer` (with
the compare-and-set on the token), `LoopEnds`, `Crash`, `Restart`, `Tick`.

*Choices.* `Fails` merges two transactions of the recogniser that write the
same decision. One claiming transaction takes a row of each of several chats;
the model takes them one after the other in the order of the chats, which
reaches the same states. The decision's content is cut down to what the queue
reads or overwrites.

### ExecutionFence and AuthoritativeExecution

`ExecutionFence` has a gate that is open, held by one hand, or frozen. Hands
come in order; only the holder writes; a hand that let go never returns; a
frozen gate stays frozen.

`AuthoritativeExecution` follows one message. `dec`, `gen`, `dfailed`, `dauto`
are its decision row; `astat` and `effect` the attempt row of each generation,
`dead` the generations whose owner process is gone; `venue` is what the exchange
really did, which no code can read. `job`, `holder`, `charged`, `reclaimed`,
`aged` are what the execution sees of the queue; `open`, `ctx`, `ctxHolder` the
context reanalysis; `accepting` the process's registry. A thread runs
`guard → resume / assess → label → claim → admit → apply → run → record →
finalize` with the exits of each stage; `saw` is its boundary tracker's
knowledge, which may be *unknown* although `venue` is not.

The generations are the hands of the fence: the gate is *held* while the
decision is running, *frozen* when it is uncertain.

*Choices.* Leases are not counted: the scanner demands a dead owner besides an
expired lease. One instruction item stands for the instruction: the model makes
one write per generation, and deduplication between items is not modelled. How
often a job is retried belongs to `MessageQueue`.

### PositionGateway and ProtectionReplacement

*State.* One position. `open`, `version`, `live`, `grp`, `px` are the exchange's:
whether it is open, its version (every fill of a close and every outside change
makes a new one; the fingerprints of the code stand and fall with it), its
protection orders with their group and price. `made`, `filled`, `late`, `sends`
are the history of the writes: the order a write made, the closes that filled,
the writes still under way, how often a write was received. `status`, `basis`,
`order` are the columns of an intent (basis: the authority it was reserved
under), `ledger` the rows of the protection ledger, `ask` the price of a set.
Each caller has `pc`, the intent it is `at` and the answer it has `got`. A run has
its `old` orders, the groups left (`work`), what its last check named (`seen`),
what is left to cancel (`todo`), its `result`. `snap` and `reading` belong to the
reconciler, `lock` is the authority lock.

*Actions.* `Reserve`, `CheckOthers`, `Authorize`, `Write`, `Record` are one call of
`_submit_exact_position_write`; what the exchange does with the write is part of
`Write`, or of a later `Lands` when no answer came. `TakeSnapshot` and `Reconcile`
are `reconcile_submitted_position_mutation_intents`, whose pending orders are read
before the lock. `Adjust` and `Decide` start a run, `Resume` continues a
break-even after a crash; `CallSet`, `SetAnswer`, `ReadSet`, `ConfirmSet` are
`submit_exact_position_sltp` with its readback; `Scan`, `CancelNext`,
`CancelAnswer`, `ProveGone`, `Retire` are `_cancel_and_confirm` and
`_retire_ledger_rows`.

*Choices.* A group has one new order (the code places one per old row); the
price stands for price and size. Break-even's preflight of take profits and the
gate found shut before a run starts are left out, a gate found shut inside a call
is a block. The position identifiers a run releases are taken as released. The
hook before a submission and the re-arming of a rejected cancel, which only the
composite executor uses, and the bookkeeping of an undone rewrite are left out.

### ManagementClose

*State.* `kind`, `status`, `why` are columns of the batch, `leg` and `cid` of its
legs, `entry` the unfilled entry leg of its snapshot, `life` whether the
strategy's legs are still exactly the batch's, `regained` a history: they became so again
between W's look at the batch and its block. On the exchange: `xentry` is the
entry order, `pos` each position *relative to its plan* (untouched, in between, as
planned, below), `order` the close orders, `sends` the calls. Actors are M, the
thread that planned the batch and executes it at once; W, the management worker;
R, all reconcilers, one at a time. `lock` is the authority lock; `cur` and `ans`
are the executor's call under way, `tick` W's knowledge, `rpos`, `rfound`, `seen`
R's snapshot and the status its session read.

*Actions.* `Acquire`, `Open`, `Entries`, `Cancel`, `RecordCancel`, `Boundary`,
`Reserve`, `Send`, `Record`, `Finish` are `execute_management_batch` in its order,
under the lock. `ListWork`, `ClaimWork`, `CheckPositions`, `Judge`, `Recheck`,
`Block`, `ResolveRace`, `Expire` are W, none of it under the lock; it runs the
same executor. `SnapshotPositions`, `SnapshotOrders`, `ReadBatch`, `WriteBatch` are
`reconcile_strategy_management_batches`. `Fill`, `EntryFills`, `Reduced` are the
exchange and other writers, `Attribute`, `Disowned` and `Reowned` the ownership
reconciler, which takes a leg's ownership away in one round and may verify or restore
it in a later one (`execution_bindings.py:1085`), `Crash` the process.

*Choices.* One service process, as in production: the lock is in memory. R's
session reads and writes in separate moments and overwrites a status W changed in
between (`Writes`); the compare-and-set of a leg cannot fail, for legs change under
the lock only. Left out: batches with a contract or of protection only,
`break_even_by_market`, the protection phase after a partial close, protection
removed and restored around a close, explicit stops, entries deferred by
capability, closes of a subset, conflicting or ambiguous order identities. The
successor of a race is not modelled beyond the end of its predecessor. `Expire`
assumes that its sixty minutes outlast any execution or reconciliation that began
before them.

### PrivateStream and EntryAdmission

*State.* The exchange numbers the changes of the account; `world` is how many there
have been, `sock` the connection as it sees it (*asked*: the subscribe frame is sent
and has not taken effect; *dead*: up, and carrying nothing more), `wire` what it
pushed and nobody received. `inbox` and `gaps` are the tables
`deepcoin_ws_events` and `deepcoin_ws_connection_gaps`. `mem` is the memory of
`DeepcoinPrivateWsInbox` and of the resync it runs: where it is, `state`,
`converged`, the id of the row it opened (`gap`), the last event (`last`), whether
every read of this resync was complete (`whole`), the frame in hand, the baseline
of the silence probe and whether a frame outdated it. `snapshot` is what the second
REST snapshot of this connection showed. `item`, `contract` and `overdue` are the
columns of the instruction item, its execution contract and the passing of their
deadline (`reason` of an item is what `error_json` says of its end: that it expired,
or anything else); `run` is the thread that runs the item, `runs` counts the runs, `sent`
are those whose order exists.

`excused` is the limit of what the properties can ask for: the changes and rows that
the code gives up knowingly or cannot know about. A change is excused if the
subscription carried nothing when it happened (*dead*, or *asked* although the
second snapshot was already taken), if its frame could not be written, or if the
row of its interruption could not be. A row is excused if the process that
remembered it died or failed to close it.

*Actions.* `Start` and `Begin` are the head of `run_forever`; `Dial`,
`SnapshotBefore`, `Subscribe`, `SnapshotAfter`, `NotConverged`, `Converged` or
`ConvergedUnfiled`, `Baseline` are `_run_once` with its resync; `Receive`, `Persist`,
`ReadClosed`, `KeyExpires`, `Silence`, `ProbeKeeps`, `ProbeReconnects` are
`_read_loop`; `Down` the exception handlers of `run_forever`. `Claim` to `Record`
are one turn of `execute_message_instruction_items`: `Admit` or `Hold` the gate
before planning, `Stamp` the deadline, `ProjectDeferred` and `Defer` what follows
a refusal, `Prepare` and `Commit` the contract before the write, `Check` the gates
of the writer, `Send` the order. `Record` files what `ItemStatuses` allows: after an
answered order *submitted*, or *failed* if anything raised while the binding, the legs,
the protections or the authority were written; after a lost one *unknown* if the client
said so and *failed* otherwise. `Expire`, `Release` and `ExpireContract` are the
reconcilers, tried by one tick in this order but for different rows.

*Choices.* The contract mode is *shadow*, that of production
(`entry_admission_reconciler.py:64`): what a projection raises is swallowed. The count of open gap rows and the state are read in one step
(nothing awaits between them). The snapshot covers the whole account, and an equal
picture means nothing changed. Left out: the fold of frames into entity states, its
replay and reconcile wakes; duplicates; unresolved instruments and REST times that go
back, which end a resync like a failed read; the deferral of
adjacent entries by assembly attempts; the checks between gate and prepare; several legs.

## 5. The runs

Passing runs. *Bounds* are those of the `.cfg`; states are distinct states.

| run | instance | shows |
|---|---|---|
| `wc_overlap` | 2 workers, 2 rows, lease 1, clock to 2, 1 stop, 1 report; 2.8 million states | `AtMostOneRun`, `KeyedOnce`, `OneStory`, types: overlapping workers, lapsed leases, one interruption, repeated keyed requests, a reconciliation beside a settlement |
| `wc_single` | 1 worker, a protective and a frozen entry type, no keys, 2 stops, 1 report, fair; 254 thousand | `NoLateWriter`, `CallsFiled`, `PendingServed`, `ExecutingResolves`: what the single worker of production adds |
| `mq_lanes` | 2 messages of a chat, 2 slots, 2 attempts, two of: a stop, a slow processor, a re-arm; fair; 514 thousand | `ClaimHeld`, `ChatOrder`, `FailedIsEarned`, `FailedSaysSo`, `JobsKept`, `JobsSettle`, types |
| `ae_owned` | 2 threads, 2 generations, 1 crash, 1 lapse, 1 failed classification, 1 re-arm; 1.9 million (see below) | `OwnershipAgrees`, `OutcomeTruthful`, `WritesAreFiled`, `ExecutedOnce`, `RefinesFence`, `CallsFiled`, types |
| `ae_live` | 2 threads, 2 generations, 1 crash, 1 context reanalysis, fair; 0.67 million | `AttemptsResolve` |
| `pr_groups` | a break-even and an adjustment of both groups, 2 prices, 5 orders, 1 crash or 1 lost answer; 2.2 million | `StopsKept`, `TakeProfitsNeverDouble`, `SuccessMeansReplaced`, types |
| `pr_closes` | 3 closers, two of them with one key, 1 outside fill, 1 crash or 1 lost answer; 1.5 million | `CloseOnce`, `CallsFiled` |
| `mb_batch` | 2 legs, partial or full, with or without an unfilled entry, 1 trouble (a death, a lost answer, a change by others, a lost ownership, which may come back); fair; 0.43 million | `EndedIsSilent`, `EntryGoneFirst`, `BlockedSentNothing`, `SucceededIsTrue`, `CallsFiled`, `BatchEnds`, types |
| `ws_entries` | 1 entry with 2 runs, 1 other change, 2 troubles (failed reads or writes, closed or silenced sockets, expired keys, deaths); fair; 0.61 million (see below) | `Accounted` (`VouchedIsSeen`, `GapsOnRecord`), `CallsFiled`, `Progress` (`StreamRecovers`, `MissedIsFound`, `HeldEntryEnds`), types |

*Why the bounds are enough to be interesting.* Two of everything is what the
hazards need: two workers for an overlap, two rows under one key for a second
write, two messages for a lane, two threads for a race, two generations for a
supersession, two runs for a replacement of what another one has just placed, two
closes of one position and a third that shares a key, two legs for a batch that is
half done, two runs of an entry that is held once, two changes for frames that have
an order. One slow processor and one re-arm already give a token of a former
claim; two attempts give both branches of `Defer`; a clock of two lets a lease run
out once and be taken again. A lost answer, unlike a death, leaves the
caller alive to see it, so the gateway and the batch meet them one at a time
(`OneTrouble`, `MaxTroubles`); the stream, whose gap rows matter only when one trouble
follows another, meets two. The
theorems (section 7) lift the safety properties to every bound, so the runs only
have to show that the properties are not vacuous; each is violated by a mutant
in its own run. The bound is real for the liveness
properties alone.

Three safety properties are proved for every instance (section 7) and checked by no run: `NoReplay` of the worker commands, `OneHolderPerLane` and
`OrderIsFollowed` (`NeverReplayed`, `LanesHeld`, `OrdersFollowed`).

*Smaller state spaces.* `ae_owned` has no context reanalysis (`MaxContext = 0`), so nothing
reads the context's variables; its view `NoContext` identifies the states
that differ only there. It is used with safety properties only, none of which
mentions these variables. The view of `MCWorkerCommands`, also with safety properties only,
leaves out the history `cancelled`, how quiet a report was, reports about settled rows and
answers that were not final: no action reads them beyond what the view keeps, and the
invariants of `wc_overlap` do not mention them. The view `WhatMatters` of
`MCEntryAdmission` keeps of `sent`, `excused` and `runs` what steps and properties can
still tell apart. `StreamRecovers`, `MissedIsFound` and `HeldEntryEnds` are
written `[]<>~P` where `P ~> ~P` would say the same with a larger automaton. The
constraint `OneTrouble` is likewise used without liveness.

`ExecutedOnce` speaks of messages whose claim was not taken over and is checked
without contexts, because that is its condition: with either, two generations may
both be carried out (section 8). `NoLateWriter` is a property of one worker: with
two, a sweep by the second settles a row whose thread is alive in the first. It and
`CallsFiled` except the rows of adapters that were cancelled (`cancelled`): such a thread
is nobody's, and its row is settled beside it. `EndedIsSilent` and
`BlockedSentNothing` except the batches whose ownership came back behind W's look
(`regained`): section 8 says what happens then.
`StopsKept` has a condition too, `Borrowed`: section 8 says what happens without it.

`CHECK_DEADLOCK FALSE` is in every configuration because the systems stop for
good reasons: all requests answered and the clock at its bound, all messages
settled, the instruction carried out, the runs ended, the batch ended, the bounds of an
entry used up.

## 6. Fairness

* `WorkerCommands!FairSpec`: each worker's steps (the loop sleeps and polls, a
  killed process is restarted by its service manager) and the adapter threads
  (a call has a timeout). Time needs no fairness: both properties speak of what
  is already due. Nothing is assumed of requests, of stops or of the operator.
* `MessageQueue!FairSpec`: claiming (the loop polls), processors (threads end),
  `Restart` (`_supervise_restartable_background_task`), and time (backoff and
  leases run out). The stops are bounded: a message that kills its worker each
  time is never charged an attempt and is claimed for ever.
* `AuthoritativeExecution!FairSpec`: threads end, the scanner visits each
  attempt, and a process that stopped admitting executions ends. Nothing is
  assumed of the operator, of events or of context reanalyses.

* `ManagementClose!FairSpec`: the loops of W and R go on, an execution under way
  ends (its calls have timeouts), an order is filled. Executions get the lock
  with strong fairness: R, too, takes it again and again, but leaves it free
  between its rounds. Nothing is assumed of M's thread after a crash, of the entry
  order, or of other writers. `BatchEnds` accepts `partial_failed` as an end: nothing
  but a person ends it, although it still counts as active.
* `EntryAdmission!FairSpec`: the reader goes on (its calls have timeouts, and the
  service manager restarts the worker), the reconciler tick runs every few seconds,
  and deadlines pass. Nobody is obliged to run the message again, nothing is assumed
  of the exchange, and troubles are bounded: a stream that fails for ever never vouches.
  `StreamRecovers` excepts gap rows that nobody can close any more (section 8).
* `ProtectionReplacement` has no fairness: whether a replacement succeeds depends on
  the exchange, and no property asks for it.

## 7. The proofs

`tlapm` checks every obligation; the assumptions are those on the constants
(`CommandsAssumption`, `QueueAssumption`, `BackoffAssumption`,
`ExecutionAssumption`, `BoundsAssumption`, `RunsAssumption`, `CloseAssumption`,
`StreamAssumption`, `EntryAssumption`),
which say that the bounds are numbers, that leases, slots and attempts are
positive, that a backoff is a number (the provers know no powers), that runs and
closers are different callers, that a break-even replaces stops only, and that a
batch has legs. TLC evaluates them in every run.

| theorem | for every value of the constants |
|---|---|
| `FiledCallProofs!BooksAreTrue` | whoever implements `FiledCall` makes a call at most once and only from the file; *done* calls took effect; a *denied* one is off the file |
| `WorkerCommandsProofs!TypeCorrect`, `RunOnce`, `KeyedWrite`, `SameStory`, `NeverReplayed`, `LateWriterExcluded`, `QueueKeepsPromise`, `QueueBooks` | types; one invocation; one write per key; one story; past the boundary never claimable; with one worker, the row of a live writer that was not cancelled is executing, and the queue implements `FiledCall` |
| `MessageQueueProofs!TypeCorrect`, `ClaimsHeld`, `LanesHeld`, `ChatsInOrder`, `FailuresEarned`, `FailuresSaid`, `JobsKeepPromise` | types; a claim is held for its lease; one holder per lane; a chat is carried out in order; a failure is earned; a failed job does not promise a retry; every job implements `MessageJob` |
| `AuthoritativeExecutionProofs!TypeCorrect`, `OwnershipHeld`, `OutcomesTrue`, `WritesFiled`, `FenceKept`, `ExecutionKeepsPromise`, `ExecutionBooks`, `CarriedOutOnce`, `OnlyTheOwnerWrites`, `ExecutionKeepsJob` | types; decision and attempts agree; what is filed is true; what was written is filed; the execution implements `ExecutionFence` and `FiledCall`; the instruction is carried out once unless a claim was taken over, a job re-armed or a context re-analysed; only the newest attempt of a running decision writes; the queue as the execution models it obeys `MessageJob` |
| `ProtectionReplacementProofs!TypeTheorem`, `WriteOnceTheorem`, `RefusedTheorem`, `GatewayKeepsPromise`, `GatewayBooks`, `CloseOnceTheorem`, `StopsTheorem`, `TakeProfitsTheorem`, `SuccessTheorem` | types; one write per intent; a refused write has no effect; the gateway implements `FiledCall`; one fill per version of the position; an open position keeps a stop unless a confirmation was borrowed; take profits never double; success is true |
| `ManagementCloseProofs!BatchTypes`, `ClosesOnce`, `BatchKeepsPromise`, `BatchBooks`, `OrdersFollowed`, `EndedBatchIsSilent`, `EntryCancelledFirst`, `BlockedIsUntouched`, `SuccessIsTrue` | types; one call per close; the batch implements `FiledCall`; a leg with an order is never filed as untouched or failed; nothing is reserved or sent for a batch that has ended and a blocked one has no order, unless ownership came back behind the worker's look; the entry goes first; succeeded is true |
| `EntryAdmissionProofs!WellTyped`, `VouchedWasSeen`, `ChangesAccounted`, `EntryKeepsPromise`, `EntryBooks` | types; while the stream vouches and its socket is up, every change was seen or pushed; what was never persisted is filed, or is about to be; each run of the entry implements `FiledCall` |

**FiledCall.** Each refinement has the same two halves. The first says that
the initial state maps to `Init`. The second sorts the component's steps by what they
do to the mapped state: file, call, take effect, tell or nothing, under an invariant.
`FiledCallProofs!BooksAreTrue` says what follows from the promise. It is proved
once, over the abstract module; the theorems named `...Books` instantiate it
for each of the five.

**WorkerCommands.** None of the safety properties is inductive: that an adapter
runs once depends on rows past the boundary having left the statuses a claim
looks for. `IInv` adds `Blank` (unused rows are blank), `BoundaryHistory` (the
boundary is crossed together with the only invocation), `ThreadHistory` (a row
has one thread at most, which made every write of it), `ClaimHistory` (a worker past
its claim has a row, and at the settlement an outcome), `ReportHistory` (what a report
found is there, and a row settled by a report still says what it said), `KeyUnique` (a key names one row of
its type) and `AnswerKept` (a settled answer given out is still the row's
status). The lemma
`StatusMoves` lists the moves a status can make, `Growth` what only grows.
`NoLateWriter` is proved under `OneWorker`, the condition the deployment meets:
its worker awaits every thread whose adapter was not cancelled, and the row of such a
thread is executing (`ThreadsAwaited`), so it is not at the sweep that could settle it.
`QueueKeepsPromise` needs the same condition. Its point is a reconciliation from a
report that found nothing: a quiet report was read when the row was uncertain, so by
`ThreadsAwaited` no thread of the row was left, and none starts again, for the adapter
is invoked once; what it did not find will never be there (`QuietReports`). `QuietStep` is
that argument, and `ReportHistory` keeps what was told true.

**MessageQueue.** `ClaimHeld` says that a processor younger than its lease owns
its row. It needs to know that a processor's age and its row's agree (`Ages`):
then a reclaim, which asks for an old row, cannot hit it. That a settlement
releases nobody else's claim needs `Unique` and `Tokens` (one processor per
claim number, none ahead of its row). `FailedIsEarned` needs `Charged`: an
attempt is charged only by the claim's holder, with its copy of the count, after
a failure of its own, and `Spared`: an unsettled row has an attempt left.
`FailedSaysSo` needs `Unlapsed`: until two processors of a message overlapped,
whoever works on it holds it. `OneHolderPerLane` follows from `Lanes`, which is
about rows alone. The lemma `Shapes` reduces the steps to six shapes; `Frame`
then says once, for all of them but the claim, that each processor comes from one
that was there and holds its claim exactly if that one did. The invariants about
processors follow from `Frame` alone, those about rows from the shapes.

`ChatOrder` is about the step that carries a message out. Whoever takes it works on the
message and, unless its claims overlapped, holds the row (`Unlapsed`); a row that is
held has no live row of its chat before it but one armed later (`Lanes`). `JobsKept`
needs one more invariant, `Numbered`: claim numbers count from one, so none of them is
taken for the 0 that stands for nobody. Each of the six shapes is then an action of
`MessageJob` for the message it is about and a stutter for every other: that the
holder's answer is the holder's is `HolderIs`, that a late one changes nothing of the job but the
set of threads is `Unique`. The ends of a loop and of the process take the holder away
and keep the row, which is `LetGo`, for all messages at once.

**AuthoritativeExecution.** `IInv` adds to the properties `Fresh` (a generation
not yet minted has no row, one that has not crossed no history), `Pending` (a
pending decision's generation is unclaimed), `HasLatest`, `Filed` and `Backed`
(what each kind of filing says of the exchange), `Exclusive` (threads hold minted
generations, each its own) and `Holding` (the row at each stage of its owner, and
what the owner's tracker saw of the exchange). `StepsAreRowSteps` reduces
every step to one of eleven things that can happen to the rows (abandon, mint,
take, mark, send, file, refuse, resolve, close, orphan, nothing), and `FenceStep`
maps each of those to a step of `ExecutionFence` or to a stutter.
`ExecutedOnce` needs an invariant of its own, `OnceInv`, under the property's condition
(`Quiet`): at most one thread is at work (`Alone`), and once an instruction was carried
out it was for the newest attempt, whose row blocks the message or shows the success,
unless the message expired and no thread will look again (`Shown`); the job starts as a
retry from then on, so its guard lets no thread reach an assessment (`Past`).
`ExecutionKeepsPromise` needs nothing new: each of the eleven row steps is one of
`FiledCall` or none. What it needs is `NoEffectStays`: an attempt once filed as without
effect stays so, and `Backed`: it never wrote. `OnlyTheOwnerWrites` spells out what `FenceKept` means for the rows.
`ExecutionKeepsJob` is about the queue inside this model: the steps that start, settle,
defer or lose the job's thread are its actions. It needs `HolderWorks`, an invariant of its
own: the holder is a thread at work, and there is none unless the job is claimed. So the queue and the
small queue inside the execution's model obey one protocol: the second does nothing a
queue that keeps its promise could not do. That it can do everything the first can is
not proved; it is what the composition of section 3 would add.

**ProtectionReplacement.** `WriteOnce` rests on `AtOK` (which kind of intent a caller is at, at
each step) and `SendInv` (an intent somebody is about to write is *submitting*,
by nobody else, and has not been sent; a sent one never returns to *reserved*).
`EffectInv` ties the exchange to the statuses: a refused intent made no order, filled nothing and
is not under way. `CloseInv` is the argument of the check made after the
reservation: two closes of one version cannot both be past it. `OrderInv`, `GotInv`
and `MadeInv` say which order an intent or an answer stands for; `WorkInv` what a
run has left. `StopInv` is the argument of the stops: orders are numbered as they are
placed, what a run places is newer than what it replaces, and above every stop
whose cancel anybody has asked for there is a newer one, unless a confirmation
was borrowed. The newest stop can therefore not be under cancellation. `TpInv` and
`DoneInv` say what `ProveGone` has established and nobody undoes: an order that is
gone does not come back. `GatewayKeepsPromise` uses `SendInv` and `EffectInv` and one more
invariant, `SettledInv`: a confirmed close has filled. The steps are sorted by two lemmas,
one about the steps that touch the exchange (`EffectsOf`) and one that says the others leave
it alone (`NoEffects`); `WordsStand` says that no step takes a word back.

**ManagementClose.** `Places` and `LockInv` say who can be where, and that whoever
is inside the executor or the reconciler holds the lock; `CallInv` ties the call
under way to its leg. `SendInv` carries `SentOnce` and `OrderIsFollowed`: a planned
leg has neither a call nor an order, and leaves *planned* before its call.
`EntryInv` says from which step on the entry's order can no longer fill. `DoneInv` is
about the snapshot: what R read of a position or an order can only have gone
further by the time it is applied, so a leg confirmed from the snapshot is
confirmed by the exchange. `PreInv` says how far the unlocked look before a block is
safe: whoever is past the executor's own check owns the entry legs, and W only comes to the
look when they are lost; so no executor can be about to send, unless the reconciler gave
them back since. It does so only while nobody holds the lock, that is while an
execution is still before its check, and it marks the batch (`regained`) if W is
behind its own. The same invariant keeps R from writing over a batch that is *ready*.
`EndedIsSilent` adds `SilentInv`: a batch is only ended under an execution that has
not passed the check of its entry legs, and which that check stops (the entries are no
longer owned, or the unfilled one is active), or the batch is marked.
`BatchKeepsPromise` adds `ReservedHasId`: a reserved leg, the only kind that is sent,
has its client id. `BooksStep` says that every other step than a reservation or a call
leaves ids, orders and calls alone and takes back neither a failed leg nor a succeeded
batch (`BooksKept`); `SuccessIsTrue` does the rest.

**EntryAdmission.** `SeesAll` carries what the stream vouches for from the second
snapshot to the end of the connection: a change it did not show can only come
after the subscription, and then it is pushed, or excused. `ToBeFiled` is the argument of the gap rows: frames are received and
written in the order they are pushed (`InOrder`), and a socket loses what it pushed
last, so whatever is lost is later than everything persisted; `RowsReach` says that
the row filed next reaches back to the last change persisted, and therefore covers it.
`Places` ties the reader's place to its state and its connection. The lemma
`GapStartFiles` is about `_record_gap_start` alone; `UntouchedKeeps` and `ChangeKeeps`
are all that the entry's steps need, since they read the stream and write nothing to
it but the change their order makes. `EntryKeepsPromise` needs `OrderInv`: only
the last run can have an order, it has none while the item waits, has expired or its thread is
before the call, and has one if the item is *submitted*. A run that begins therefore
finds no order behind it: nothing but a refusal before the call puts an item back, and what
the call may have placed ends as *submitted*, *failed* or *unknown*, which nobody runs
again. `OrderStep` sorts every step into one of
seven things that can happen to the entry (aside, begins, goes on, gives up, stops,
sends, records). The order is a flag there, so a second call would be a stutter of `FiledCall`;
`OrderInv` excludes it (no thread is at its call once the order was sent).

*Only model-checked:* liveness (`PendingServed`, `ExecutingResolves`,
`JobsSettle`, `AttemptsResolve`, `BatchEnds`, `Progress`: outside the prover's reach). Every
other property of the passing runs is proved for all values of the constants.

## 8. Disagreements found

Each is a run that TLC ends with a counterexample; `PROJECT.json` quotes the
lines.

* `mq_expired`: expiry looks only at the message's age; a message carried out but
  not settled in time is recorded expired, "not traded".
* `ae_replay`: the guard against replaying a success is evaluated once, before the
  assessment; a retry may execute after a context reanalysis of the same message
  succeeded.
* `pr_borrowed`: a set intent without an order id is confirmed from the only
  pending order that looks like it, whoever placed it; a replacement whose own stop
  was never placed then cancels the old ones. The run ends with an open position
  without a stop. Its `Guide` constraint only directs the search.

The models contain further behaviours that disagree with a text of the repository and
have no run of their own:

* Reconciliation "must never invent submission evidence for planned legs"
  (`strategy_management_reconciliation.py:274`), but only a batch whose legs are all
  planned is kept from it: after a crash behind the first reservation `_reconcile_leg`
  goes on to the position check (`:903`) and files the second leg *submitted*.
* The design of the worker commands says that a lost response is *uncertain*
  (`docs/archive/plans/2026-08-22-phase-6a-durable-worker-command-boundary-design.md:123`);
  the executor settles every exception of the adapter *failed*
  (`worker_command_executor.py:280`), and swallows a cancellation there.
* A command is settled *succeeded* without any write when there was nothing to process or
  the command only reads (`worker_command_executor.py:484`, `:377`): the word is about the
  adapter, and a browser must not take it for an order.
* `reconcile_uncertain_worker_command` asks that the row be uncertain when the evidence is
  applied, nothing asks it when the evidence is collected: a report collected while the
  command was executing, or of a row whose cancelled adapter still runs, can settle the row
  *failed* although its write follows.
* "Make deterministic pre-submit failures durable without guessing unknowns"
  (`strategy_management_worker.py:1114`): the look at the legs and the block are not under
  the lock. W looks because the entry legs are not exactly the batch's; when a reconcile
  round gives them back (`execution_bindings.py:1091` *ownership_verified*, `:1128`
  *ownership_restored*) an execution that waited for the lock passes its own check, and
  the batch is blocked as never submitted while its close is reserved and sent. `Reowned`
  models the rounds; without `~regained`, TLC finds this in `mb_batch` for
  `BlockedSentNothing` and for `EndedIsSilent`.
* An item of an entry is filed *failed* although its order exists: what raises after
  the answer, while binding, legs, the post-send transaction or the authority's release are
  written (`recovery_live_submit.py:1486`, `:1730`, `:2109`, `:1136`), reaches
  `auto_trade_execution.py:519`. It is filed *failed* although the order may exist when
  the call raised anything but the client's own unknown outcome
  (`recovery_live_submit.py:1421`, `:1615`) or a trigger order was answered without an id
  (`:2495`), although the comment at `auto_trade_execution.py:515` asks that such a boundary
  be seen as unknown. *failed* means "not to be run again", not "not ordered".
* A context reanalysis that raised or went stale forgets that it was a retry
  (`context_resolution_worker.py:480`, `:662`) and may execute a message closed without
  a write, which `authoritative_execution_attempts.py:478` says is never retried.
* "All-planned executing legs prove the crash happened before the durable per-leg
  reservation" (`strategy_management_worker.py:812`) is false while M's thread is
  alive: W's check then races with a living execution. The lock and `SentOnce` hold,
  but W may freeze the batch under it, and its finalization fails.
* R freezes a merely claimed full exit with an unfilled entry as *close not reserved
  after deferred cancel* (`strategy_management_reconciliation.py:259`), although
  nothing was cancelled; the timeout ends it, unexecuted.
* Whoever loses the claim of a ready batch in `execute_management_batch` goes on if
  the batch is executing by then, one execution after the other.
* `partial_failed` is active and nothing ends it.
* `_record_gap_end` forgets the row even when it could not close it
  (`deepcoin_private_ws.py:1120`), and a restarted process opens a new row without
  looking for one its predecessor left: such a row is open for ever, and entries are
  refused with `open_gap` until a person closes it.
* "Anything other than an affirmative answer -- changed, unreadable, no baseline --
  still reconnects" (`deepcoin_private_ws.py:1345`): a changed picture is kept, as the
  next baseline, when a frame came since the last one. A change the socket did not push
  in that interval is never missed. A capture of the baseline that raises leaves
  the old mark of a frame standing, with the same effect.
* Events beyond the replay limit are "left unprocessed" and block convergence
  (`deepcoin_ws_resync.py:47`); nothing checks that.
* The second snapshot "closes the race window between the first snapshot and the
  subscription taking effect" (`deepcoin_ws_resync.py:541`), but nothing waits for the
  subscription to be acknowledged: it may be taken before that (`Deaf`).
* A frame that could not be written is logged and opens no gap.
* Releasing an entry held for the stream only clears its delay
  (`entry_admission_reconciler.py:390`); unless something runs the message again it
  waits for its deadline.
* `instruction_execution_reconciliation.py:147` expires a deferred contract without its
  item. When the item was being run or had been updated within five seconds, the other
  reconciler skipped it, and finds no deferred contract at its next tick: the item stays
  *pending*, which `web_app.py:5632` says must not happen.
* In shadow mode a contract that expired between `prepare`'s check and its
  compare-and-set does not stop the order.

## 9. What is not covered

* Of the modelled parts: the queue's stall count and its adoption of rows of the
  retired shadow pipeline; notifications; the claim on `message_evidence` and the
  execution path without an owner; several instruction items in one message; the
  content of decisions, prices and orders.
* The parts of section 2 that are not in bold, in the order of section 3, and of the
  modelled parts the choices listed in section 4. Entry revisions and wake-ups,
  deletion exits and locks are protocols a model checker could take
  up; the largest part of the code by lines (parsing, planning and sizing,
  recognition, reports, web pages, the command line, monitoring) is data rather than
  control: text, prices and page queries, which a model would only transcribe.
* Several positions of one account at once: the gateway's promises are per position
  and nothing in its code couples two of them.
* The database is assumed to serialise its writing transactions, as SQLite does;
  a transaction that fails as locked is an exception of its caller (`TickFails`,
  `Raises`, `Breaks`).
* A process killed in the middle of a transaction leaves it undone.

## 10. How to run

In this directory, for a row of `runs` in `PROJECT.json`:

    tlc -workers 2 -config MessageQueue_lanes.cfg MCMessageQueue.tla
    tlapm MessageQueueProofs.tla

The longest runs take about a minute on two cores, each proof module a few minutes at most.
