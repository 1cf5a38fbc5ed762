------------------------ MODULE WorkerCommandsProofs ------------------------
(***************************************************************************)
(* What the command queue guarantees for every number of rows, workers,    *)
(* clients and crashes.  The inductive invariant ties the durable boundary *)
(* of a row to the history of its adapter: how often it was invoked, which *)
(* of its threads are alive and what they wrote.                           *)
(***************************************************************************)
EXTENDS WorkerCommands, TLAPS

\* A row that was never enqueued has no past.
Blank ==
  \A c \in Cmds : c > rows => status[c] = "absent" /\ ~boundary[c]

\* The boundary is crossed once, with the only invocation of the adapter, and
\* the row has left the statuses a claim looks for.
BoundaryHistory ==
  \A c \in Cmds :
    /\ runs[c] = (IF boundary[c] THEN 1 ELSE 0)
    /\ boundary[c] => status[c] \in {"executing"} \cup Terminal

\* A row has one thread at most, and that thread has made every write of it.
ThreadHistory ==
  /\ \A t \in threads :
       /\ boundary[t.cmd]
       /\ t.wrote <=> writes[t.cmd] > 0
       /\ \A u \in threads : u.cmd = t.cmd => u = t
  /\ \A c \in Cmds : writes[c] \in {0, 1} /\ (writes[c] > 0 => boundary[c])

\* A worker past its claim names a row; at the settlement it has an outcome.
ClaimHistory ==
  \A w \in Workers :
    /\ pc[w] \in {"cross", "adapter", "settle"} => held[w] \in Enqueued
    /\ pc[w] = "settle" => outcome[w] \in Settled

\* A report is about a row past its boundary, what it found is there, and a row
\* settled by one says what the report said.
ReportHistory ==
  /\ \A r \in reports : boundary[r.cmd] /\ (r.found => writes[r.cmd] > 0)
  /\ \A r \in reconciled : status[r.cmd] = IF r.found THEN "succeeded" ELSE "failed"

\* Keys name one row of their type.
KeyUnique ==
  \A c, d \in Enqueued :
    spec[c].type = spec[d].type /\ spec[c].key = spec[d].key /\ spec[c].key # None
      => c = d

\* A settled answer that was given out is still the row's status.
AnswerKept ==
  \A a \in told : a.answer \in Settled => status[a.cmd] = a.answer

IInv ==
  /\ TypeOK /\ Blank /\ BoundaryHistory /\ ThreadHistory /\ ClaimHistory
  /\ KeyUnique /\ AnswerKept /\ ReportHistory

-----------------------------------------------------------------------------
(* One lemma per part of the invariant.  In each, the actions that do not  *)
(* touch the part's variables are one case.                                *)

LEMMA JobsStep == IInv /\ [Next]_vars => JobsOK'
<1> SUFFICES ASSUME IInv, [Next]_vars PROVE JobsOK'
  OBVIOUS
<1>0. JobsOK /\ WorkersOK /\ ClaimHistory
  BY DEF IInv, TypeOK
<1>1. ASSUME NEW k \in Clients, NEW type \in Types, NEW key \in Keys \cup {None},
             NEW req \in Reqs, EnqueueNew(k, type, key, req)
      PROVE  JobsOK'
  <2>1. rows + 1 \in 1..MaxCmds /\ rows' \in 0..MaxCmds
    BY <1>0, <1>1, CommandsAssumption DEF EnqueueNew, JobsOK
  <2>2. [type |-> type, key |-> key, req |-> req]
          \in [type : Types \cup {None}, key : Keys \cup {None}, req : Reqs \cup {None}]
    OBVIOUS
  <2> QED
    BY <1>0, <1>1, <2>1, <2>2 DEF EnqueueNew, JobsOK, Cmds
<1>2. ASSUME NEW w \in Workers, SweepExpired(w) PROVE JobsOK'
  <2>1. PICK lost : /\ status' = [c \in Cmds |-> IF c \in lost THEN "uncertain" ELSE status[c]]
                    /\ token' = [c \in Cmds |-> IF c \in lost THEN 0 ELSE token[c]]
                    /\ lease' = [c \in Cmds |-> IF c \in lost THEN 0 ELSE lease[c]]
    BY <1>2 DEF SweepExpired
  <2>2. UNCHANGED <<rows, spec, attempts, boundary>>
    BY <1>2 DEF SweepExpired
  <2> QED
    BY <1>0, <2>1, <2>2 DEF JobsOK, Terminal
<1>3. ASSUME NEW w \in Workers, Claim(w) PROVE JobsOK'
  <2>1. PICK c \in Enqueued :
               /\ status' = [status EXCEPT ![c] = "claimed"]
               /\ attempts' = [attempts EXCEPT ![c] = @ + 1]
               /\ token' = [token EXCEPT ![c] = attempts[c] + 1]
               /\ lease' = [lease EXCEPT ![c] = now[w] + Lease]
    BY <1>3 DEF Claim
  <2>2. c \in Cmds /\ now[w] + Lease \in Nat
    BY <1>0, CommandsAssumption DEF Enqueued, JobsOK, WorkersOK, Cmds
  <2>3. UNCHANGED <<rows, spec, boundary>>
    BY <1>3 DEF Claim
  <2> QED
    BY <1>0, <2>1, <2>2, <2>3 DEF JobsOK
<1>4. ASSUME NEW w \in Workers, Cross(w) PROVE JobsOK'
  BY <1>0, <1>4 DEF Cross, JobsOK, WorkersOK, Cmds
<1>5. ASSUME NEW w \in Workers, Settle(w) PROVE JobsOK'
  <2>1. held[w] \in Cmds /\ outcome[w] \in Settled
    BY <1>0, <1>5 DEF Settle, ClaimHistory, WorkersOK, Enqueued
  <2>2. CASE UNCHANGED <<status, token, lease>>
    <3>1. UNCHANGED <<rows, spec, attempts, boundary>>
      BY <1>5 DEF Settle
    <3> QED
      BY <1>0, <2>2, <3>1 DEF JobsOK
  <2>3. CASE /\ status' = [status EXCEPT ![held[w]] = outcome[w]]
             /\ token' = [token EXCEPT ![held[w]] = 0]
             /\ lease' = [lease EXCEPT ![held[w]] = 0]
    <3>1. UNCHANGED <<rows, spec, attempts, boundary>>
      BY <1>5 DEF Settle
    <3> QED
      BY <1>0, <2>1, <2>3, <3>1 DEF JobsOK, Terminal
  <2> QED
    BY <1>5, <2>2, <2>3 DEF Settle
<1>6. ASSUME NEW c \in Cmds, Reconcile(c) PROVE JobsOK'
  BY <1>0, <1>6 DEF Reconcile, JobsOK, Terminal, Settled
<1>7. CASE UNCHANGED <<rows, jobVars>>
  BY <1>0, <1>7 DEF JobsOK, jobVars
<1> QED
  BY <1>1, <1>2, <1>3, <1>4, <1>5, <1>6, <1>7, SMTT(60)
  DEF Next, Web, WorkerStep, Failure, Threads, vars, Reattach, Poll, GiveUp, StartTick,
      ClaimNothing, LoseClaim, AdapterReturns, AdapterRaises, Exit, Restart, Crash, Down,
      TickFails, Cancel, CancelInAdapter, ThreadWrites, OrphanEnds, ReadEvidence, Tick

LEMMA WorkersStep == IInv /\ [Next]_vars => WorkersOK'
<1> SUFFICES ASSUME IInv, [Next]_vars PROVE WorkersOK'
  OBVIOUS
<1>0. JobsOK /\ WorkersOK /\ clock \in Nat
  BY DEF IInv, TypeOK
<1>1. ASSUME NEW w \in Workers,
             AdapterReturns(w) \/ AdapterRaises(w) \/ CancelInAdapter(w)
      PROVE  WorkersOK'
  <2>1. /\ \E how \in Settled : AdapterEnds(w, how)
        /\ stopping' = stopping \/ stopping' = [stopping EXCEPT ![w] = TRUE]
    BY <1>1 DEF AdapterReturns, AdapterRaises, CancelInAdapter, Settled
  <2> QED
    BY <1>0, <2>1, ZenonT(60) DEF AdapterEnds, WorkersOK
<1>2. ASSUME NEW w \in Workers, StartTick(w) \/ SweepExpired(w) \/ Cross(w)
      PROVE  WorkersOK'
  <2>1. /\ \E where \in {"sweep", "claim", "adapter"} : pc' = [pc EXCEPT ![w] = where]
        /\ now' = now \/ now' = [now EXCEPT ![w] = clock]
        /\ UNCHANGED <<held, heldToken, outcome, stopping>>
    BY <1>2 DEF StartTick, SweepExpired, Cross
  <2> QED
    BY <1>0, <2>1 DEF WorkersOK
<1>3. ASSUME NEW w \in Workers, Claim(w) PROVE WorkersOK'
  <2>1. PICK c \in Enqueued : /\ held' = [held EXCEPT ![w] = c]
                              /\ heldToken' = [heldToken EXCEPT ![w] = attempts[c] + 1]
    BY <1>3 DEF Claim
  <2>2. c \in Cmds /\ attempts[c] + 1 \in Nat
    BY <1>0, CommandsAssumption DEF Enqueued, JobsOK, Cmds
  <2> QED
    BY <1>0, <1>3, <2>1, <2>2 DEF Claim, WorkersOK
<1>4. ASSUME NEW w \in Workers,
             \/ ClaimNothing(w) \/ LoseClaim(w) \/ Settle(w) \/ TickFails(w)
             \/ Restart(w) \/ Cancel(w) \/ Crash(w) \/ Exit(w)
      PROVE  WorkersOK'
  <2>1. /\ \E where \in {"idle", "stopped", "down"} : GoTo(w, where)
        /\ \/ UNCHANGED stopping
           \/ \E b \in BOOLEAN : stopping' = [stopping EXCEPT ![w] = b]
    BY <1>4 DEF ClaimNothing, LoseClaim, Settle, TickFails, Restart, Cancel, Crash, Exit,
                Down, GoIdle
  <2> QED
    BY <1>0, <2>1 DEF GoTo, WorkersOK
<1>5. CASE UNCHANGED workerVars
  BY <1>0, <1>5 DEF WorkersOK, workerVars
<1> QED
  BY <1>1, <1>2, <1>3, <1>4, <1>5, ZenonT(60)
  DEF Next, Web, WorkerStep, Failure, Threads, vars, EnqueueNew, Reattach, Poll, GiveUp,
      ThreadWrites, OrphanEnds, ReadEvidence, Reconcile, Tick

LEMMA EffectsStep == IInv /\ [Next]_vars => EffectsOK'
<1> SUFFICES ASSUME IInv, [Next]_vars PROVE EffectsOK'
  OBVIOUS
<1>0. EffectsOK /\ WorkersOK /\ ClaimHistory /\ rows \in 0..MaxCmds
  BY DEF IInv, TypeOK, JobsOK
<1>1. ASSUME NEW w \in Workers, Cross(w) PROVE EffectsOK'
  <2>1. held[w] \in Cmds
    BY <1>0, <1>1, CommandsAssumption DEF Cross, ClaimHistory, Enqueued, Cmds
  <2>2. [cmd |-> held[w], worker |-> w, wrote |-> FALSE]
          \in [cmd : Cmds, worker : Workers, wrote : BOOLEAN]
    BY <2>1
  <2>3. threads' \subseteq [cmd : Cmds, worker : Workers, wrote : BOOLEAN]
    BY <1>0, <1>1, <2>2 DEF Cross, EffectsOK
  <2>4. runs' \in [Cmds -> Nat] /\ writes' \in [Cmds -> Nat]
    BY <1>0, <1>1, <2>1 DEF Cross, EffectsOK
  <2> QED
    BY <2>3, <2>4 DEF EffectsOK
<1>2. ASSUME NEW t \in threads, ThreadWrites(t) PROVE EffectsOK'
  <2>1. t \in [cmd : Cmds, worker : Workers, wrote : BOOLEAN]
    BY <1>0 DEF EffectsOK
  <2>2. [cmd |-> t.cmd, worker |-> t.worker, wrote |-> TRUE]
          \in [cmd : Cmds, worker : Workers, wrote : BOOLEAN]
    BY <2>1
  <2>3. threads' \subseteq [cmd : Cmds, worker : Workers, wrote : BOOLEAN]
    BY <1>0, <1>2, <2>2 DEF ThreadWrites, EffectsOK
  <2>4. runs' \in [Cmds -> Nat] /\ writes' \in [Cmds -> Nat]
    BY <1>0, <1>2, <2>1 DEF ThreadWrites, EffectsOK
  <2> QED
    BY <2>3, <2>4 DEF EffectsOK
<1>3. CASE threads' \subseteq threads /\ UNCHANGED <<runs, writes>>
  BY <1>0, <1>3 DEF EffectsOK
<1> QED
  BY <1>1, <1>2, <1>3, ZenonT(60)
  DEF Next, Web, WorkerStep, Failure, Threads, vars, EnqueueNew, Reattach, Poll, GiveUp,
      StartTick, SweepExpired, Claim, ClaimNothing, LoseClaim, AdapterReturns,
      AdapterRaises, Settle, Exit, Restart, Crash, Down, TickFails, Cancel,
      CancelInAdapter, OrphanEnds, ReadEvidence, Reconcile, Tick, effectVars

LEMMA ClientsStep == IInv /\ [Next]_vars => ClientsOK' /\ clock' \in Nat /\ stops' \in Nat
<1> SUFFICES ASSUME IInv, [Next]_vars
             PROVE  ClientsOK' /\ clock' \in Nat /\ stops' \in Nat
  OBVIOUS
<1>0. ClientsOK /\ rows \in 0..MaxCmds /\ clock \in Nat /\ stops \in Nat
  BY DEF IInv, TypeOK, JobsOK
<1>1. ClientsOK'
  <2>1. ASSUME NEW k \in Clients, NEW type \in Types, NEW key \in Keys \cup {None},
               NEW req \in Reqs, EnqueueNew(k, type, key, req) \/ Reattach(k, type, key, req)
        PROVE  ClientsOK'
    <3>1. \E c \in Cmds : waiting' = [waiting EXCEPT ![k] = c]
      BY <1>0, <2>1, CommandsAssumption DEF EnqueueNew, Reattach, Holders, Enqueued, Cmds
    <3>2. UNCHANGED told
      BY <2>1 DEF EnqueueNew, Reattach
    <3> QED
      BY <1>0, <3>1, <3>2 DEF ClientsOK
  <2>2. ASSUME NEW k \in Clients, Poll(k) PROVE ClientsOK'
    <3>1. waiting[k] \in Cmds
      BY <1>0, <2>2 DEF Poll, ClientsOK
    <3> QED
      BY <1>0, <2>2, <3>1 DEF Poll, ClientsOK
  <2>3. ASSUME NEW k \in Clients, GiveUp(k) PROVE ClientsOK'
    BY <1>0, <2>3 DEF GiveUp, ClientsOK
  <2>4. CASE UNCHANGED clientVars
    BY <1>0, <2>4, SMTT(60) DEF ClientsOK, clientVars
  <2> QED
    BY <2>1, <2>2, <2>3, <2>4
    DEF Next, Web, WorkerStep, Failure, Threads, vars, StartTick, SweepExpired, Claim,
        ClaimNothing, Cross, LoseClaim, AdapterReturns, AdapterRaises, Settle, Exit,
        Restart, Crash, Down, TickFails, Cancel, CancelInAdapter, ThreadWrites,
        OrphanEnds, ReadEvidence, Reconcile, Tick
<1>2. clock' \in {clock, clock + 1} /\ stops' \in {stops, stops + 1}
  BY ZenonT(60) DEF Next, Web, WorkerStep, Failure, Threads, vars, EnqueueNew, Reattach, Poll, GiveUp,
         StartTick, SweepExpired, Claim, ClaimNothing, Cross, LoseClaim, AdapterReturns,
         AdapterRaises, Settle, Exit, Restart, Crash, Down, TickFails, Cancel,
         CancelInAdapter, ThreadWrites, OrphanEnds, ReadEvidence, Reconcile, Tick
<1> QED
  BY <1>0, <1>1, <1>2

\* The durable history: what a row's status and boundary say of its runs.
LEMMA HistoryStep == IInv /\ [Next]_vars => Blank' /\ BoundaryHistory'
<1> SUFFICES ASSUME IInv, [Next]_vars PROVE Blank' /\ BoundaryHistory'
  OBVIOUS
<1>0. JobsOK /\ EffectsOK /\ WorkersOK /\ ClaimHistory /\ Blank /\ BoundaryHistory
  BY DEF IInv, TypeOK
<1>1. ASSUME NEW k \in Clients, NEW type \in Types, NEW key \in Keys \cup {None},
             NEW req \in Reqs, EnqueueNew(k, type, key, req)
      PROVE  Blank' /\ BoundaryHistory'
  BY <1>0, <1>1 DEF EnqueueNew, JobsOK, Cmds, Blank, BoundaryHistory, effectVars
<1>2. ASSUME NEW w \in Workers, SweepExpired(w) PROVE Blank' /\ BoundaryHistory'
  BY <1>0, <1>2
  DEF SweepExpired, Sweepable, Enqueued, JobsOK, Cmds, Terminal, Blank, BoundaryHistory,
      effectVars
<1>3. ASSUME NEW w \in Workers, Claim(w) PROVE Blank' /\ BoundaryHistory'
  <2>1. PICK c \in Enqueued : /\ Oldest(c, now[w])
                              /\ status' = [status EXCEPT ![c] = "claimed"]
    BY <1>3 DEF Claim
  <2>2. c \in Cmds /\ c <= rows
    BY <1>0, CommandsAssumption DEF Enqueued, JobsOK, Cmds
  <2>3. ~boundary[c]
    BY <1>0, <2>1, <2>2 DEF Oldest, Claimable, Terminal, Settled, BoundaryHistory
  <2>4. UNCHANGED <<rows, boundary, runs>>
    BY <1>3 DEF Claim, effectVars
  <2>5. \A d \in Cmds : d # c => status'[d] = status[d]
    BY <1>0, <2>1 DEF JobsOK
  <2> QED
    BY <1>0, <2>2, <2>3, <2>4, <2>5 DEF JobsOK, Cmds, Blank, BoundaryHistory
<1>4. ASSUME NEW w \in Workers, Cross(w) PROVE Blank' /\ BoundaryHistory'
  <2>1. held[w] \in Cmds /\ held[w] <= rows /\ ~boundary[held[w]]
    BY <1>0, <1>4, CommandsAssumption DEF Cross, Owns, ClaimHistory, JobsOK, WorkersOK, Enqueued, Cmds
  <2> QED
    BY <1>0, <1>4, <2>1, SMTT(60) DEF Cross, JobsOK, EffectsOK, Cmds, Blank, BoundaryHistory
<1>5. ASSUME NEW w \in Workers, Settle(w) PROVE Blank' /\ BoundaryHistory'
  <2>1. /\ held[w] \in Cmds /\ held[w] <= rows
        /\ outcome[w] \in Settled
    BY <1>0, <1>5, CommandsAssumption DEF Settle, ClaimHistory, JobsOK, WorkersOK, Enqueued, Cmds
  <2>2. /\ status' = status \/ status' = [status EXCEPT ![held[w]] = outcome[w]]
        /\ UNCHANGED <<rows, boundary, runs>>
    BY <1>5 DEF Settle, effectVars
  <2>3. \A d \in Cmds : status'[d] = status[d] \/ (d = held[w] /\ status'[d] \in Settled)
    BY <1>0, <2>1, <2>2 DEF JobsOK
  <2>4. Blank'
    BY <1>0, <2>1, <2>2, <2>3 DEF JobsOK, Cmds, Blank
  <2>5. BoundaryHistory'
    BY <1>0, <2>2, <2>3 DEF Terminal, BoundaryHistory
  <2> QED
    BY <2>4, <2>5
<1>6. ASSUME NEW c \in Cmds, Reconcile(c) PROVE Blank' /\ BoundaryHistory'
  <2>1. /\ c <= rows
        /\ status[c] = "uncertain"
    BY <1>0, <1>6 DEF Reconcile, JobsOK, Cmds, Blank
  <2>2. PICK answer \in Settled : status' = [status EXCEPT ![c] = answer]
    BY <1>6 DEF Reconcile, Settled
  <2>3. UNCHANGED <<rows, boundary, runs>>
    BY <1>6 DEF Reconcile, effectVars
  <2>4. Blank'
    BY <1>0, <2>1, <2>2, <2>3 DEF JobsOK, Cmds, Blank
  <2>5. BoundaryHistory'
    <3>1. \A d \in Cmds : status'[d] \in {status[d], answer}
      BY <1>0, <2>2 DEF JobsOK
    <3> QED
      BY <1>0, <3>1, <2>3 DEF Terminal, BoundaryHistory
  <2> QED
    BY <2>4, <2>5
<1>7. CASE UNCHANGED <<rows, status, boundary, runs>>
  BY <1>0, <1>7 DEF Blank, BoundaryHistory
<1> QED
  BY <1>1, <1>2, <1>3, <1>4, <1>5, <1>6, <1>7
  DEF Next, Web, WorkerStep, Failure, Threads, vars, Reattach, Poll, GiveUp, StartTick,
      ClaimNothing, LoseClaim, AdapterReturns, AdapterRaises, Exit, Restart, Crash, Down,
      TickFails, Cancel, CancelInAdapter, ThreadWrites, OrphanEnds, ReadEvidence, Tick, jobVars,
      effectVars

\* The graph of statuses: the only moves a step can make with a row.
Moves(c) ==
  \/ status'[c] = status[c]
  \/ status[c] = "absent" /\ status'[c] = "pending"
  \/ status[c] \in {"pending", "claimed"} /\ ~boundary[c] /\ status'[c] = "claimed"
  \/ status[c] = "claimed" /\ status'[c] = "executing"
  \/ status[c] = "executing" /\ status'[c] = "uncertain"
  \/ /\ status[c] \in {"executing", "uncertain"}
     /\ status'[c] \in Settled

LEMMA StatusMoves == IInv /\ [Next]_vars => \A c \in Cmds : Moves(c)
<1> SUFFICES ASSUME IInv, [Next]_vars PROVE \A c \in Cmds : Moves(c)
  OBVIOUS
<1>0. JobsOK /\ WorkersOK /\ EffectsOK /\ ClaimHistory /\ Blank /\ BoundaryHistory
  BY DEF IInv, TypeOK
<1>1. ASSUME NEW k \in Clients, NEW type \in Types, NEW key \in Keys \cup {None},
             NEW req \in Reqs, EnqueueNew(k, type, key, req), NEW c \in Cmds
      PROVE  Moves(c)
  BY <1>0, <1>1 DEF EnqueueNew, JobsOK, Cmds, Blank, Moves
<1>2. ASSUME NEW w \in Workers, SweepExpired(w), NEW c \in Cmds PROVE Moves(c)
  BY <1>2 DEF SweepExpired, Sweepable, Moves
<1>3. ASSUME NEW w \in Workers, Claim(w), NEW c \in Cmds PROVE Moves(c)
  <2>1. PICK d \in Enqueued : /\ Oldest(d, now[w])
                              /\ status' = [status EXCEPT ![d] = "claimed"]
    BY <1>3 DEF Claim
  <2>2. d \in Cmds
    BY <1>0, CommandsAssumption DEF Enqueued, JobsOK, Cmds
  <2>3. status[d] \in {"pending", "claimed"} /\ ~boundary[d]
    BY <1>0, <2>1, <2>2 DEF Oldest, Claimable, Terminal, Settled, BoundaryHistory
  <2>4. status'[c] = status[c] \/ (c = d /\ status'[c] = "claimed")
    BY <1>0, <2>1 DEF JobsOK
  <2> QED
    BY <2>3, <2>4 DEF Moves
<1>4. ASSUME NEW w \in Workers, Cross(w), NEW c \in Cmds PROVE Moves(c)
  BY <1>0, <1>4 DEF Cross, Owns, JobsOK, Moves
<1>5. ASSUME NEW w \in Workers, Settle(w), NEW c \in Cmds PROVE Moves(c)
  <2>1. outcome[w] \in Settled
    BY <1>0, <1>5 DEF Settle, ClaimHistory
  <2>2. \/ status' = status
        \/ /\ status[held[w]] = "executing"
           /\ status' = [status EXCEPT ![held[w]] = outcome[w]]
    BY <1>5 DEF Settle
  <2> QED
    BY <1>0, <2>1, <2>2 DEF JobsOK, Moves
<1>6. ASSUME NEW d \in Cmds, Reconcile(d), NEW c \in Cmds PROVE Moves(c)
  BY <1>0, <1>6 DEF Reconcile, JobsOK, Settled, Moves
<1>7. ASSUME UNCHANGED status, NEW c \in Cmds PROVE Moves(c)
  BY <1>7, SMTT(60) DEF Moves
<1> QED
  BY <1>1, <1>2, <1>3, <1>4, <1>5, <1>6, <1>7
  DEF Next, Web, WorkerStep, Failure, Threads, vars, Reattach, Poll, GiveUp, StartTick,
      ClaimNothing, LoseClaim, AdapterReturns, AdapterRaises, Exit, Restart, Crash, Down,
      TickFails, Cancel, CancelInAdapter, ThreadWrites, OrphanEnds, ReadEvidence, Tick, jobVars

\* The boundary and the writes of a row only grow.
LEMMA Growth ==
  IInv /\ [Next]_vars =>
    \A c \in Cmds : (boundary[c] => boundary'[c]) /\ (writes[c] > 0 => writes'[c] > 0)
<1> SUFFICES ASSUME IInv, [Next]_vars, NEW c \in Cmds
             PROVE  (boundary[c] => boundary'[c]) /\ (writes[c] > 0 => writes'[c] > 0)
  OBVIOUS
<1>0. JobsOK /\ EffectsOK
  BY DEF IInv, TypeOK
<1>1. ASSUME NEW w \in Workers, Cross(w) PROVE boundary[c] => boundary'[c]
  BY <1>0, <1>1 DEF Cross, JobsOK
<1>2. ASSUME NEW t \in threads, ThreadWrites(t) PROVE writes[c] > 0 => writes'[c] > 0
  BY <1>0, <1>2 DEF ThreadWrites, EffectsOK
<1> QED
  BY <1>1, <1>2, ZenonT(60)
  DEF Next, Web, WorkerStep, Failure, Threads, vars, EnqueueNew, Reattach, Poll, GiveUp,
      StartTick, SweepExpired, Claim, ClaimNothing, Cross, LoseClaim, AdapterReturns,
      AdapterRaises, Settle, Exit, Restart, Crash, Down, TickFails, Cancel,
      CancelInAdapter, ThreadWrites, OrphanEnds, ReadEvidence, Reconcile, Tick, jobVars, effectVars

\* The single thread of a row and the single write of that thread.
LEMMA ThreadStep == IInv /\ [Next]_vars => ThreadHistory'
<1> SUFFICES ASSUME IInv, [Next]_vars PROVE ThreadHistory'
  OBVIOUS
<1>0. JobsOK /\ EffectsOK /\ ClaimHistory /\ ThreadHistory
  BY DEF IInv, TypeOK
<1>1. \A c \in Cmds : boundary[c] => boundary'[c]
  BY Growth
<1>2. ASSUME NEW w \in Workers, Cross(w) PROVE ThreadHistory'
  <2> DEFINE c == held[w]
             new == [cmd |-> c, worker |-> w, wrote |-> FALSE]
  <2>1. c \in Cmds
    BY <1>0, <1>2, CommandsAssumption DEF Cross, ClaimHistory, JobsOK, Enqueued, Cmds
  <2>2. ~boundary[c]
    BY <1>2 DEF Cross, Owns
  <2>3. writes[c] = 0 /\ \A t \in threads : t.cmd # c
    BY <1>0, <2>1, <2>2 DEF ThreadHistory
  <2>4. threads' = threads \cup {new} /\ writes' = writes
    BY <1>2 DEF Cross
  <2>5. boundary'[c]
    BY <1>0, <1>2, <2>1 DEF Cross, JobsOK
  <2>6. \A t \in threads' : boundary'[t.cmd] /\ (t.wrote <=> writes'[t.cmd] > 0)
    <3>1. \A t \in threads : t.cmd \in Cmds
      BY <1>0 DEF EffectsOK
    <3> QED
      BY <1>0, <1>1, <2>3, <2>4, <2>5, <3>1 DEF ThreadHistory
  <2>7. \A t, u \in threads' : u.cmd = t.cmd => u = t
    <3>1. \A t, u \in threads : u.cmd = t.cmd => u = t
      BY <1>0 DEF ThreadHistory
    <3>2. new.cmd = c
      OBVIOUS
    <3> HIDE DEF new
    <3> QED
      BY <2>3, <2>4, <3>1, <3>2
  <2> QED
    BY <1>0, <1>1, <2>4, <2>6, <2>7 DEF ThreadHistory
<1>3. ASSUME NEW t \in threads, ThreadWrites(t) PROVE ThreadHistory'
  <2> DEFINE c == t.cmd
             new == [cmd |-> c, worker |-> t.worker, wrote |-> TRUE]
  <2>1. c \in Cmds /\ writes[c] = 0 /\ boundary[c]
    BY <1>0, <1>3 DEF ThreadWrites, ThreadHistory, EffectsOK
  <2>2. threads' = (threads \ {t}) \cup {new}
    BY <1>3 DEF ThreadWrites
  <2>3. \A u \in threads \ {t} : u.cmd # c
    BY <1>0 DEF ThreadHistory
  <2>4. writes' = [writes EXCEPT ![c] = 1]
    BY <1>3, <2>1 DEF ThreadWrites
  <2>5. boundary' = boundary
    BY <1>3 DEF ThreadWrites, jobVars
  <2>6. \A d \in Cmds : writes'[d] = IF d = c THEN 1 ELSE writes[d]
    BY <1>0, <2>1, <2>4 DEF EffectsOK
  <2>7. \A u \in threads' : boundary'[u.cmd] /\ (u.wrote <=> writes'[u.cmd] > 0)
    <3>1. boundary'[new.cmd] /\ (new.wrote <=> writes'[new.cmd] > 0)
      BY <2>1, <2>5, <2>6
    <3>2. ASSUME NEW u \in threads \ {t}
          PROVE  boundary'[u.cmd] /\ (u.wrote <=> writes'[u.cmd] > 0)
      <4>1. u.cmd \in Cmds /\ u.cmd # c
        BY <1>0, <2>3 DEF EffectsOK
      <4> QED
        BY <1>0, <2>5, <2>6, <4>1 DEF ThreadHistory
    <3> QED
      BY <2>2, <3>1, <3>2
  <2>8. \A u, v \in threads' : u.cmd = v.cmd => u = v
    <3>1. \A u, v \in threads : u.cmd = v.cmd => u = v
      BY <1>0 DEF ThreadHistory
    <3>2. new.cmd = c
      OBVIOUS
    <3> HIDE DEF new
    <3> QED
      BY <2>2, <2>3, <3>1, <3>2
  <2>9. \A d \in Cmds : writes'[d] \in {0, 1} /\ (writes'[d] > 0 => boundary'[d])
    BY <1>0, <2>1, <2>5, <2>6 DEF ThreadHistory
  <2> QED
    BY <2>7, <2>8, <2>9 DEF ThreadHistory
<1>4. CASE threads' \subseteq threads /\ UNCHANGED <<boundary, writes>>
  BY <1>0, <1>4 DEF ThreadHistory
<1> QED
  BY <1>2, <1>3, <1>4, ZenonT(60)
  DEF Next, Web, WorkerStep, Failure, Threads, vars, EnqueueNew, Reattach, Poll, GiveUp,
      StartTick, SweepExpired, Claim, ClaimNothing, LoseClaim, AdapterReturns,
      AdapterRaises, Settle, Exit, Restart, Crash, Down, TickFails, Cancel,
      CancelInAdapter, OrphanEnds, ReadEvidence, Reconcile, Tick, jobVars, effectVars

\* What a worker holds between its claim and its settlement.
LEMMA ClaimStep == IInv /\ [Next]_vars => ClaimHistory'
<1> SUFFICES ASSUME IInv, [Next]_vars PROVE ClaimHistory'
  OBVIOUS
<1>0. /\ JobsOK /\ WorkersOK /\ EffectsOK
      /\ ClaimHistory /\ ThreadHistory
  BY DEF IInv, TypeOK
<1>1. Enqueued \subseteq Enqueued' /\ Enqueued \subseteq Cmds
  <2>1. rows' \in {rows, rows + 1}
    BY ZenonT(60) DEF Next, Web, WorkerStep, Failure, Threads, vars, EnqueueNew, Reattach, Poll,
           GiveUp, StartTick, SweepExpired, Claim, ClaimNothing, Cross, LoseClaim,
           AdapterReturns, AdapterRaises, Settle, Exit, Restart, Crash, Down, TickFails,
           Cancel, CancelInAdapter, ThreadWrites, OrphanEnds, ReadEvidence, Reconcile, Tick
  <2> QED
    BY <1>0, <2>1, CommandsAssumption DEF JobsOK, Enqueued, Cmds
<1>3. ASSUME NEW w \in Workers, Claim(w) PROVE ClaimHistory'
  <2>1. PICK c \in Enqueued : held' = [held EXCEPT ![w] = c]
    BY <1>3 DEF Claim
  <2>2. pc' = [pc EXCEPT ![w] = "cross"] /\ outcome' = outcome
    BY <1>3 DEF Claim
  <2> QED
    BY <1>0, <1>1, <2>1, <2>2 DEF WorkersOK, ClaimHistory
<1>4. ASSUME NEW w \in Workers, Cross(w) PROVE ClaimHistory'
  <2>1. held[w] \in Enqueued /\ pc' = [pc EXCEPT ![w] = "adapter"]
        /\ UNCHANGED <<held, outcome>>
    BY <1>0, <1>4 DEF Cross, ClaimHistory
  <2> QED
    BY <1>0, <1>1, <2>1 DEF WorkersOK, ClaimHistory
<1>5. ASSUME NEW w \in Workers, AdapterReturns(w) \/ AdapterRaises(w) \/ CancelInAdapter(w)
      PROVE  ClaimHistory'
  <2>1. /\ held[w] \in Enqueued
        /\ pc' = [pc EXCEPT ![w] = "settle"] /\ held' = held
    BY <1>0, <1>5
    DEF AdapterReturns, AdapterRaises, CancelInAdapter, AdapterEnds, Awaited, ClaimHistory
  <2>2. \E how \in Settled : outcome' = [outcome EXCEPT ![w] = how]
    BY <1>5 DEF AdapterReturns, AdapterRaises, CancelInAdapter, AdapterEnds, Settled
  <2> QED
    BY <1>0, <1>1, <2>1, <2>2 DEF WorkersOK, ClaimHistory
<1>6. ASSUME NEW w \in Workers,
             \/ ClaimNothing(w) \/ LoseClaim(w) \/ Settle(w) \/ TickFails(w)
             \/ Restart(w) \/ Cancel(w) \/ Crash(w) \/ Exit(w)
      PROVE  ClaimHistory'
  <2>1. PICK where \in {"idle", "stopped", "down"} : GoTo(w, where)
    BY <1>6 DEF ClaimNothing, LoseClaim, Settle, TickFails, Restart, Cancel, Crash, Exit,
                Down, GoIdle
  <2>2. \A v \in Workers :
          \/ v = w /\ pc'[v] = where
          \/ pc'[v] = pc[v] /\ held'[v] = held[v] /\ outcome'[v] = outcome[v]
    BY <1>0, <2>1 DEF GoTo, WorkersOK
  <2> QED
    BY <1>0, <1>1, <2>2 DEF ClaimHistory
<1>7. ASSUME NEW w \in Workers, StartTick(w) \/ SweepExpired(w) PROVE ClaimHistory'
  <2>1. /\ \E where \in {"sweep", "claim"} : pc' = [pc EXCEPT ![w] = where]
        /\ UNCHANGED <<held, outcome>>
    BY <1>7 DEF StartTick, SweepExpired
  <2> QED
    BY <1>0, <1>1, <2>1 DEF WorkersOK, ClaimHistory
<1>8. CASE UNCHANGED <<pc, held, outcome>>
  BY <1>0, <1>1, <1>8, SMTT(60) DEF ClaimHistory
<1> QED
  BY <1>3, <1>4, <1>5, <1>6, <1>7, <1>8, ZenonT(60)
  DEF Next, Web, WorkerStep, Failure, Threads, vars, EnqueueNew, Reattach, Poll, GiveUp,
      ThreadWrites, OrphanEnds, ReadEvidence, Reconcile, Tick, workerVars

LEMMA KeyStep == IInv /\ [Next]_vars => KeyUnique'
<1> SUFFICES ASSUME IInv, [Next]_vars PROVE KeyUnique'
  OBVIOUS
<1>0. JobsOK /\ KeyUnique
  BY DEF IInv, TypeOK
<1>1. ASSUME NEW k \in Clients, NEW type \in Types, NEW key \in Keys \cup {None},
             NEW req \in Reqs, EnqueueNew(k, type, key, req)
      PROVE  KeyUnique'
  <2>1. /\ rows' = rows + 1 /\ rows \in Nat /\ rows + 1 \in Cmds
        /\ spec' = [spec EXCEPT ![rows + 1] = [type |-> type, key |-> key, req |-> req]]
    BY <1>0, <1>1, CommandsAssumption DEF EnqueueNew, JobsOK, Cmds
  <2>2. spec'[rows + 1].type = type /\ spec'[rows + 1].key = key
    BY <1>0, <2>1 DEF JobsOK
  <2>3. \A c \in Enqueued : spec'[c] = spec[c]
    BY <1>0, <2>1 DEF JobsOK, Enqueued
  <2>4. \A c \in Enqueued : key # None => ~(spec[c].type = type /\ spec[c].key = key)
    BY <1>1 DEF EnqueueNew, Holders
  <2>5. Enqueued' = Enqueued \cup {rows + 1}
    BY <2>1 DEF Enqueued
  <2> QED
    BY <1>0, <2>2, <2>3, <2>4, <2>5 DEF KeyUnique
<1>2. CASE UNCHANGED <<rows, spec>>
  BY <1>0, <1>2 DEF KeyUnique, Enqueued
<1> QED
  BY <1>1, <1>2
  DEF Next, Web, WorkerStep, Failure, Threads, vars, Reattach, Poll, GiveUp, StartTick,
      SweepExpired, Claim, ClaimNothing, Cross, LoseClaim, AdapterReturns, AdapterRaises,
      Settle, Exit, Restart, Crash, Down, TickFails, Cancel, CancelInAdapter, ThreadWrites,
      OrphanEnds, ReadEvidence, Reconcile, Tick, jobVars

\* Answers given out stay true.
LEMMA AnswerStep == IInv /\ [Next]_vars => AnswerKept'
<1> SUFFICES ASSUME IInv, [Next]_vars PROVE AnswerKept'
  OBVIOUS
<1>0. ClientsOK /\ AnswerKept
  BY DEF IInv, TypeOK
<1>1. \A c \in Cmds : Moves(c)
  BY StatusMoves
<1>2. \A c \in Cmds : status[c] \in Settled => status'[c] = status[c]
  BY <1>1 DEF Moves, Settled
<1>4. ASSUME NEW k \in Clients, Poll(k) PROVE AnswerKept'
  <2>1. told' = told \cup {[cmd |-> waiting[k], answer |-> status[waiting[k]]]}
        /\ status' = status
    BY <1>4 DEF Poll, jobVars
  <2> QED
    BY <1>0, <2>1 DEF AnswerKept
<1>5. ASSUME UNCHANGED told PROVE AnswerKept'
  <2>1. \A a \in told : a.cmd \in Cmds
    BY <1>0, SMTT(60) DEF ClientsOK
  <2> QED
    <3> SUFFICES ASSUME NEW a \in told, a.answer \in Settled
                 PROVE  status'[a.cmd] = a.answer
      BY <1>5 DEF AnswerKept
    <3>1. status[a.cmd] = a.answer
      BY <1>0 DEF AnswerKept
    <3> QED
      BY <1>2, <2>1, <3>1
<1>6. (\E k \in Clients : Poll(k)) \/ UNCHANGED told
  BY ZenonT(60) DEF Next, Web, WorkerStep, Failure, Threads, vars, EnqueueNew, Reattach, GiveUp,
      StartTick, SweepExpired, Claim, ClaimNothing, Cross, LoseClaim, AdapterReturns,
      AdapterRaises, Settle, Exit, Restart, Crash, Down, TickFails, Cancel,
      CancelInAdapter, ThreadWrites, OrphanEnds, ReadEvidence, Reconcile, Tick, clientVars
<1> QED
  BY <1>4, <1>5, <1>6

\* What reconcilers read and what rows were settled by.
LEMMA AuditStep == IInv /\ [Next]_vars => AuditOK' /\ ReportHistory'
<1> SUFFICES ASSUME IInv, [Next]_vars PROVE AuditOK' /\ ReportHistory'
  OBVIOUS
<1>0. JobsOK /\ EffectsOK /\ AuditOK /\ ReportHistory
  BY DEF IInv, TypeOK
<1>1. /\ \A c \in Cmds : boundary[c] => boundary'[c]
      /\ \A c \in Cmds : writes[c] > 0 => writes'[c] > 0
      /\ \A c \in Cmds : status[c] \in Settled => status'[c] = status[c]
  BY Growth, StatusMoves DEF Moves, Settled
<1>2. \A r \in reports : r.cmd \in Cmds
  BY <1>0 DEF AuditOK, Reports
<1>3. \A r \in reconciled : r \in reports /\ status[r.cmd] \in Settled
  BY <1>0 DEF AuditOK, ReportHistory, Settled
<1>4. ASSUME NEW c \in Cmds, ReadEvidence(c) PROVE AuditOK' /\ ReportHistory'
  <2> DEFINE new == [cmd |-> c, found |-> writes[c] > 0,
                     quiet |-> status[c] = "uncertain" /\ c \notin cancelled]
  <2>1. /\ reports' = reports \cup {new} /\ boundary[c]
        /\ UNCHANGED <<reconciled, cancelled, status, boundary, writes>>
    BY <1>4 DEF ReadEvidence, jobVars, effectVars
  <2>2. new \in Reports /\ new.cmd = c /\ (new.found => writes[c] > 0)
    <3>1. /\ (writes[c] > 0) \in BOOLEAN
          /\ (status[c] = "uncertain" /\ c \notin cancelled) \in BOOLEAN
      OBVIOUS
    <3>2. new \in Reports
      BY <3>1, Zenon DEF Reports
    <3>3. new.cmd = c /\ (new.found => writes[c] > 0)
      BY Zenon
    <3> QED
      BY <3>2, <3>3
  <2> HIDE DEF new
  <2>3. AuditOK'
    BY <1>0, <2>1, <2>2 DEF AuditOK
  <2>4. ReportHistory'
    BY <1>0, <2>1, <2>2 DEF ReportHistory
  <2> QED
    BY <2>3, <2>4
<1>5. ASSUME NEW c \in Cmds, Reconcile(c) PROVE AuditOK' /\ ReportHistory'
  <2>1. PICK r \in reports :
          /\ r.cmd = c
          /\ status' = [status EXCEPT ![c] = IF r.found THEN "succeeded" ELSE "failed"]
          /\ reconciled' = reconciled \cup {r}
    BY <1>5 DEF Reconcile
  <2>2. UNCHANGED <<reports, cancelled, boundary, writes>>
    BY <1>5 DEF Reconcile, effectVars
  <2>3. status'[c] = IF r.found THEN "succeeded" ELSE "failed"
    BY <1>0, <2>1 DEF JobsOK
  <2>4. AuditOK'
    BY <1>0, <2>1, <2>2 DEF AuditOK
  <2>5. \A q \in reconciled : status'[q.cmd] = status[q.cmd]
    BY <1>1, <1>2, <1>3
  <2>6. ReportHistory'
    BY <1>0, <2>1, <2>2, <2>3, <2>5 DEF ReportHistory
  <2> QED
    BY <2>4, <2>6
<1>6. ASSUME UNCHANGED <<reports, reconciled>>, cancelled' \subseteq Cmds
      PROVE  AuditOK' /\ ReportHistory'
  <2>1. AuditOK'
    BY <1>0, <1>6 DEF AuditOK
  <2>2. \A r \in reports : boundary'[r.cmd] /\ (r.found => writes'[r.cmd] > 0)
    BY <1>0, <1>1, <1>2 DEF ReportHistory
  <2>3. \A r \in reconciled : status'[r.cmd] = status[r.cmd]
    BY <1>1, <1>2, <1>3
  <2>4. ReportHistory'
    BY <1>0, <1>6, <2>2, <2>3 DEF ReportHistory
  <2> QED
    BY <2>1, <2>4
<1>7. ASSUME NEW w \in Workers, CancelInAdapter(w)
      PROVE  UNCHANGED <<reports, reconciled>> /\ cancelled' \subseteq Cmds
  <2>1. held[w] \in Cmds
    BY <1>0, <1>7, CommandsAssumption
    DEF CancelInAdapter, IInv, ClaimHistory, JobsOK, Enqueued, Cmds
  <2> QED
    BY <1>0, <1>7, <2>1 DEF CancelInAdapter, AuditOK
<1>8. \/ \E c \in Cmds : ReadEvidence(c) \/ Reconcile(c)
      \/ \E w \in Workers : CancelInAdapter(w)
      \/ UNCHANGED auditVars
  BY ZenonT(60) DEF Next, Web, WorkerStep, Failure, Threads, vars, EnqueueNew, Reattach, Poll, GiveUp,
      StartTick, SweepExpired, Claim, ClaimNothing, Cross, LoseClaim, AdapterReturns,
      AdapterRaises, Settle, Exit, Restart, Crash, Down, TickFails, Cancel,
      ThreadWrites, OrphanEnds, Tick
<1> QED
  BY <1>0, <1>4, <1>5, <1>6, <1>7, <1>8 DEF auditVars, AuditOK

-----------------------------------------------------------------------------
LEMMA InitInv == Init => IInv
<1> SUFFICES ASSUME Init PROVE IInv
  OBVIOUS
<1>1. TypeOK
  BY CommandsAssumption
  DEF Init, TypeOK, JobsOK, WorkersOK, EffectsOK, AuditOK, ClientsOK, NoSpec, Cmds, Terminal
<1>2. Blank /\ BoundaryHistory /\ ThreadHistory /\ ClaimHistory /\ AnswerKept
  BY DEF Init, Blank, BoundaryHistory, ThreadHistory, ClaimHistory, AnswerKept, Cmds
<1>3. KeyUnique /\ ReportHistory
  BY DEF Init, KeyUnique, ReportHistory, Enqueued, Cmds
<1> QED
  BY <1>1, <1>2, <1>3 DEF IInv

\* The inductive invariant holds in every reachable state.
THEOREM Invariance == Spec => []IInv
<1>1. IInv /\ [Next]_vars => IInv'
  BY JobsStep, WorkersStep, EffectsStep, ClientsStep, HistoryStep, ThreadStep, ClaimStep,
     KeyStep, AnswerStep, AuditStep
  DEF IInv, TypeOK
<1> QED
  BY InitInv, <1>1, PTL DEF Spec

\* Every variable keeps its type.
THEOREM TypeCorrect == Spec => []TypeOK
<1>1. IInv => TypeOK
  BY DEF IInv
<1> QED
  BY Invariance, <1>1, PTL

\* The adapter of a command runs at most once, for any number of workers,
\* crashes, cancellations and reclaims.
THEOREM RunOnce == Spec => []AtMostOneRun
<1>1. IInv => AtMostOneRun
  BY DEF IInv, BoundaryHistory, AtMostOneRun
<1> QED
  BY Invariance, <1>1, PTL

\* A keyed user action reaches the exchange at most once.
THEOREM KeyedWrite == Spec => []KeyedOnce
<1>1. IInv => KeyedOnce
  BY DEF IInv, ThreadHistory, KeyUnique, KeyedOnce
<1> QED
  BY Invariance, <1>1, PTL

\* Nobody is told two opposite ends of one command.
THEOREM SameStory == Spec => []OneStory
<1>1. IInv => OneStory
  BY DEF IInv, AnswerKept, OneStory, Settled
<1> QED
  BY Invariance, <1>1, PTL

\* A row past its boundary is never claimed again.
THEOREM NeverReplayed == Spec => NoReplay
<1>1. IInv /\ [Next]_vars =>
        [\A c \in Cmds : boundary[c] =>
           boundary'[c] /\ status'[c] \notin {"absent", "pending", "claimed"}]_vars
  <2> SUFFICES ASSUME IInv, [Next]_vars, NEW c \in Cmds, boundary[c]
               PROVE  boundary'[c] /\ status'[c] \notin {"absent", "pending", "claimed"}
    OBVIOUS
  <2>1. status[c] \in {"executing"} \cup Terminal
    BY DEF IInv, BoundaryHistory
  <2>2. Moves(c) /\ boundary'[c]
    BY StatusMoves, Growth, SMTT(60)
  <2> QED
    BY <2>1, <2>2 DEF Moves, Terminal, Settled
<1> QED
  BY Invariance, <1>1, PTL DEF Spec, NoReplay

-----------------------------------------------------------------------------
(* What the single worker of production adds.                              *)

OneWorker == \A v, w \in Workers : v = w

\* Unless it was cancelled, the worker of a thread awaits it, and the row is
\* executing.
ThreadsAwaited ==
  \A t \in threads :
    t.cmd \in cancelled \/ (Awaited(t.worker, t) /\ status[t.cmd] = "executing")

\* Outside the adapter the worker has no thread it would have to await.
LEMMA NoneAwaited ==
  ASSUME IInv, OneWorker, ThreadsAwaited, NEW w \in Workers, pc[w] # "adapter",
         NEW t \in threads
  PROVE  t.cmd \in cancelled
<1>1. t.worker \in Workers
  BY DEF IInv, TypeOK, EffectsOK
<1>2. t.worker = w
  BY <1>1 DEF OneWorker
<1> QED
  BY <1>2 DEF ThreadsAwaited, Awaited

LEMMA AwaitedStep ==
  ASSUME IInv, OneWorker, ThreadsAwaited, [Next]_vars
  PROVE  ThreadsAwaited'
<1>0. JobsOK /\ WorkersOK /\ EffectsOK /\ ClaimHistory /\ ThreadHistory
  BY DEF IInv, TypeOK
<1>1. \A t \in threads : t.cmd \in Cmds /\ t.worker \in Workers
  BY <1>0 DEF EffectsOK
<1>2. ASSUME NEW w \in Workers, Cross(w) PROVE ThreadsAwaited'
  <2> DEFINE new == [cmd |-> held[w], worker |-> w, wrote |-> FALSE]
  <2>1. pc[w] # "adapter" /\ threads' = threads \cup {new}
        /\ pc' = [pc EXCEPT ![w] = "adapter"] /\ UNCHANGED <<held, cancelled>>
        /\ status' = [status EXCEPT ![held[w]] = "executing"]
    BY <1>2 DEF Cross, auditVars
  <2>2. held[w] \in Cmds
    BY <1>0, <1>2, CommandsAssumption DEF Cross, ClaimHistory, JobsOK, Enqueued, Cmds
  <2>3. Awaited(w, new)' /\ status'[held[w]] = "executing"
    BY <1>0, <2>1, <2>2 DEF Awaited, WorkersOK, JobsOK
  <2>4. \A t \in threads : t.cmd \in cancelled
    BY <2>1, NoneAwaited
  <2>5. held' = held /\ new.worker = w /\ new.cmd = held[w]
    BY <2>1
  <2>6. ASSUME NEW t \in threads'
        PROVE  \/ t.cmd \in cancelled'
               \/ Awaited(t.worker, t)' /\ status'[t.cmd] = "executing"
    <3>1. CASE t \in threads
      BY <2>1, <2>4, <3>1
    <3>2. CASE t = new
      <4>1. pc'[w] = "adapter" /\ held'[w] = t.cmd /\ t.worker = w
        BY <1>0, <2>1, <2>5, <3>2 DEF WorkersOK
      <4>2. status'[t.cmd] = "executing"
        BY <2>3, <2>5, <3>2
      <4> QED
        BY <4>1, <4>2 DEF Awaited
    <3> QED
      BY <2>1, <2>6, <3>1, <3>2
  <2> QED
    BY <2>6 DEF ThreadsAwaited
<1>3. ASSUME NEW t \in threads, ThreadWrites(t) PROVE ThreadsAwaited'
  <2>1. /\ threads' = (threads \ {t}) \cup
                        {[cmd |-> t.cmd, worker |-> t.worker, wrote |-> TRUE]}
        /\ UNCHANGED <<status, pc, held, cancelled>>
    BY <1>3 DEF ThreadWrites, jobVars, workerVars, auditVars
  <2> QED
    BY <2>1 DEF ThreadsAwaited, Awaited
<1>4. ASSUME NEW w \in Workers, AdapterReturns(w) \/ AdapterRaises(w)
      PROVE  ThreadsAwaited'
  <2>1. PICK t \in threads : Awaited(w, t) /\ threads' = threads \ {t}
    BY <1>4 DEF AdapterReturns, AdapterRaises
  <2>2. cancelled' = cancelled
    BY <1>4 DEF AdapterReturns, AdapterRaises, auditVars
  <2>3. ASSUME NEW u \in threads', u.cmd \notin cancelled PROVE FALSE
    <3>1. u \in threads /\ u # t /\ u.worker = w
      BY <1>1, <2>1, <2>3 DEF OneWorker
    <3>2. u.cmd = held[w] /\ t.cmd = held[w]
      BY <2>1, <2>3, <3>1 DEF ThreadsAwaited, Awaited
    <3> QED
      BY <1>0, <3>1, <3>2 DEF ThreadHistory
  <2> QED
    BY <2>2, <2>3 DEF ThreadsAwaited
<1>5. ASSUME NEW w \in Workers, CancelInAdapter(w) PROVE ThreadsAwaited'
  <2>1. threads' = threads /\ cancelled' = cancelled \cup {held[w]}
    BY <1>5 DEF CancelInAdapter, effectVars
  <2>2. \A t \in threads : t.cmd \in cancelled \/ t.cmd = held[w]
    BY <1>1 DEF OneWorker, ThreadsAwaited, Awaited
  <2> QED
    BY <2>1, <2>2 DEF ThreadsAwaited
<1>6. ASSUME NEW w \in Workers, Exit(w) \/ Crash(w) PROVE ThreadsAwaited'
  <2>1. threads' = {t \in threads : t.worker # w}
    BY <1>6 DEF Exit, Crash, Down
  <2>2. threads' = {}
    BY <1>1, <2>1 DEF OneWorker
  <2> QED
    BY <2>2 DEF ThreadsAwaited
<1>7. ASSUME NEW w \in Workers,
             \/ StartTick(w) \/ SweepExpired(w) \/ Claim(w) \/ ClaimNothing(w)
             \/ LoseClaim(w) \/ Settle(w) \/ Restart(w) \/ TickFails(w) \/ Cancel(w)
      PROVE  ThreadsAwaited'
  <2>1. pc[w] # "adapter" /\ UNCHANGED <<threads, cancelled>>
    BY <1>7 DEF StartTick, SweepExpired, Claim, ClaimNothing, LoseClaim, Settle, Restart,
                TickFails, Cancel, effectVars, auditVars
  <2>2. \A t \in threads : t.cmd \in cancelled
    BY <2>1, NoneAwaited
  <2> QED
    BY <2>1, <2>2 DEF ThreadsAwaited
<1>8. ASSUME \A c \in Cmds : status[c] = "executing" => status'[c] = "executing",
             threads' \subseteq threads, UNCHANGED <<pc, held, cancelled>>
      PROVE  ThreadsAwaited'
  BY <1>1, <1>8 DEF ThreadsAwaited, Awaited
<1>9. ASSUME NEW k \in Clients, NEW type \in Types, NEW key \in Keys \cup {None},
             NEW req \in Reqs, EnqueueNew(k, type, key, req)
      PROVE  ThreadsAwaited'
  <2>1. status[rows + 1] = "absent" /\ rows + 1 \in Cmds
    BY <1>0, <1>9, CommandsAssumption DEF EnqueueNew, IInv, Blank, JobsOK, Cmds
  <2>2. status' = [status EXCEPT ![rows + 1] = "pending"]
        /\ UNCHANGED <<threads, pc, held, cancelled>>
    BY <1>9 DEF EnqueueNew, effectVars, workerVars, auditVars
  <2>3. \A c \in Cmds : status[c] = "executing" => status'[c] = "executing"
    BY <1>0, <2>1, <2>2 DEF JobsOK
  <2> QED
    BY <1>8, <2>2, <2>3
<1>10. ASSUME NEW c \in Cmds, Reconcile(c) PROVE ThreadsAwaited'
  <2>1. \A d \in Cmds : status[d] = "executing" => status'[d] = "executing"
    BY <1>0, <1>10 DEF Reconcile, JobsOK
  <2>2. UNCHANGED <<threads, pc, held, cancelled>>
    BY <1>10 DEF Reconcile, effectVars, workerVars
  <2> QED
    BY <1>8, <2>1, <2>2
<1>11. CASE UNCHANGED <<status, pc, held, cancelled>> /\ threads' \subseteq threads
  BY <1>8, <1>11
<1> QED
  BY <1>2, <1>3, <1>4, <1>5, <1>6, <1>7, <1>9, <1>10, <1>11, ZenonT(60)
  DEF Next, Web, WorkerStep, Failure, Threads, vars, Reattach, Poll, GiveUp, OrphanEnds,
      ReadEvidence, Tick, jobVars, workerVars, effectVars, auditVars

\* With one worker a thread that can still write belongs to an executing command,
\* unless it was cancelled.
THEOREM LateWriterExcluded == Spec => [](OneWorker => NoLateWriter)
<1>1. Init => (OneWorker => ThreadsAwaited)
  BY DEF Init, ThreadsAwaited
<1>2. IInv /\ (OneWorker => ThreadsAwaited) /\ [Next]_vars => (OneWorker => ThreadsAwaited)'
  <2>1. OneWorker' => OneWorker
    BY DEF OneWorker
  <2> QED
    BY <2>1, AwaitedStep
<1>3. (OneWorker => ThreadsAwaited) => (OneWorker => NoLateWriter)
  BY DEF ThreadsAwaited, NoLateWriter
<1> QED
  BY Invariance, <1>1, <1>2, <1>3, PTL DEF Spec

-----------------------------------------------------------------------------
(* With one worker the queue implements FiledCall.  A step crosses a         *)
(* boundary, makes a write or tells something; the others do none of them.   *)

\* What a quiet report did not find was never there and nobody is left to
\* write it.
QuietReports ==
  \A r \in reports :
    r.quiet /\ ~r.found => writes[r.cmd] = 0 /\ \A t \in threads : t.cmd # r.cmd

\* What a step does to boundaries, writes and what was settled by a report.
LEMMA BooksStep ==
  [Next]_vars =>
    \/ /\ \E w \in Workers : Cross(w)
       /\ UNCHANGED <<writes, reports, reconciled>>
    \/ /\ \E t \in threads : ThreadWrites(t)
       /\ UNCHANGED <<status, boundary, reports, reconciled>>
    \/ /\ UNCHANGED <<boundary, writes>>
       /\ threads' \subseteq threads
       /\ reconciled \subseteq reconciled'
       /\ reports' = reports \/ \E c \in Cmds : ReadEvidence(c)
<1> SUFFICES ASSUME [Next]_vars, NEW P, P <=>
               \/ /\ \E w \in Workers : Cross(w)
                  /\ UNCHANGED <<writes, reports, reconciled>>
               \/ /\ \E t \in threads : ThreadWrites(t)
                  /\ UNCHANGED <<status, boundary, reports, reconciled>>
               \/ /\ UNCHANGED <<boundary, writes>>
                  /\ threads' \subseteq threads
                  /\ reconciled \subseteq reconciled'
                  /\ reports' = reports \/ \E c \in Cmds : ReadEvidence(c)
             PROVE  P
  OBVIOUS
<1>1. ASSUME UNCHANGED <<boundary, writes, reports, reconciled>>, threads' \subseteq threads
      PROVE  P
  BY <1>1
<1>2. ASSUME NEW w \in Workers, Cross(w) PROVE P
  BY <1>2 DEF Cross, auditVars
<1>3. ASSUME NEW t \in threads, ThreadWrites(t) PROVE P
  BY <1>3 DEF ThreadWrites, jobVars, auditVars
<1>4. ASSUME NEW c \in Cmds, ReadEvidence(c) PROVE P
  BY <1>4 DEF ReadEvidence, jobVars, effectVars
<1>5. ASSUME NEW c \in Cmds, Reconcile(c) PROVE P
  BY <1>5 DEF Reconcile, effectVars
<1> QED
  BY <1>1, <1>2, <1>3, <1>4, <1>5, ZenonT(60)
  DEF Next, Web, WorkerStep, Failure, Threads, vars, EnqueueNew, Reattach, Poll, GiveUp,
      StartTick, SweepExpired, Claim, ClaimNothing, LoseClaim, AdapterReturns,
      AdapterRaises, Settle, Exit, Restart, Crash, Down, TickFails, Cancel,
      CancelInAdapter, OrphanEnds, Tick, jobVars, effectVars, auditVars

LEMMA QuietStep ==
  ASSUME IInv, ThreadsAwaited, QuietReports, [Next]_vars
  PROVE  QuietReports'
<1>0. /\ JobsOK /\ EffectsOK /\ AuditOK /\ ClaimHistory /\ ThreadHistory /\ ReportHistory
      /\ \A r \in reports : r.cmd \in Cmds
  BY DEF IInv, TypeOK, AuditOK, Reports
<1>1. ASSUME NEW w \in Workers, Cross(w), UNCHANGED <<writes, reports>>
      PROVE  QuietReports'
  <2> DEFINE new == [cmd |-> held[w], worker |-> w, wrote |-> FALSE]
  <2>1. threads' = threads \cup {new} /\ new.cmd = held[w]
    BY <1>1 DEF Cross
  <2> HIDE DEF new
  <2>2. \A r \in reports : r.cmd # held[w]
    BY <1>0, <1>1 DEF Cross, Owns, ReportHistory
  <2> QED
    BY <1>1, <2>1, <2>2 DEF QuietReports
<1>2. ASSUME NEW t \in threads, ThreadWrites(t), UNCHANGED reports
      PROVE  QuietReports'
  <2> DEFINE new == [cmd |-> t.cmd, worker |-> t.worker, wrote |-> TRUE]
  <2>1. threads' = (threads \ {t}) \cup {new} /\ new.cmd = t.cmd
    BY <1>2 DEF ThreadWrites
  <2> HIDE DEF new
  <2>2. \A c \in Cmds : c # t.cmd => writes'[c] = writes[c]
    BY <1>0, <1>2 DEF ThreadWrites, EffectsOK
  <2> QED
    BY <1>0, <1>2, <2>1, <2>2 DEF QuietReports
<1>3. ASSUME NEW c \in Cmds, ReadEvidence(c), UNCHANGED writes, threads' \subseteq threads
      PROVE  QuietReports'
  <2> DEFINE new == [cmd |-> c, found |-> writes[c] > 0,
                     quiet |-> status[c] = "uncertain" /\ c \notin cancelled]
  <2>1. reports' = reports \cup {new}
    BY <1>3 DEF ReadEvidence
  <2>2. ASSUME new.quiet, ~new.found
        PROVE  writes[c] = 0 /\ \A t \in threads : t.cmd # c
    <3>0. ~(writes[c] > 0)
      BY <2>2, Zenon
    <3>1. writes[c] = 0
      BY <1>0, <3>0 DEF ThreadHistory
    <3>2. status[c] = "uncertain" /\ c \notin cancelled
      BY <2>2
    <3> QED
      BY <3>1, <3>2 DEF ThreadsAwaited
  <2>3. new.cmd = c
    OBVIOUS
  <2> HIDE DEF new
  <2> QED
    BY <1>3, <2>1, <2>2, <2>3 DEF QuietReports
<1>4. CASE UNCHANGED <<writes, reports>> /\ threads' \subseteq threads
  BY <1>4 DEF QuietReports
<1> QED
  BY <1>1, <1>2, <1>3, <1>4, BooksStep

LEMMA CallsStep ==
  ASSUME IInv, QuietReports, QuietReports', [Next]_vars
  PROVE  [Calls!Next]_(Calls!vars)
<1> SUFFICES Calls!Next
  OBVIOUS
<1>0. /\ JobsOK /\ EffectsOK /\ ThreadHistory
      /\ AuditOK /\ ReportHistory /\ AuditOK' /\ ReportHistory'
  BY AuditStep DEF IInv, TypeOK
<1>1. \A c \in Denied : writes[c] = 0 /\ \A t \in threads : t.cmd # c
  BY <1>0 DEF Denied, QuietReports, ReportHistory, AuditOK
<1>2. \A c \in Cmds : status[c] \in Settled => status'[c] = status[c]
  BY StatusMoves DEF Moves, Settled
<1>3. ASSUME NEW w \in Workers, Cross(w), UNCHANGED <<writes, reports, reconciled>>
      PROVE  Calls!Next
  <2>1. PICK c \in Cmds : c = held[w]
    BY <1>3, CommandsAssumption DEF Cross, IInv, TypeOK, ClaimHistory, JobsOK, Enqueued, Cmds
  <2>2. {d \in Cmds : boundary'[d]} = {d \in Cmds : boundary[d]} \cup {c}
    BY <1>0, <1>3, <2>1 DEF Cross, JobsOK
  <2>3. \A d \in Cmds : status'[d] = status[d] \/ (d = c /\ status'[d] = "executing")
    BY <1>0, <1>3, <2>1 DEF Cross, JobsOK
  <2>4. status[c] = "claimed"
    BY <1>3, <2>1 DEF Cross, Owns
  <2>5. Denied' = Denied /\ c \notin Denied
    BY <1>3, <2>3, <2>4 DEF Denied
  <2>6. {d \in Cmds : status'[d] = "succeeded" /\ \E r \in reconciled' : r.cmd = d}
          = {d \in Cmds : status[d] = "succeeded" /\ \E r \in reconciled : r.cmd = d}
    BY <1>3, <2>3, <2>4
  <2>7. Calls!File(c)
    BY <1>3, <2>2, <2>5, <2>6 DEF Calls!File
  <2> QED
    BY <2>7 DEF Calls!Next
<1>4. ASSUME NEW t \in threads, ThreadWrites(t),
             UNCHANGED <<status, boundary, reports, reconciled>>
      PROVE  Calls!Next
  <2>1. t.cmd \in Cmds /\ boundary[t.cmd] /\ writes[t.cmd] = 0 /\ t.cmd \notin Denied
    BY <1>0, <1>1, <1>4 DEF ThreadWrites, ThreadHistory, EffectsOK
  <2>2. writes' = [writes EXCEPT ![t.cmd] = 1]
    BY <1>4, <2>1 DEF ThreadWrites
  <2>3. {c \in Cmds : writes'[c] > 0} = {c \in Cmds : writes[c] > 0} \cup {t.cmd}
    BY <1>0, <2>1, <2>2 DEF EffectsOK
  <2>4. Denied' = Denied
    BY <1>4 DEF Denied
  <2>5. Calls!Call(t.cmd)
    BY <1>4, <2>1, <2>2, <2>3, <2>4 DEF Calls!Call
  <2> QED
    BY <2>1, <2>5 DEF Calls!Next
<1>5. CASE UNCHANGED <<boundary, writes>> /\ reconciled \subseteq reconciled'
  <2> DEFINE Done == {c \in Cmds : status[c] = "succeeded" /\ \E r \in reconciled : r.cmd = c}
  <2>1. Done \subseteq Done' /\ Denied \subseteq Denied'
    BY <1>2, <1>5 DEF Denied, Settled
  <2>2. \A c \in Done' : writes[c] > 0
    BY <1>0, <1>5 DEF ReportHistory, AuditOK
  <2>3. \A c \in Denied' : c \in Cmds /\ writes[c] = 0
    BY <1>0, <1>5 DEF Denied, QuietReports, ReportHistory, AuditOK
  <2>4. ({c \in Cmds : boundary[c]} \ Denied)'
          = ({c \in Cmds : boundary[c]} \ Denied) \ Denied'
    BY <1>5, <2>1
  <2>5. Calls!Tell
    BY <1>5, <2>1, <2>2, <2>3, <2>4 DEF Calls!Tell
  <2> QED
    BY <2>5 DEF Calls!Next
<1> QED
  BY <1>3, <1>4, <1>5, BooksStep

\* With one worker the queue implements FiledCall: no command reaches the exchange
\* before its boundary is committed, or twice; and what a reconciliation says of it
\* is true and final: that it was submitted, and, from evidence read once its row
\* was swept and unless its adapter was cancelled, that it never was.
THEOREM QueueKeepsPromise == ASSUME OneWorker PROVE Spec => CallsFiled
<1>1. Init => Calls!Init /\ ThreadsAwaited /\ QuietReports
  BY DEF Init, Calls!Init, Denied, ThreadsAwaited, QuietReports
<1>2. IInv /\ ThreadsAwaited /\ QuietReports /\ [Next]_vars
        => ThreadsAwaited' /\ QuietReports' /\ [Calls!Next]_(Calls!vars)
  BY AwaitedStep, QuietStep, CallsStep
<1> QED
  BY <1>1, <1>2, Invariance, PTL DEF Spec, CallsFiled, Calls!Spec

\* The same calls, with what is proved of FiledCall.
Books == INSTANCE FiledCallProofs WITH
  Ids <- Cmds, filed <- {c \in Cmds : boundary[c]} \ Denied, calls <- writes,
  effects <- {c \in Cmds : writes[c] > 0},
  done <- {c \in Cmds : status[c] = "succeeded" /\ \E r \in reconciled : r.cmd = c},
  denied <- Denied

\* What the promise of the queue with one worker comes to, in every state: a command
\* was written at most once and only past its boundary, one reconciled as submitted
\* was written, one reconciled quietly as not submitted was not.
THEOREM QueueBooks == ASSUME OneWorker PROVE Spec => []Calls!BooksTrue
<1>1. Books!Init <=> Calls!Init
  BY DEF Books!Init, Calls!Init
<1>2. [Books!Next]_(Books!vars) <=> [Calls!Next]_(Calls!vars)
  BY DEF Books!Next, Books!File, Books!Call, Books!TakeEffect, Books!Tell, Books!vars,
         Calls!Next, Calls!File, Calls!Call, Calls!TakeEffect, Calls!Tell, Calls!vars
<1>3. Books!BooksTrue <=> Calls!BooksTrue
  BY DEF Books!BooksTrue, Calls!BooksTrue
<1>. QED
  BY <1>1, <1>2, <1>3, QueueKeepsPromise, Books!BooksAreTrue, PTL DEF CallsFiled, Calls!Spec, Books!Spec
=============================================================================
