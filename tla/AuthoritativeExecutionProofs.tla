-------------------- MODULE AuthoritativeExecutionProofs --------------------
(***************************************************************************)
(* What the ownership of a message's execution guarantees for every number *)
(* of threads, generations, crashes, lapsed claims, faults and retries.    *)
(* The inductive invariant says what a generation's row may be at each     *)
(* stage of the thread that owns it, that no two threads own one           *)
(* generation, and that an owning thread's process is alive: so nobody but *)
(* that thread moves the row until it lets go.                             *)
(***************************************************************************)
EXTENDS AuthoritativeExecution, FiniteSetTheorems, TLAPS

\* A generation not yet minted has no row, and one without a row no history.
Fresh ==
  \A g \in Gens :
    /\ g > gen => astat[g] = "none"
    /\ astat[g] = "none" => g \notin dead
    /\ astat[g] \in {"none", "claimed"} => venue[g] = "none"
    /\ astat[g] \in {"none", "claimed", "executing"} => effect[g] = ""

\* The generation of a pending decision is minted and unclaimed.
Pending == dec = "pending" => gen \in Gens /\ astat[gen] = "none"

\* Among the claimed generations there is a newest.
HasLatest == Claimed # {} => \E m \in Claimed : \A h \in Claimed : h <= m

\* A frozen attempt does not say what it did; a pre-boundary failure did nothing.
Filed ==
  \A g \in Gens :
    /\ astat[g] = "uncertain" => effect[g] = "unknown"
    /\ astat[g] = "failed_safe" => venue[g] = "none"
    /\ effect[g] = "none" => venue[g] = "none"
    /\ effect[g] = "rejected" => venue[g] = "rejected"

\* A request was carried out, for the generation or for an earlier one.
Applied(g) == \E h \in 1..g : venue[h] = "applied"
Backed == \A g \in Gens : effect[g] = "applied" => Applied(g)

Minting == Owning \cup {"claim"}

\* Threads that hold a generation hold a minted one, each its own, and none has
\* seen anything of the exchange before it crosses the boundary.
Exclusive ==
  /\ \A p \in Procs : mine[p] <= gen /\ (pc[p] \in Minting \cup {"resume"} => mine[p] \in Gens)
  /\ \A p, q \in Procs : pc[p] \in Minting /\ pc[q] \in Minting /\ mine[p] = mine[q] => p = q
  /\ \A p \in Procs : pc[p] \in {"claim", "admit", "apply"} => saw[p] \in {"hold", "none"}

\* The row at each stage of its owner.
Stage(p) ==
  /\ pc[p] \in {"admit", "apply"} => astat[mine[p]] = "claimed"
  /\ pc[p] \in {"run", "refuse", "preflight"} => astat[mine[p]] = "executing"
  /\ pc[p] = "record" => astat[mine[p]] \in {"claimed", "executing"}
  /\ pc[p] = "finalize" => astat[mine[p]] \in {"outcome_recorded", "succeeded"}

\* What the tracker says of the exchange is true.
Seen(p) ==
  /\ saw[p] \in {"none", "hold"} => venue[mine[p]] = "none"
  /\ saw[p] = "applied" => Applied(mine[p])
  /\ saw[p] = "rejected" => venue[mine[p]] = "rejected"
  /\ venue[mine[p]] # "none" => saw[p] \in {venue[mine[p]], "unknown"}
  /\ pc[p] \in {"refuse", "preflight"} => saw[p] = "none"
  /\ pc[p] = "record" => saw[p] # "unknown"

Holds(p) == mine[p] \notin dead /\ Stage(p) /\ Seen(p)
Holding == \A p \in Procs : pc[p] \in Owning => Holds(p)

IInv ==
  /\ TypeOK /\ Fresh /\ Pending /\ HasLatest /\ OwnershipAgrees /\ Filed
  /\ Backed /\ WritesAreFiled /\ Exclusive /\ Holding

-----------------------------------------------------------------------------
(* What one step does to the rows, whoever takes it.                       *)

rows == <<dec, gen, astat, effect, dead, venue>>

\* A decision that nobody executes is completed without executing it.
Abandons ==
  /\ Displaceable /\ dec' = "completed"
  /\ UNCHANGED <<gen, astat, effect, dead, venue>>

Mints ==
  /\ Displaceable /\ gen < MaxGens /\ gen' = gen + 1 /\ dec' = "pending"
  /\ UNCHANGED <<astat, effect, dead, venue>>

Takes(g) ==
  /\ dec = "pending" /\ gen = g /\ dec' = "running"
  /\ astat' = [astat EXCEPT ![g] = "claimed"]
  /\ UNCHANGED <<gen, effect, dead, venue>>

Marks(g) ==
  /\ astat[g] = "claimed" /\ astat' = [astat EXCEPT ![g] = "executing"]
  /\ UNCHANGED <<dec, gen, effect, dead, venue>>

Sends(g) ==
  /\ astat[g] = "executing" /\ venue[g] = "none"
  /\ \E did \in {"applied", "rejected"} : venue' = [venue EXCEPT ![g] = did]
  /\ UNCHANGED <<dec, gen, astat, effect, dead>>

\* An outcome that is true of the exchange is recorded.
Files(g) ==
  /\ astat[g] \in {"claimed", "executing"}
  /\ astat' = [astat EXCEPT ![g] = "outcome_recorded"]
  /\ \E e \in {"none", "applied", "rejected"} :
       /\ effect' = [effect EXCEPT ![g] = e]
       /\ venue[g] # "none" => e = venue[g]
       /\ e = "applied" => Applied(g)
       /\ e = "rejected" => venue[g] = "rejected"
  /\ UNCHANGED <<dec, gen, dead, venue>>

Refuses(g) ==
  /\ astat[g] = "executing" /\ Owns(g) /\ venue[g] = "none"
  /\ \E s \in {"failed_safe", "closed"} : astat' = [astat EXCEPT ![g] = s]
  /\ effect' = [effect EXCEPT ![g] = "none"]
  /\ dec' = "completed"
  /\ UNCHANGED <<gen, dead, venue>>

Resolves(g) == (FailsSafe(g) \/ Freezes(g) \/ Finalizes(g)) /\ UNCHANGED venue

Closes(g) ==
  /\ astat[g] = "uncertain" /\ astat' = [astat EXCEPT ![g] = "closed"]
  /\ UNCHANGED <<dec, gen, effect, dead, venue>>

Orphans == dead' = dead \cup Left /\ UNCHANGED <<dec, gen, astat, effect, venue>>

RowStep ==
  \/ UNCHANGED rows \/ Abandons \/ Mints \/ Orphans
  \/ \E g \in Gens : \/ Takes(g) \/ Marks(g) \/ Sends(g) \/ Files(g)
                     \/ Refuses(g) \/ Resolves(g) \/ Closes(g)

RowInv == Fresh /\ Pending /\ HasLatest /\ OwnershipAgrees /\ Filed /\ Backed
          /\ WritesAreFiled

\* The newest claimed generation is the one every other is at most.
LEMMA LatestIsNewest ==
  ASSUME RowsOK, HasLatest, Claimed # {}
  PROVE  Latest \in Claimed /\ Latest \in Gens /\ \A h \in Claimed : h <= Latest
  BY DEF HasLatest, Latest, Claimed

\* Every step is one of these.
LEMMA StepsAreRowSteps == IInv /\ [Next]_vars => RowStep
<1> SUFFICES ASSUME IInv, [Next]_vars PROVE RowStep
  OBVIOUS
<1>0. RowsOK /\ ThreadsOK /\ Exclusive /\ Holding /\ OwnershipAgrees /\ Fresh /\ HasLatest
  BY DEF IInv, TypeOK
<1>1. ASSUME NEW p \in Procs, pc[p] \in Minting PROVE mine[p] \in Gens
  BY <1>0, <1>1 DEF Exclusive
<1>2. ASSUME NEW p \in Procs, Claim(p) PROVE RowStep
  <2>1. mine[p] \in Gens
    BY <1>1, <1>2 DEF Claim, Minting
  <2> QED
    BY <1>2, <2>1 DEF Claim, Claims, RowStep, Takes, rows, Leaves
<1>3. ASSUME NEW p \in Procs, Cross(p) PROVE RowStep
  <2>1. mine[p] \in Gens
    BY <1>1, <1>3 DEF Cross, Minting, Owning
  <2> QED
    BY <1>3, <2>1 DEF Cross, Marked, RowStep, Marks, decVars
<1>4. ASSUME NEW p \in Procs, Write(p) PROVE RowStep
  <2>1. mine[p] \in Gens
    BY <1>1, <1>4 DEF Write, Minting, Owning, Crossed
  <2>2. Holds(p)
    BY <1>0, <1>4 DEF Write, Holding, Owning, Crossed
  <2>3. astat[mine[p]] = "executing" /\ venue[mine[p]] = "none"
    BY <1>4, <2>2 DEF Write, Holds, Stage, Seen
  <2> QED
    BY <1>4, <2>1, <2>3 DEF Write, RowStep, Sends, decVars, attVars
<1>5. ASSUME NEW p \in Procs, Record(p) PROVE RowStep
  <2>1. mine[p] \in Gens
    BY <1>1, <1>5 DEF Record, Minting, Owning, Crossed
  <2>2. Holds(p) /\ pc[p] = "record"
    BY <1>0, <1>5 DEF Record, Holding, Owning, Crossed
  <2>3. /\ saw[p] \in {"hold", "none", "applied", "rejected"}
        /\ Seen(p)
    BY <1>0, <2>2 DEF Holds, Seen, ThreadsOK
  <2>4. /\ Effect(p) \in {"none", "applied", "rejected"}
        /\ venue[mine[p]] # "none" => Effect(p) = venue[mine[p]]
        /\ Effect(p) = "applied" => Applied(mine[p])
        /\ Effect(p) = "rejected" => venue[mine[p]] = "rejected"
    BY <2>3 DEF Seen, Effect
  <2>5. /\ astat[mine[p]] \in {"claimed", "executing"}
        /\ astat' = [astat EXCEPT ![mine[p]] = "outcome_recorded"]
        /\ effect' = [effect EXCEPT ![mine[p]] = Effect(p)]
        /\ UNCHANGED <<dec, gen, dead, venue>>
    BY <1>5 DEF Record, decVars
  <2>6. Files(mine[p])
    BY <2>4, <2>5 DEF Files
  <2> QED
    BY <2>1, <2>6 DEF RowStep
<1>6. ASSUME NEW p \in Procs, Refuse(p) PROVE RowStep
  <2>1. mine[p] \in Gens
    BY <1>1, <1>6 DEF Refuse, Minting, Owning, Crossed
  <2>2. Holds(p)
    BY <1>0, <1>6 DEF Refuse, Holding, Owning, Crossed
  <2>3. venue[mine[p]] = "none"
    BY <1>6, <2>2 DEF Refuse, Holds, Seen
  <2>4. Refuses(mine[p])
    BY <1>6, <2>3 DEF Refuse, Refuses
  <2> QED
    BY <2>1, <2>4 DEF RowStep
<1>7. ASSUME NEW p \in Procs, Resume(p) PROVE RowStep
  <2>1. mine[p] \in Gens
    BY <1>0, <1>7 DEF Exclusive, Resume
  <2> QED
    BY <1>7, <2>1 DEF Resume, RowStep, Resolves, rows, decVars, attVars
<1>8. ASSUME NEW p \in Procs, Admit(p) \/ Finalize(p) \/ Classify(p) PROVE RowStep
  <2>1. mine[p] \in Gens
    BY <1>1, <1>8 DEF Admit, Finalize, Classify, Minting, Owning, Crossed
  <2> QED
    BY <1>8, <2>1
    DEF Admit, Finalize, Classify, RowStep, Resolves, rows, decVars, attVars, Finalizes,
        FailsSafe, Freezes
<1>9. ASSUME NEW p \in Procs, Expire(p) \/ SaveTerminal(p) \/ SavePending(p) PROVE RowStep
  BY <1>9 DEF Expire, SaveTerminal, SavePending, RowStep, rows, Abandons, Mints,
              Displaceable, attVars
<1>10. ASSUME NEW g \in Gens, Scan(g) \/ Closeout(g) PROVE RowStep
  BY <1>10 DEF Scan, Closeout, RowStep, Resolves, Closes, decVars
<1>11. CASE Crash
  BY <1>11 DEF Crash, RowStep, Orphans, decVars
<1>12. CASE UNCHANGED rows
  BY <1>12 DEF RowStep
<1> QED
  BY <1>2, <1>3, <1>4, <1>5, <1>6, <1>7, <1>8, <1>9, <1>10, <1>11, <1>12
  DEF Next, Thread, vars, rows, decVars, attVars, StartJob, ReclaimJob, StartContext, Rearm,
      Ages, Event, Drain, Guard, Breaks, Refused, Label, Skip, Return, Unclassified,
      SettleJob, SettleContext
-----------------------------------------------------------------------------
(* One lemma per part of the invariant on rows.                            *)

LEMMA GensFact ==
  ASSUME RowsOK
  PROVE  gen \in Nat /\ Gens \subseteq Nat /\ (gen < MaxGens => gen + 1 \in Gens)
<1>1. MaxGens \in Nat /\ gen \in 0..MaxGens
  BY ExecutionAssumption DEF RowsOK
<1> QED
  BY <1>1 DEF Gens

LEMMA FreshStep == RowsOK /\ RowInv /\ RowStep => Fresh'
<1> SUFFICES ASSUME RowsOK, RowInv, RowStep PROVE Fresh'
  OBVIOUS
<1>0. Fresh /\ Pending /\ OwnershipAgrees
  BY DEF RowInv
<1>1. CASE UNCHANGED rows \/ Abandons
  BY <1>0, <1>1 DEF rows, Abandons, Fresh
<1>2. CASE Mints
  <2>1. \A g \in Gens : g > gen' => g > gen
    BY <1>2, GensFact DEF Mints
  <2> QED
    BY <1>0, <1>2, <2>1 DEF Mints, Fresh
<1>3. CASE Orphans
  BY <1>0, <1>3 DEF Orphans, Fresh, Left, Active
<1>4. ASSUME NEW g \in Gens, Takes(g) PROVE Fresh'
  <2>1. astat[g] = "none" /\ ~(g > gen) /\ UNCHANGED <<gen, effect, dead, venue>>
    BY <1>0, <1>4, GensFact DEF Takes, Pending
  <2>2. astat' = [astat EXCEPT ![g] = "claimed"]
    BY <1>4 DEF Takes
  <2> QED
    BY <1>0, <2>1, <2>2 DEF RowsOK, Fresh
<1>5. ASSUME NEW g \in Gens, Marks(g) \/ Closes(g) PROVE Fresh'
  BY <1>0, <1>5, ZenonT(60) DEF RowsOK, Marks, Closes, Fresh
<1>6. ASSUME NEW g \in Gens, Sends(g) PROVE Fresh'
  BY <1>0, <1>6 DEF RowsOK, Sends, Fresh
<1>7. ASSUME NEW g \in Gens, Files(g) PROVE Fresh'
  BY <1>0, <1>7, ZenonT(60) DEF RowsOK, Files, Fresh
<1>8. ASSUME NEW g \in Gens, Refuses(g) PROVE Fresh'
  BY <1>0, <1>8, ZenonT(60) DEF RowsOK, Refuses, Fresh
<1>9. ASSUME NEW g \in Gens, Resolves(g) PROVE Fresh'
  BY <1>0, <1>9, ZenonT(60) DEF RowsOK, Resolves, FailsSafe, Freezes, Finalizes, Fresh
<1> QED
  BY <1>1, <1>2, <1>3, <1>4, <1>5, <1>6, <1>7, <1>8, <1>9 DEF RowStep

LEMMA PendingStep == RowsOK /\ RowInv /\ RowStep => Pending'
<1> SUFFICES ASSUME RowsOK, RowInv, RowStep PROVE Pending'
  OBVIOUS
<1>0. Fresh /\ Pending /\ OwnershipAgrees
  BY DEF RowInv
<1>1. CASE UNCHANGED rows \/ Abandons \/ Orphans
  BY <1>0, <1>1 DEF rows, Abandons, Orphans, Pending
<1>2. CASE Mints
  <2>1. gen' = gen + 1 /\ gen' \in Gens /\ gen' > gen /\ UNCHANGED astat
    BY <1>2, GensFact DEF Mints
  <2> QED
    BY <1>0, <2>1 DEF Fresh, Pending
<1>3. ASSUME NEW g \in Gens, Takes(g) \/ Marks(g) \/ Sends(g) \/ Closes(g) PROVE Pending'
  BY <1>0, <1>3, ZenonT(60) DEF RowsOK, Takes, Marks, Sends, Closes, Pending
<1>4. ASSUME NEW g \in Gens, Files(g) \/ Refuses(g) PROVE Pending'
  BY <1>0, <1>4, ZenonT(60) DEF RowsOK, Files, Refuses, Pending
<1>5. ASSUME NEW g \in Gens, Resolves(g) PROVE Pending'
  BY <1>0, <1>5 DEF RowsOK, Resolves, FailsSafe, Freezes, Finalizes, Pending
<1> QED
  BY <1>1, <1>2, <1>3, <1>4, <1>5 DEF RowStep

\* Claims are not undone, and a new one is of the newest generation.
LEMMA ClaimsGrow ==
  ASSUME RowsOK, RowInv, RowStep
  PROVE  \/ Claimed' = Claimed
         \/ \E g \in Gens : Takes(g) /\ Claimed' = Claimed \cup {g} /\ \A h \in Claimed : h < g
<1>0. Fresh /\ Pending
  BY DEF RowInv
<1>1. CASE UNCHANGED rows \/ Abandons \/ Orphans \/ Mints
  BY <1>1 DEF rows, Abandons, Orphans, Mints, Claimed
<1>2. ASSUME NEW g \in Gens, Takes(g)
      PROVE  Claimed' = Claimed \cup {g} /\ \A h \in Claimed : h < g
  <2>1. Claimed' = Claimed \cup {g}
    BY <1>2 DEF RowsOK, Takes, Claimed
  <2>2. \A h \in Claimed : h < g
    <3>1. \A h \in Gens : ~(h > gen) /\ h # gen => h < gen
      BY GensFact
    <3> QED
      BY <1>0, <1>2, <3>1 DEF Takes, Claimed, Fresh, Pending
  <2> QED
    BY <2>1, <2>2
<1>3. ASSUME NEW g \in Gens, Marks(g) \/ Sends(g) \/ Closes(g) \/ Files(g) \/ Refuses(g)
      PROVE  Claimed' = Claimed
  BY <1>3 DEF RowsOK, Marks, Sends, Closes, Files, Refuses, Claimed
<1>4. ASSUME NEW g \in Gens, Resolves(g) PROVE Claimed' = Claimed
  BY <1>4 DEF RowsOK, Resolves, FailsSafe, Freezes, Finalizes, Claimed
<1> QED
  BY <1>1, <1>2, <1>3, <1>4 DEF RowStep

LEMMA HasLatestStep == RowsOK /\ RowInv /\ RowStep => HasLatest'
<1> SUFFICES ASSUME RowsOK, RowInv, RowStep PROVE HasLatest'
  OBVIOUS
<1>1. CASE Claimed' = Claimed
  BY <1>1 DEF RowInv, HasLatest
<1>2. ASSUME NEW g \in Gens, Claimed' = Claimed \cup {g}, \A h \in Claimed : h < g
      PROVE  HasLatest'
  BY <1>2, ExecutionAssumption DEF HasLatest, Claimed, Gens
<1> QED
  BY <1>1, <1>2, ClaimsGrow

LEMMA OwnershipStep == RowsOK /\ RowInv /\ RowStep => OwnershipAgrees'
<1> SUFFICES ASSUME RowsOK, RowInv, RowStep PROVE OwnershipAgrees'
  OBVIOUS
<1>0. Fresh /\ Pending /\ OwnershipAgrees
  BY DEF RowInv
<1>1. CASE UNCHANGED rows \/ Orphans
  BY <1>0, <1>1 DEF rows, Orphans, OwnershipAgrees, Owns
<1>2. CASE Abandons \/ Mints
  BY <1>0, <1>2 DEF Abandons, Mints, Displaceable, OwnershipAgrees, Owns
<1>3. ASSUME NEW g \in Gens, Takes(g) PROVE OwnershipAgrees'
  BY <1>0, <1>3 DEF RowsOK, Takes, OwnershipAgrees, Owns, Active
<1>4. ASSUME NEW g \in Gens, Marks(g) \/ Sends(g) \/ Closes(g) \/ Files(g) PROVE OwnershipAgrees'
  BY <1>0, <1>4, ZenonT(60) DEF RowsOK, Marks, Sends, Closes, Files, OwnershipAgrees, Owns, Active
<1>5. ASSUME NEW g \in Gens, Refuses(g) PROVE OwnershipAgrees'
  BY <1>0, <1>5 DEF RowsOK, Refuses, OwnershipAgrees, Owns, Active
<1>6. ASSUME NEW g \in Gens, Resolves(g) PROVE OwnershipAgrees'
  BY <1>0, <1>6, ZenonT(60)
  DEF RowsOK, Resolves, FailsSafe, Freezes, Finalizes, OwnershipAgrees, Owns, Active
<1> QED
  BY <1>1, <1>2, <1>3, <1>4, <1>5, <1>6 DEF RowStep

LEMMA FiledStep == RowsOK /\ RowInv /\ RowStep => Filed'
<1> SUFFICES ASSUME RowsOK, RowInv, RowStep PROVE Filed'
  OBVIOUS
<1>0. Filed /\ Fresh /\ Pending
  BY DEF RowInv
<1>1. CASE UNCHANGED rows \/ Abandons \/ Orphans \/ Mints
  BY <1>0, <1>1 DEF rows, Abandons, Orphans, Mints, Filed
<1>2. ASSUME NEW g \in Gens, Takes(g) \/ Marks(g) \/ Closes(g) PROVE Filed'
  <2>1. PICK s \in {"claimed", "executing", "closed"} : astat' = [astat EXCEPT ![g] = s]
    BY <1>2 DEF Takes, Marks, Closes
  <2>2. UNCHANGED <<effect, venue>>
    BY <1>2 DEF Takes, Marks, Closes
  <2> QED
    BY <1>0, <2>1, <2>2 DEF RowsOK, Filed
<1>3. ASSUME NEW g \in Gens, Sends(g) PROVE Filed'
  BY <1>0, <1>3, ZenonT(60) DEF RowsOK, Sends, Filed, Fresh
<1>4. ASSUME NEW g \in Gens, Files(g) PROVE Filed'
  BY <1>0, <1>4 DEF RowsOK, Files, Filed
<1>5. ASSUME NEW g \in Gens, Refuses(g) PROVE Filed'
  BY <1>0, <1>5 DEF RowsOK, Refuses, Filed
<1>6. ASSUME NEW g \in Gens, Resolves(g) PROVE Filed'
  BY <1>0, <1>6, ZenonT(60) DEF RowsOK, Resolves, FailsSafe, Freezes, Finalizes, Filed, Fresh
<1> QED
  BY <1>1, <1>2, <1>3, <1>4, <1>5, <1>6 DEF RowStep

\* What was carried out stays carried out.
LEMMA AppliedStays ==
  ASSUME RowsOK, RowInv, RowStep, NEW g \in Gens, Applied(g)
  PROVE  \E h \in 1..g : venue'[h] = "applied"
<1>1. PICK h \in 1..g : venue[h] = "applied"
  BY DEF Applied
<1>2. h \in Gens
  BY ExecutionAssumption DEF Gens
<1>3. venue' = venue => venue'[h] = "applied"
  BY <1>1
<1>4. ASSUME NEW k \in Gens, Sends(k) PROVE venue'[h] = "applied"
  BY <1>1, <1>2, <1>4 DEF Sends, RowsOK
<1> QED
  BY <1>1, <1>3, <1>4
  DEF RowStep, rows, Abandons, Mints, Orphans, Takes, Marks, Files, Refuses, Resolves, Closes

LEMMA BackedStep == RowsOK /\ RowInv /\ RowStep => Backed'
<1> SUFFICES ASSUME RowsOK, RowInv, RowStep, NEW g \in Gens, effect'[g] = "applied"
             PROVE  Applied(g)'
  BY DEF Backed
<1>1. effect[g] = "applied" \/ Applied(g)
  <2>1. CASE effect' = effect
    BY <2>1
  <2>2. ASSUME NEW k \in Gens, Files(k) PROVE effect[g] = "applied" \/ Applied(g)
    BY <2>2 DEF Files, RowsOK
  <2>3. ASSUME NEW k \in Gens, Refuses(k) PROVE effect[g] = "applied" \/ Applied(g)
    BY <2>3 DEF Refuses, RowsOK
  <2>4. ASSUME NEW k \in Gens, Resolves(k) PROVE effect[g] = "applied" \/ Applied(g)
    BY <2>4 DEF Resolves, FailsSafe, Freezes, Finalizes, RowsOK
  <2> QED
    BY <2>1, <2>2, <2>3, <2>4
    DEF RowStep, rows, Abandons, Mints, Orphans, Takes, Marks, Sends, Closes
<1>2. Applied(g)
  BY <1>1 DEF RowInv, Backed
<1> QED
  BY <1>2, AppliedStays DEF Applied

LEMMA WritesStep == RowsOK /\ RowInv /\ RowStep => WritesAreFiled'
<1> SUFFICES ASSUME RowsOK, RowInv, RowStep PROVE WritesAreFiled'
  OBVIOUS
<1>0. WritesAreFiled /\ Fresh /\ Filed /\ Pending
  BY DEF RowInv
<1>1. CASE UNCHANGED rows \/ Abandons \/ Orphans \/ Mints
  BY <1>0, <1>1 DEF rows, Abandons, Orphans, Mints, WritesAreFiled
<1>2. ASSUME NEW g \in Gens, Takes(g) \/ Marks(g) \/ Closes(g) PROVE WritesAreFiled'
  <2>1. PICK s \in {"claimed", "executing", "closed"} : astat' = [astat EXCEPT ![g] = s]
    BY <1>2 DEF Takes, Marks, Closes
  <2>2. UNCHANGED <<effect, venue>>
    BY <1>2 DEF Takes, Marks, Closes
  <2>3. venue[g] # "none" => effect[g] = "unknown"
    BY <1>0, <1>2 DEF Takes, Marks, Closes, Fresh, Filed, Pending
  <2> QED
    BY <1>0, <2>1, <2>2, <2>3 DEF RowsOK, WritesAreFiled
<1>3. ASSUME NEW g \in Gens, Sends(g) PROVE WritesAreFiled'
  BY <1>0, <1>3 DEF RowsOK, Sends, WritesAreFiled
<1>4. ASSUME NEW g \in Gens, Files(g) PROVE WritesAreFiled'
  BY <1>0, <1>4 DEF RowsOK, Files, WritesAreFiled
<1>5. ASSUME NEW g \in Gens, Refuses(g) PROVE WritesAreFiled'
  BY <1>0, <1>5 DEF RowsOK, Refuses, WritesAreFiled
<1>6. ASSUME NEW g \in Gens, Resolves(g) PROVE WritesAreFiled'
  BY <1>0, <1>6, ZenonT(60) DEF RowsOK, Resolves, FailsSafe, Freezes, Finalizes, WritesAreFiled, Fresh
<1> QED
  BY <1>1, <1>2, <1>3, <1>4, <1>5, <1>6 DEF RowStep

LEMMA RowInvStep == RowsOK /\ RowInv /\ RowStep => RowInv'
BY FreshStep, PendingStep, HasLatestStep, OwnershipStep, FiledStep, BackedStep, WritesStep DEF RowInv
-----------------------------------------------------------------------------
(* Types.                                                                  *)

Starts(p) == StartJob(p) \/ ReclaimJob(p) \/ StartContext(p)

\* RowsOK without its one Boolean, which the provers treat apart.
RowSorts ==
  /\ dec \in {"absent", "pending", "running", "uncertain", "completed"}
  /\ gen \in 0..MaxGens /\ dauto \in 0..MaxGens
  /\ astat \in [Gens -> {"none", "succeeded", "failed_safe"} \cup Active \cup Blocking]
  /\ effect \in [Gens -> {"", "none", "applied", "rejected", "unknown"}]
  /\ dead \subseteq Gens
  /\ venue \in [Gens -> {"none", "applied", "rejected"}]

LEMMA RowSplit == (RowsOK <=> RowSorts /\ dfailed \in BOOLEAN)
                  /\ (RowsOK' <=> RowSorts' /\ dfailed' \in BOOLEAN)
BY DEF RowsOK, RowSorts

LEMMA FlagTyped == IInv /\ [Next]_vars => dfailed' \in BOOLEAN
<1> SUFFICES ASSUME IInv, [Next]_vars PROVE dfailed' \in BOOLEAN
  OBVIOUS
<1>0. dfailed \in BOOLEAN
  BY DEF IInv, TypeOK, RowsOK
<1>1. dfailed' = dfailed \/ dfailed' = TRUE \/ dfailed' = FALSE
  BY DEF Next, Thread, vars, decVars, StartJob, ReclaimJob, StartContext, Rearm, Ages,
         Event, Drain, Crash, Scan, Closeout, Guard, Resume, Expire, Breaks, Refused,
         SaveTerminal, Label, SavePending, Claim, Admit, Skip, Cross, Write, Return, Record,
         Finalize, Refuse, Classify, Unclassified, SettleJob, SettleContext, Finalizes,
         FailsSafe, Freezes
<1> QED
  BY <1>0, <1>1

LEMMA RowsTyped == IInv /\ [Next]_vars => RowsOK'
<1> SUFFICES ASSUME IInv, [Next]_vars PROVE RowSorts'
  BY FlagTyped, RowSplit
<1>0. RowSorts /\ ThreadsOK /\ MaxGens \in Nat /\ Gens = 1..MaxGens /\ 0 \in 0..MaxGens
  BY RowSplit, ExecutionAssumption DEF IInv, TypeOK, Gens
<1>1. ASSUME NEW g \in 0..MaxGens, Finalizes(g) \/ FailsSafe(g) \/ Freezes(g), UNCHANGED venue
      PROVE  RowSorts'
  <2>1. /\ \E s \in {"succeeded", "failed_safe", "uncertain"} : astat' = [astat EXCEPT ![g] = s]
        /\ effect' = effect \/ effect' = [effect EXCEPT ![g] = "unknown"]
        /\ dec' \in {"completed", "uncertain"} /\ dauto' \in {0, g}
        /\ UNCHANGED <<gen, dead, venue>>
    BY <1>1 DEF Finalizes, FailsSafe, Freezes
  <2>2. astat' \in [Gens -> {"none", "succeeded", "failed_safe"} \cup Active \cup Blocking]
    BY <1>0, <2>1 DEF RowSorts, Blocking
  <2>3. effect' \in [Gens -> {"", "none", "applied", "rejected", "unknown"}]
    BY <1>0, <2>1 DEF RowSorts
  <2> QED
    BY <1>0, <2>1, <2>2, <2>3 DEF RowSorts
<1>2. CASE UNCHANGED <<decVars, attVars, venue>>
  BY <1>0, <1>2 DEF RowSorts, decVars, attVars
<1>3. ASSUME NEW p \in Procs, Resume(p) \/ Admit(p) \/ Finalize(p) \/ Classify(p)
      PROVE  RowSorts'
  <2>1. mine[p] \in 0..MaxGens
    BY <1>0 DEF ThreadsOK
  <2> QED
    BY <1>1, <1>2, <1>3, <2>1 DEF Resume, Admit, Finalize, Classify
<1>4. ASSUME NEW p \in Procs, Expire(p) \/ SaveTerminal(p) \/ Label(p) PROVE RowSorts'
  <2>1. /\ dec' \in {dec, "completed"} /\ dauto' \in {0, dauto}
        /\ UNCHANGED <<gen, astat, effect, dead, venue>>
    BY <1>4 DEF Expire, SaveTerminal, Label, attVars
  <2> QED
    BY <1>0, <2>1 DEF RowSorts
<1>5. ASSUME NEW p \in Procs, SavePending(p) PROVE RowSorts'
  <2>1. /\ gen < MaxGens /\ gen' = gen + 1 /\ dec' = "pending" /\ dauto' = 0
        /\ UNCHANGED <<astat, effect, dead, venue>>
    BY <1>5 DEF SavePending, attVars
  <2>2. gen + 1 \in 0..MaxGens
    <3>1. gen \in 0..MaxGens /\ gen < MaxGens /\ MaxGens \in Nat
      BY <1>0, <2>1 DEF RowSorts
    <3> QED
      BY <3>1
  <2> QED
    BY <1>0, <2>1, <2>2 DEF RowSorts
<1>6. ASSUME NEW p \in Procs, Claim(p) \/ Cross(p) \/ Write(p) PROVE RowSorts'
  BY <1>0, <1>6, ZenonT(60) DEF Claim, Cross, Marked, Write, RowSorts, decVars, attVars, Active
<1>7. ASSUME NEW p \in Procs, Record(p) \/ Refuse(p) PROVE RowSorts'
  <2>1. CASE Refuse(p)
    <3>1. /\ \E s \in {"failed_safe", "closed"} : astat' = [astat EXCEPT ![mine[p]] = s]
          /\ effect' = [effect EXCEPT ![mine[p]] = "none"]
          /\ dec' = "completed" /\ dauto' = 0
          /\ UNCHANGED <<gen, dead, venue>>
      BY <2>1 DEF Refuse
    <3> QED
      BY <1>0, <3>1, ZenonT(60) DEF RowSorts, Blocking
  <2>2. CASE Record(p)
    <3>1. Effect(p) \in {"none", "applied", "rejected", "unknown"}
      BY <1>0 DEF Effect, ThreadsOK
    <3> QED
      BY <1>0, <2>2, <3>1 DEF Record, RowSorts, decVars, Active
  <2> QED
    BY <1>7, <2>1, <2>2
<1>8. ASSUME NEW g \in Gens, Scan(g) \/ Closeout(g) PROVE RowSorts'
  <2>1. CASE Scan(g)
    BY <1>0, <1>1, <2>1 DEF Scan
  <2>2. CASE Closeout(g)
    BY <1>0, <2>2 DEF Closeout, RowSorts, decVars, Blocking
  <2> QED
    BY <1>8, <2>1, <2>2
<1>9. CASE Crash
  BY <1>0, <1>9 DEF Crash, RowSorts, decVars, Left
<1> QED
  BY <1>2, <1>3, <1>4, <1>5, <1>6, <1>7, <1>8, <1>9
  DEF Next, Thread, vars, StartJob, ReclaimJob, StartContext, Rearm, Ages, Event, Drain,
      Guard, Breaks, Refused, Skip, Return, Unclassified, SettleJob, SettleContext

LEMMA ThreadsTyped == IInv /\ [Next]_vars => ThreadsOK'
<1> SUFFICES ASSUME IInv, [Next]_vars PROVE ThreadsOK'
  OBVIOUS
<1>0. RowsOK /\ ThreadsOK /\ MaxGens \in Nat /\ Gens = 1..MaxGens /\ HasLatest
  BY ExecutionAssumption DEF IInv, TypeOK, Gens
<1>1. CASE UNCHANGED <<pc, local>>
  BY <1>0, <1>1 DEF ThreadsOK, local
<1>2. ASSUME NEW p \in Procs, NEW s \in Stages, GoesTo(p, s), UNCHANGED local
      PROVE  ThreadsOK'
  BY <1>0, <1>2 DEF ThreadsOK, GoesTo, local
<1>3. ASSUME NEW p \in Procs, NEW s \in Stages, Leaves(p, s) PROVE ThreadsOK'
  BY <1>0, <1>3 DEF ThreadsOK, GoesTo, Leaves
<1>4. ASSUME NEW p \in Procs, Ends(p) PROVE ThreadsOK'
  BY <1>0, <1>4 DEF ThreadsOK, GoesTo, Ends, Stages
<1>5. ASSUME NEW p \in Procs, Starts(p) PROVE ThreadsOK'
  <2>1. ASSUME NEW first \in {"guard", "expire"}, NEW source \in {"job", "event", "retry"},
               Begin(p, source, first)
        PROVE  ThreadsOK'
    BY <1>0, <2>1 DEF ThreadsOK, Begin, GoesTo, Stages
  <2> QED
    BY <1>1, <1>5, <2>1 DEF Starts, StartJob, ReclaimJob, StartContext, ByAge, local
<1>6. ASSUME NEW p \in Procs, Guard(p) PROVE ThreadsOK'
  <2>1. Latest \in 0..MaxGens
    <3>1. CASE Claimed = {}
      BY <1>0, <3>1 DEF Latest
    <3>2. CASE Claimed # {}
      BY <1>0, <3>2, LatestIsNewest
    <3> QED
      BY <3>1, <3>2
  <2>2. PICK next \in {"assess", "blocked", "resume", "error", "ok"} :
               /\ GoesTo(p, next)
               /\ mine' = [mine EXCEPT ![p] = IF next = "resume" THEN Latest ELSE 0]
    BY <1>6 DEF Guard
  <2>3. UNCHANGED <<src, saw>>
    BY <1>6 DEF Guard
  <2> QED
    BY <1>0, <2>1, <2>2, <2>3 DEF ThreadsOK, GoesTo, Stages
<1>7. ASSUME NEW p \in Procs, SavePending(p) PROVE ThreadsOK'
  <2>1. gen + 1 \in 0..MaxGens
    <3>1. gen \in 0..MaxGens /\ gen < MaxGens /\ MaxGens \in Nat
      BY <1>0, <1>7 DEF SavePending, RowsOK
    <3> QED
      BY <3>1
  <2>2. CASE GoesTo(p, "error") /\ UNCHANGED <<mine, saw>>
    BY <1>0, <1>7, <2>2 DEF SavePending, ThreadsOK, GoesTo, Stages
  <2>3. ASSUME NEW knows \in {"none", "hold"}, mine' = [mine EXCEPT ![p] = gen + 1],
               saw' = [saw EXCEPT ![p] = knows], GoesTo(p, "claim")
        PROVE  ThreadsOK'
    BY <1>0, <1>7, <2>1, <2>3 DEF SavePending, ThreadsOK, GoesTo, Stages
  <2> QED
    BY <1>7, <2>2, <2>3 DEF SavePending
<1>8. ASSUME NEW p \in Procs, Write(p) PROVE ThreadsOK'
  BY <1>0, <1>8 DEF Write, ThreadsOK
<1>9. ASSUME NEW p \in Procs, Return(p) PROVE ThreadsOK'
  BY <1>0, <1>9, ZenonT(60) DEF Return, ThreadsOK, GoesTo, Stages, Owning, Crossed
<1>10. CASE Crash
  BY <1>0, <1>10 DEF Crash, ThreadsOK, Stages
<1>11. ASSUME NEW p \in Procs,
              \/ Expire(p) \/ Breaks(p) \/ Refused(p) \/ SaveTerminal(p) \/ Label(p)
              \/ Skip(p) \/ Cross(p) \/ Record(p)
       PROVE  ThreadsOK'
  BY <1>2, <1>11
  DEF Expire, Breaks, Refused, SaveTerminal, Label, Skip, Cross, Record, Stages, Owning,
      Crossed
<1>12. ASSUME NEW p \in Procs,
              \/ Resume(p) \/ Claim(p) \/ Admit(p) \/ Finalize(p) \/ Refuse(p)
              \/ Classify(p) \/ Unclassified(p)
       PROVE  ThreadsOK'
  BY <1>2, <1>3, <1>12
  DEF Resume, Claim, Admit, Finalize, Refuse, Classify, Unclassified, Stages, Owning
<1>13. ASSUME NEW p \in Procs, SettleJob(p) \/ SettleContext(p) PROVE ThreadsOK'
  BY <1>4, <1>13 DEF SettleJob, SettleContext
<1> QED
  BY <1>1, <1>5, <1>6, <1>7, <1>8, <1>9, <1>10, <1>11, <1>12, <1>13
  DEF Next, Thread, Starts, vars, Rearm, Ages, Event, Drain, Scan, Closeout

QueueSorts ==
  /\ job \in {"pending", "claimed", "settled"} /\ holder \in 0..NumProcs
  /\ ctx \in {"idle", "pending", "retry", "running"} /\ ctxHolder \in 0..NumProcs

Flags == charged \in BOOLEAN /\ reclaimed \in BOOLEAN /\ aged \in BOOLEAN
         /\ open \in BOOLEAN /\ accepting \in BOOLEAN

LEMMA FlagsTyped == IInv /\ [Next]_vars => Flags'
<1> SUFFICES ASSUME IInv, [Next]_vars PROVE Flags'
  OBVIOUS
<1>0. Flags
  BY SMTT(60) DEF IInv, TypeOK, QueuesOK, Flags
<1>1. /\ charged' = charged \/ charged' = TRUE \/ charged' = FALSE
      /\ reclaimed' = reclaimed \/ reclaimed' = TRUE \/ reclaimed' = FALSE
      /\ aged' = aged \/ aged' = TRUE
      /\ accepting' = accepting \/ accepting' = TRUE \/ accepting' = FALSE
  BY DEF Next, Thread, vars, jobVars, StartJob, ReclaimJob, StartContext, Rearm, Ages,
         Event, Drain, Crash, Scan, Closeout, Guard, Resume, Expire, Breaks, Refused,
         SaveTerminal, Label, SavePending, Claim, Admit, Skip, Cross, Write, Return, Record,
         Finalize, Refuse, Classify, Unclassified, SettleJob, SettleContext
<1>2. open' = open \/ open' = TRUE \/ open' = FALSE
  BY DEF Next, Thread, vars, ctxVars, StartJob, ReclaimJob, StartContext, Rearm, Ages,
         Event, Drain, Crash, Scan, Closeout, Guard, Resume, Expire, Breaks, Refused,
         SaveTerminal, Label, SavePending, Claim, Admit, Skip, Cross, Write, Return, Record,
         Finalize, Refuse, Classify, Unclassified, SettleJob, SettleContext
<1> QED
  BY <1>0, <1>1, <1>2, ZenonT(60) DEF Flags

LEMMA QueuesTyped == IInv /\ [Next]_vars => QueuesOK'
<1> SUFFICES ASSUME IInv, [Next]_vars PROVE QueueSorts'
  BY FlagsTyped DEF QueuesOK, QueueSorts, Flags
<1>0. QueueSorts /\ ThreadsOK /\ NumProcs \in Nat /\ Procs = 1..NumProcs
  BY ExecutionAssumption DEF IInv, TypeOK, QueuesOK, QueueSorts, Procs
<1>1. ASSUME job' \in {job, "pending", "claimed", "settled"},
             ctx' \in {ctx, "idle", "pending", "retry", "running"},
             holder' \in {holder, 0} \cup Procs, ctxHolder' \in {ctxHolder, 0} \cup Procs
      PROVE  QueueSorts'
  BY <1>0, <1>1 DEF QueueSorts
<1>2. CASE UNCHANGED <<job, holder, ctx, ctxHolder>>
  BY <1>1, <1>2
<1>3. ASSUME NEW p \in Procs, Starts(p) PROVE QueueSorts'
  BY <1>1, <1>3 DEF Starts, StartJob, ReclaimJob, StartContext, jobVars, ctxVars
<1>4. ASSUME NEW p \in Procs, SaveTerminal(p) \/ SavePending(p) PROVE QueueSorts'
  BY <1>1, <1>4 DEF SaveTerminal, SavePending, jobVars
<1>5. ASSUME NEW p \in Procs, SettleJob(p) PROVE QueueSorts'
  BY <1>1, <1>5 DEF SettleJob, jobVars, ctxVars
<1>6. ASSUME NEW p \in Procs, SettleContext(p) PROVE QueueSorts'
  <2>1. src[p] \in {"job", "event", "retry"}
    BY <1>0 DEF ThreadsOK
  <2> QED
    BY <1>1, <1>6, <2>1 DEF SettleContext, jobVars
<1>7. CASE Rearm \/ Ages \/ Event \/ Drain \/ Crash
  BY <1>1, <1>7 DEF Rearm, Ages, Event, Drain, Crash, jobVars, ctxVars
<1> QED
  BY <1>2, <1>3, <1>4, <1>5, <1>6, <1>7
  DEF Next, Thread, Starts, vars, jobVars, ctxVars, Scan, Closeout, Guard, Resume, Expire,
      Breaks, Refused, Label, Claim, Admit, Skip, Cross, Write, Return, Record, Finalize,
      Refuse, Classify, Unclassified

LEMMA BudgetsTyped == IInv /\ [Next]_vars => BudgetsOK'
<1> SUFFICES ASSUME IInv, [Next]_vars PROVE BudgetsOK'
  OBVIOUS
<1>0. BudgetsOK
  BY DEF IInv, TypeOK
<1>1. CASE UNCHANGED budgets
  BY <1>0, <1>1 DEF BudgetsOK, budgets
<1>2. ASSUME NEW p \in Procs, Starts(p) \/ Unclassified(p) PROVE BudgetsOK'
  BY <1>0, <1>2
  DEF Starts, StartJob, ReclaimJob, StartContext, ClaimContext, TakesOver, Unclassified,
      BudgetsOK, budgets
<1>3. CASE Rearm \/ Crash
  BY <1>0, <1>3 DEF Rearm, Crash, BudgetsOK
<1> QED
  BY <1>1, <1>2, <1>3
  DEF Next, Thread, Starts, vars, Ages, Event, Drain, Scan, Closeout, Guard, Resume,
      Expire, Breaks, Refused, SaveTerminal, Label, SavePending, Claim, Admit, Skip, Cross,
      Write, Return, Record, Finalize, Refuse, Classify, SettleJob, SettleContext
-----------------------------------------------------------------------------
(* Threads and the generations they own.                                   *)

\* A thread's step is its own.
LEMMA Frame ==
  ASSUME ThreadsOK, NEW p \in Procs, NEW q \in Procs, q # p, Starts(p) \/ Thread(p)
  PROVE  pc'[q] = pc[q] /\ mine'[q] = mine[q] /\ saw'[q] = saw[q]
<1> USE DEF ThreadsOK
<1>1. ASSUME NEW s, GoesTo(p, s) PROVE pc'[q] = pc[q]
  BY <1>1 DEF GoesTo
<1>2. ASSUME NEW s, Leaves(p, s) \/ (GoesTo(p, s) /\ UNCHANGED local)
      PROVE  pc'[q] = pc[q] /\ mine'[q] = mine[q] /\ saw'[q] = saw[q]
  BY <1>1, <1>2 DEF Leaves, local
<1>3. CASE Starts(p)
  BY <1>1, <1>3 DEF Starts, StartJob, ReclaimJob, StartContext, Begin, local
<1>4. CASE Guard(p) \/ SavePending(p) \/ Return(p) \/ SettleJob(p) \/ SettleContext(p)
  BY <1>1, <1>4 DEF Guard, SavePending, Return, SettleJob, SettleContext, Ends
<1>5. CASE Write(p)
  BY <1>5 DEF Write
<1>6. CASE \/ Resume(p) \/ Claim(p) \/ Admit(p) \/ Finalize(p) \/ Refuse(p) \/ Classify(p)
           \/ Unclassified(p)
  BY <1>2, <1>6 DEF Resume, Claim, Admit, Finalize, Refuse, Classify, Unclassified
<1>7. CASE \/ Expire(p) \/ Breaks(p) \/ Refused(p) \/ SaveTerminal(p) \/ Label(p) \/ Skip(p)
           \/ Cross(p) \/ Record(p)
  BY <1>2, <1>7 DEF Expire, Breaks, Refused, SaveTerminal, Label, Skip, Cross, Record
<1> QED
  BY <1>3, <1>4, <1>5, <1>6, <1>7 DEF Thread

\* A thread moves the row it owns, or publishes an outcome it found.
LEMMA ThreadRows ==
  ASSUME IInv, NEW p \in Procs, Starts(p) \/ Thread(p)
  PROVE  /\ dead' = dead
         /\ \/ UNCHANGED <<astat, venue>>
            \/ /\ pc[p] \in Minting
               /\ \A g \in Gens : g # mine[p] => astat'[g] = astat[g] /\ venue'[g] = venue[g]
            \/ /\ astat[mine[p]] = "outcome_recorded" /\ UNCHANGED venue
               /\ astat' = [astat EXCEPT ![mine[p]] = "succeeded"]
<1>0. RowsOK
  BY DEF IInv, TypeOK
<1> USE <1>0 DEF RowsOK
<1>1. CASE Starts(p)
  BY <1>1 DEF Starts, StartJob, ReclaimJob, StartContext, attVars
<1>2. CASE \/ Guard(p) \/ Expire(p) \/ Breaks(p) \/ Refused(p) \/ SaveTerminal(p) \/ Label(p)
           \/ SavePending(p) \/ Skip(p) \/ Return(p) \/ Unclassified(p) \/ SettleJob(p)
           \/ SettleContext(p)
  BY <1>2
  DEF Guard, Expire, Breaks, Refused, SaveTerminal, Label, SavePending, Skip, Return,
      Unclassified, SettleJob, SettleContext, attVars
<1>3. CASE Resume(p)
  BY <1>3 DEF Resume, Finalizes, attVars
<1>4. CASE Claim(p)
  BY <1>4 DEF Claim, Minting
<1>5. CASE Admit(p)
  BY <1>5 DEF Admit, FailsSafe, attVars, Minting, Owning
<1>6. CASE Cross(p) \/ Record(p)
  BY <1>6 DEF Cross, Record, Minting, Owning, Crossed
<1>7. CASE Write(p)
  BY <1>7 DEF Write, attVars, Minting, Owning, Crossed
<1>8. CASE Finalize(p)
  BY <1>8 DEF Finalize, Finalizes
<1>9. CASE Refuse(p)
  BY <1>9 DEF Refuse, Minting, Owning, Crossed
<1>10. CASE Classify(p)
  BY <1>10, ZenonT(60) DEF Classify, FailsSafe, Freezes, attVars, Minting
<1> QED
  BY <1>1, <1>2, <1>3, <1>4, <1>5, <1>6, <1>7, <1>8, <1>9, <1>10 DEF Thread

\* An owner keeps what it holds through a step that leaves it and its row alone.
LEMMA Undisturbed ==
  ASSUME IInv, RowStep, NEW q \in Procs, pc[q] \in Owning,
         pc'[q] = pc[q], mine'[q] = mine[q], saw'[q] = saw[q], mine[q] \notin dead',
         venue'[mine[q]] = venue[mine[q]],
         \/ astat'[mine[q]] = astat[mine[q]]
         \/ astat[mine[q]] = "outcome_recorded" /\ astat'[mine[q]] = "succeeded"
  PROVE  Holds(q)'
<1>1. Holds(q) /\ mine[q] \in Gens /\ RowsOK /\ RowInv
  BY DEF IInv, TypeOK, Holding, Exclusive, Minting, RowInv
<1>2. Stage(q)'
  BY <1>1 DEF Holds, Stage
<1>3. Applied(mine[q]) => \E h \in 1..mine[q] : venue'[h] = "applied"
  BY <1>1, AppliedStays
<1>4. Seen(q)'
  BY <1>1, <1>3 DEF Holds, Seen, Applied
<1> QED
  BY <1>2, <1>4 DEF Holds

\* The thread that acts holds what it goes on with.
LEMMA OwnHold ==
  ASSUME IInv, RowStep, NEW p \in Procs, Starts(p) \/ Thread(p), pc'[p] \in Owning
  PROVE  Holds(p)'
<1>0. RowsOK /\ ThreadsOK /\ RowInv /\ Exclusive /\ Fresh
  BY DEF IInv, TypeOK, RowInv
<1>1. pc[p] \in Owning => Holds(p)
  BY DEF IInv, Holding
<1>2. pc[p] \in Minting => mine[p] \in Gens
  BY <1>0 DEF Exclusive
<1>3. CASE Claim(p)
  <2>1. /\ dec = "pending" /\ gen = mine[p] /\ pc' = [pc EXCEPT ![p] = "admit"]
        /\ astat' = [astat EXCEPT ![mine[p]] = "claimed"]
        /\ UNCHANGED <<mine, saw, dead, venue>>
    BY <1>0, <1>3 DEF Claim, Claims, Leaves, GoesTo, ThreadsOK, Owning, Crossed, local
  <2>2. mine[p] \in Gens /\ astat[mine[p]] = "none" /\ venue[mine[p]] = "none" /\ mine[p] \notin dead
    BY <1>0, <2>1 DEF RowInv, Pending, Fresh
  <2>3. saw[p] \in {"none", "hold"}
    BY <1>0, <1>3 DEF Claim, Exclusive
  <2> QED
    BY <1>0, <2>1, <2>2, <2>3 DEF Holds, Stage, Seen, ThreadsOK, RowsOK
<1>4. CASE Admit(p)
  <2>1. Holds(p) /\ mine[p] \in Gens
    BY <1>1, <1>2, <1>4 DEF Admit, Owning, Minting
  <2>2. CASE Leaves(p, "error")
    BY <1>0, <2>2 DEF Leaves, GoesTo, ThreadsOK, Owning, Crossed
  <2>3. CASE accepting
    <3>1. pc' = [pc EXCEPT ![p] = "apply"] /\ pc[p] = "admit"
          /\ UNCHANGED <<astat, dead, venue, mine, saw>>
      BY <1>4, <2>3 DEF Admit, GoesTo, attVars, local
    <3> QED
      BY <1>0, <2>1, <3>1 DEF Holds, Stage, Seen, Applied, ThreadsOK
  <2> QED
    BY <1>4, <2>2, <2>3 DEF Admit
<1>5. CASE Skip(p)
  <2>1. Holds(p) /\ saw[p] \in {"hold", "none"}
    BY <1>0, <1>1, <1>5 DEF Skip, Owning, Exclusive
  <2>2. pc' = [pc EXCEPT ![p] = "record"] /\ pc[p] = "apply"
        /\ UNCHANGED <<astat, dead, venue, mine, saw>>
    BY <1>5 DEF Skip, GoesTo, attVars, local
  <2> QED
    BY <1>0, <2>1, <2>2 DEF Holds, Stage, Seen, Applied, ThreadsOK
<1>6. CASE Cross(p)
  <2>1. Holds(p) /\ mine[p] \in Gens
    BY <1>1, <1>2, <1>6 DEF Cross, Owning, Minting
  <2>2. pc' = [pc EXCEPT ![p] = "run"] /\ astat' = [astat EXCEPT ![mine[p]] = "executing"]
        /\ UNCHANGED <<dead, venue, mine, saw>>
    BY <1>6 DEF Cross, Marked, GoesTo, local
  <2> QED
    BY <1>0, <2>1, <2>2, ZenonT(60) DEF Holds, Stage, Seen, Applied, ThreadsOK, RowsOK
<1>7. CASE Write(p)
  <2>1. Holds(p) /\ mine[p] \in Gens /\ pc[p] = "run"
    BY <1>1, <1>2, <1>7 DEF Write, Owning, Minting, Crossed
  <2>2. PICK did \in {"applied", "rejected"}, s \in {"applied", "rejected", "unknown"} :
          /\ venue' = [venue EXCEPT ![mine[p]] = did]
          /\ saw' = [saw EXCEPT ![p] = s] /\ s \in {did, "unknown"}
    BY <1>7 DEF Write
  <2>3. UNCHANGED <<astat, dead, pc, mine>>
    BY <1>7 DEF Write, attVars
  <2>4. venue'[mine[p]] = did /\ saw'[p] = s
    BY <1>0, <2>1, <2>2 DEF RowsOK, ThreadsOK
  <2>5. did = "applied" => \E h \in 1..mine[p] : venue'[h] = "applied"
    BY <2>1, <2>4, GensFact, <1>0 DEF Gens
  <2> QED
    BY <2>1, <2>2, <2>3, <2>4, <2>5 DEF Holds, Stage, Seen, Applied
<1>8. CASE Return(p)
  <2>1. Holds(p) /\ mine[p] \in Gens /\ pc[p] = "run"
    BY <1>1, <1>2, <1>8 DEF Return, Owning, Minting, Crossed
  <2>2. UNCHANGED <<astat, dead, venue, mine>>
    BY <1>8 DEF Return, attVars
  <2>3. CASE saw[p] = "none" /\ Terminal /\ saw' = [saw EXCEPT ![p] = "applied"]
             /\ pc' = [pc EXCEPT ![p] = "record"]
    <3>1. PICK g \in Gens : venue[g] = "applied"
      BY <2>3 DEF Terminal
    <3>2. g <= mine[p]
      <4>1. ~(g > gen) /\ gen = mine[p]
        BY <1>0, <2>1, <3>1 DEF Fresh, Holds, Stage, RowInv, OwnershipAgrees, Owns, Active
      <4> QED
        BY <1>0, <2>1, <4>1, GensFact
    <3>3. Applied(mine[p])
      BY <1>0, <2>1, <3>1, <3>2, GensFact DEF Applied, Gens
    <3> QED
      BY <1>0, <2>1, <2>2, <2>3, <3>3 DEF Holds, Stage, Seen, Applied, ThreadsOK
  <2>4. CASE UNCHANGED saw /\ saw[p] # "unknown" /\ pc' = [pc EXCEPT ![p] = "record"]
    BY <1>0, <2>1, <2>2, <2>4 DEF Holds, Stage, Seen, Applied, ThreadsOK
  <2>5. CASE UNCHANGED saw /\ saw[p] = "none"
             /\ \E how \in {"refuse", "preflight"} : pc' = [pc EXCEPT ![p] = how]
    BY <1>0, <2>1, <2>2, <2>5 DEF Holds, Stage, Seen, Applied, ThreadsOK
  <2> QED
    BY <1>8, <2>3, <2>4, <2>5 DEF Return, GoesTo, ProvesNoContact
<1>9. CASE Record(p)
  <2>1. Holds(p) /\ mine[p] \in Gens
    BY <1>1, <1>2, <1>9 DEF Record, Owning, Minting, Crossed
  <2>2. pc' = [pc EXCEPT ![p] = "finalize"] /\ UNCHANGED <<dead, venue, mine, saw>>
        /\ astat' = [astat EXCEPT ![mine[p]] = "outcome_recorded"]
    BY <1>9 DEF Record, GoesTo, local
  <2> QED
    BY <1>0, <2>1, <2>2, ZenonT(60) DEF Holds, Stage, Seen, Applied, ThreadsOK, RowsOK
<1>10. ASSUME NEW s, pc' = [pc EXCEPT ![p] = s], s \notin Owning PROVE FALSE
  BY <1>0, <1>10 DEF ThreadsOK
<1>11. CASE Starts(p)
  <2>1. pc[p] = "idle"  \/ UNCHANGED pc
    BY <1>11 DEF Starts, StartJob, ReclaimJob, StartContext, Begin
  <2>2. CASE UNCHANGED <<pc, local>>
    <3>1. Holds(p)
      BY <1>1, <2>2
    <3>2. UNCHANGED <<astat, dead, venue, mine, saw>>
      BY <1>11, <2>2 DEF Starts, StartJob, ReclaimJob, StartContext, attVars, local
    <3> QED
      BY <2>2, <3>1, <3>2 DEF Holds, Stage, Seen, Applied
  <2>3. CASE \E s \in {"guard", "expire"} : pc' = [pc EXCEPT ![p] = s]
    BY <1>10, <2>3 DEF Owning, Crossed
  <2> QED
    BY <1>11, <2>2, <2>3 DEF Starts, StartJob, ReclaimJob, StartContext, Begin, GoesTo, ByAge
<1>12. CASE Guard(p)
  BY <1>10, <1>12 DEF Guard, GoesTo, Owning, Crossed
<1>13. CASE SavePending(p)
  BY <1>10, <1>13 DEF SavePending, GoesTo, Owning, Crossed
<1>14. CASE \/ Resume(p) \/ Finalize(p) \/ Refuse(p) \/ Classify(p) \/ Unclassified(p)
            \/ SettleJob(p) \/ SettleContext(p)
  BY <1>10, <1>14
  DEF Resume, Finalize, Refuse, Classify, Unclassified, SettleJob, SettleContext, Leaves,
      Ends, GoesTo, Owning, Crossed
<1>15. CASE Expire(p) \/ Breaks(p) \/ Refused(p) \/ SaveTerminal(p) \/ Label(p)
  BY <1>10, <1>15
  DEF Expire, Breaks, Refused, SaveTerminal, Label, GoesTo, Owning, Crossed
<1> QED
  BY <1>3, <1>4, <1>5, <1>6, <1>7, <1>8, <1>9, <1>11, <1>12, <1>13, <1>14, <1>15 DEF Thread
LEMMA HoldingStep == IInv /\ [Next]_vars => Holding'
<1> SUFFICES ASSUME IInv, [Next]_vars, NEW q \in Procs, pc'[q] \in Owning PROVE Holds(q)'
  BY DEF Holding
<1>0. RowsOK /\ ThreadsOK /\ Exclusive /\ Holding /\ RowStep
  BY StepsAreRowSteps DEF IInv, TypeOK
<1>1. ASSUME pc[q] \in Owning PROVE Holds(q) /\ mine[q] \in Gens
  BY <1>0, <1>1 DEF Exclusive, Holding, Minting
<1>2. ASSUME NEW p \in Procs, Starts(p) \/ Thread(p) PROVE Holds(q)'
  <2>1. CASE p = q
    BY <1>0, <1>2, <2>1, OwnHold
  <2>2. CASE p # q
    <3>1. pc'[q] = pc[q] /\ mine'[q] = mine[q] /\ saw'[q] = saw[q]
      BY <1>0, <1>2, <2>2, Frame
    <3>2. Holds(q) /\ mine[q] \in Gens /\ pc[q] \in Owning
      BY <1>1, <3>1
    <3>3. dead' = dead
      BY <1>2, ThreadRows
    <3>4. CASE UNCHANGED <<astat, venue>>
      BY <1>0, <3>1, <3>2, <3>3, <3>4, Undisturbed DEF Holds
    <3>5. CASE /\ pc[p] \in Minting
               /\ \A g \in Gens : g # mine[p] => astat'[g] = astat[g] /\ venue'[g] = venue[g]
      <4>1. mine[p] # mine[q]
        BY <1>0, <2>2, <3>2, <3>5 DEF Exclusive, Minting
      <4> QED
        BY <1>0, <3>1, <3>2, <3>3, <3>5, <4>1, Undisturbed DEF Holds
    <3>6. CASE /\ astat[mine[p]] = "outcome_recorded" /\ UNCHANGED venue
               /\ astat' = [astat EXCEPT ![mine[p]] = "succeeded"]
      <4>1. \/ astat'[mine[q]] = astat[mine[q]]
            \/ astat[mine[q]] = "outcome_recorded" /\ astat'[mine[q]] = "succeeded"
        BY <1>0, <3>2, <3>6 DEF RowsOK
      <4> QED
        BY <1>0, <3>1, <3>2, <3>3, <3>6, <4>1, Undisturbed DEF Holds
    <3> QED
      BY <1>2, <3>4, <3>5, <3>6, ThreadRows
  <2> QED
    BY <2>1, <2>2
<1>3. ASSUME NEW g \in Gens, Scan(g) \/ Closeout(g) PROVE Holds(q)'
  <2>1. UNCHANGED <<pc, mine, saw, dead, venue>>
    BY <1>3 DEF Scan, Closeout, local, FailsSafe, Freezes, Finalizes
  <2>2. Holds(q) /\ mine[q] \in Gens /\ pc[q] \in Owning
    BY <1>1, <2>1
  <2>3. mine[q] # g
    BY <1>3, <2>2 DEF Scan, OwnerGone, Closeout, Holds, Stage, Owning, Crossed
  <2>4. \E s \in {"failed_safe", "uncertain", "succeeded", "closed"} : astat' = [astat EXCEPT ![g] = s]
    BY <1>3 DEF Scan, Closeout, FailsSafe, Freezes, Finalizes
  <2>5. astat'[mine[q]] = astat[mine[q]]
    BY <1>0, <2>2, <2>3, <2>4 DEF RowsOK
  <2> QED
    BY <1>0, <2>1, <2>2, <2>5, Undisturbed DEF Holds
<1>4. CASE Crash
  BY <1>4 DEF Crash, Owning, Crossed
<1>5. CASE UNCHANGED <<pc, local, astat, dead, venue>>
  <2>1. Holds(q)
    BY <1>1, <1>5
  <2> QED
    BY <1>5, <2>1 DEF Holds, Stage, Seen, Applied, local
<1> QED
  BY <1>2, <1>3, <1>4, <1>5
  DEF Next, Starts, vars, attVars, Rearm, Ages, Event, Drain

\* A thread keeps the generation it holds, drops it, mints one, or looks up the
\* newest claimed one.
LEMMA OwnMine ==
  ASSUME IInv, NEW p \in Procs, Starts(p) \/ Thread(p)
  PROVE  \/ pc'[p] = pc[p] /\ mine'[p] = mine[p] /\ (saw'[p] = saw[p] \/ pc[p] = "run")
         \/ pc'[p] \notin Minting \cup {"resume"} /\ mine'[p] \in {0, mine[p]}
         \/ pc'[p] = "resume" /\ mine'[p] = Latest /\ Latest # 0
         \/ /\ pc'[p] \in Minting /\ pc[p] \in Minting /\ mine'[p] = mine[p]
            /\ pc'[p] \in {"claim", "admit", "apply"} =>
                 saw'[p] = saw[p] /\ pc[p] \in {"claim", "admit", "apply"}
         \/ /\ pc'[p] = "claim" /\ mine'[p] = gen + 1 /\ gen' = gen + 1 /\ gen < MaxGens
            /\ saw'[p] \in {"hold", "none"}
<1>0. ThreadsOK
  BY DEF IInv, TypeOK
<1> USE <1>0 DEF ThreadsOK, GoesTo, Minting, Owning, Crossed
<1>1. CASE Starts(p)
  BY <1>1 DEF Starts, StartJob, ReclaimJob, StartContext, Begin, ByAge, local
<1>2. CASE Guard(p)
  <2>1. PICK next \in {"assess", "blocked", "resume", "error", "ok"} :
               /\ GoesTo(p, next)
               /\ mine' = [mine EXCEPT ![p] = IF next = "resume" THEN Latest ELSE 0]
               /\ next = "resume" => Latest # 0
    BY <1>2 DEF Guard
  <2> QED
    BY <2>1
<1>3. CASE SavePending(p)
  BY <1>3 DEF SavePending
<1>4. CASE \/ Resume(p) \/ Finalize(p) \/ Refuse(p) \/ Classify(p) \/ Unclassified(p)
           \/ SettleJob(p) \/ SettleContext(p)
  BY <1>4
  DEF Resume, Finalize, Refuse, Classify, Unclassified, SettleJob, SettleContext, Leaves, Ends
<1>5. CASE Expire(p) \/ Breaks(p) \/ Refused(p) \/ SaveTerminal(p) \/ Label(p)
  BY <1>5 DEF Expire, Breaks, Refused, SaveTerminal, Label, local
<1>6. CASE Claim(p) \/ Admit(p)
  BY <1>6 DEF Claim, Admit, Leaves, local
<1>7. CASE Skip(p) \/ Cross(p) \/ Record(p)
  BY <1>7 DEF Skip, Cross, Record, local
<1>8. CASE Write(p)
  BY <1>8 DEF Write
<1>9. CASE Return(p)
  BY <1>9 DEF Return
<1> QED
  BY <1>1, <1>2, <1>3, <1>4, <1>5, <1>6, <1>7, <1>8, <1>9 DEF Thread

LEMMA ExclusiveStep == IInv /\ [Next]_vars => Exclusive'
<1> SUFFICES ASSUME IInv, [Next]_vars PROVE Exclusive'
  OBVIOUS
<1>0. RowsOK /\ ThreadsOK /\ Exclusive /\ RowStep /\ HasLatest /\ Fresh
  BY StepsAreRowSteps DEF IInv, TypeOK
<1>1. gen \in Nat /\ gen' \in {gen, gen + 1}
  BY <1>0, GensFact
  DEF RowStep, rows, Abandons, Mints, Orphans, Takes, Marks, Sends, Files, Refuses,
      Resolves, FailsSafe, Freezes, Finalizes, Closes
<1>2. Latest # 0 => Latest \in Gens /\ Latest <= gen
  <2>1. CASE Claimed = {}
    BY <2>1 DEF Latest
  <2>2. CASE Claimed # {}
    <3>1. Latest \in Gens /\ astat[Latest] # "none"
      BY <1>0, <2>2, LatestIsNewest DEF Claimed
    <3>2. ~(Latest > gen)
      BY <1>0, <3>1 DEF Fresh
    <3> QED
      BY <1>0, <3>1, <3>2, GensFact
  <2> QED
    BY <2>1, <2>2
<1>3. \A q \in Procs : mine[q] \in Nat
  BY <1>0, ExecutionAssumption DEF ThreadsOK
<1>4. ASSUME NEW p \in Procs, Starts(p) \/ Thread(p) PROVE Exclusive'
  <2>1. \A q \in Procs : q # p => pc'[q] = pc[q] /\ mine'[q] = mine[q] /\ saw'[q] = saw[q]
    BY <1>0, <1>4, Frame
  <2>2. \A q \in Procs : mine[q] <= gen' /\ mine[q] # gen + 1 /\ 0 <= gen'
    BY <1>0, <1>1, <1>3 DEF Exclusive
  <2>3. gen < MaxGens => gen + 1 \in Gens
    BY <1>0, GensFact
  <2>4. ASSUME mine'[p] <= gen', pc'[p] \in Minting \cup {"resume"} => mine'[p] \in Gens,
               pc'[p] \in Minting => \A q \in Procs : q # p /\ pc[q] \in Minting => mine[q] # mine'[p],
               pc'[p] \in {"claim", "admit", "apply"} => saw'[p] \in {"hold", "none"}
        PROVE  Exclusive'
    BY <1>0, <2>1, <2>2, <2>4 DEF Exclusive
  <2>5. CASE pc'[p] = pc[p] /\ mine'[p] = mine[p] /\ (saw'[p] = saw[p] \/ pc[p] = "run")
    BY <1>0, <2>2, <2>4, <2>5 DEF Exclusive
  <2>6. CASE pc'[p] \notin Minting \cup {"resume"} /\ mine'[p] \in {0, mine[p]}
    BY <2>2, <2>4, <2>6 DEF Minting, Owning
  <2>7. CASE pc'[p] = "resume" /\ mine'[p] = Latest /\ Latest # 0
    <3>1. Latest <= gen'
      BY <1>1, <1>2, <2>7, <1>0, GensFact
    <3> QED
      BY <1>2, <2>4, <2>7, <3>1 DEF Minting, Owning, Crossed
  <2>8. CASE /\ pc'[p] \in Minting /\ pc[p] \in Minting /\ mine'[p] = mine[p]
             /\ pc'[p] \in {"claim", "admit", "apply"} =>
                  saw'[p] = saw[p] /\ pc[p] \in {"claim", "admit", "apply"}
    BY <1>0, <2>2, <2>4, <2>8 DEF Exclusive
  <2>9. CASE /\ pc'[p] = "claim" /\ mine'[p] = gen + 1 /\ gen' = gen + 1 /\ gen < MaxGens
             /\ saw'[p] \in {"hold", "none"}
    <3>1. mine'[p] <= gen'
      BY <1>1, <2>9
    <3> QED
      BY <2>2, <2>3, <2>4, <2>9, <3>1
  <2> QED
    BY <1>4, <2>5, <2>6, <2>7, <2>8, <2>9, OwnMine
<1>5. CASE Crash
  BY <1>0, <1>1, <1>5 DEF Crash, Exclusive, Minting, Owning, Crossed
<1>6. CASE UNCHANGED <<pc, local, gen>>
  BY <1>0, <1>6 DEF Exclusive, local
<1> QED
  BY <1>4, <1>5, <1>6
  DEF Next, Starts, vars, decVars, Rearm, Ages, Event, Drain, Scan, Closeout, FailsSafe,
      Freezes, Finalizes
-----------------------------------------------------------------------------
(* The invariant and what follows from it.                                 *)

LEMMA InitInv == Init => IInv
<1> SUFFICES ASSUME Init PROVE IInv
  OBVIOUS
<1>0. 0 \in 0..MaxGens /\ 0 \in 0..NumProcs
  <2>1. MaxGens \in Nat /\ NumProcs \in Nat
    BY ExecutionAssumption
  <2> QED
    BY <2>1
<1> USE DEF Init
<1>1. RowsOK
  BY <1>0 DEF RowsOK
<1>2. QueuesOK
  BY <1>0 DEF QueuesOK
<1>3. ThreadsOK
  BY <1>0 DEF ThreadsOK, Stages
<1>4. BudgetsOK
  BY DEF BudgetsOK
<1>5. Claimed = {}
  BY DEF Claimed
<1>6. Fresh /\ Pending /\ HasLatest /\ Filed /\ Backed /\ WritesAreFiled
  BY <1>5 DEF Fresh, Pending, HasLatest, Filed, Backed, WritesAreFiled
<1>7. OwnershipAgrees
  BY DEF OwnershipAgrees, Owns, Active
<1>8. Exclusive /\ Holding
  <2>1. \A p \in Procs : pc[p] \notin Minting \cup {"resume"}
    BY DEF Minting, Owning, Crossed
  <2>2. \A p \in Procs : mine[p] <= gen
    <3>1. \A p \in Procs : mine[p] = 0
      OBVIOUS
    <3>2. gen = 0
      OBVIOUS
    <3> HIDE DEF Init
    <3> QED
      BY <3>1, <3>2
  <2> QED
    BY <2>1, <2>2 DEF Exclusive, Holding, Minting
<1> QED
  BY <1>1, <1>2, <1>3, <1>4, <1>6, <1>7, <1>8 DEF IInv, TypeOK

LEMMA StepInv == IInv /\ [Next]_vars => IInv'
<1> SUFFICES ASSUME IInv, [Next]_vars PROVE IInv'
  OBVIOUS
<1>1. TypeOK'
  BY RowsTyped, QueuesTyped, ThreadsTyped, BudgetsTyped DEF TypeOK
<1>2. RowInv'
  BY StepsAreRowSteps, RowInvStep DEF IInv, TypeOK, RowInv
<1> QED
  BY <1>1, <1>2, HoldingStep, ExclusiveStep DEF IInv, RowInv

THEOREM Invariance == Spec => []IInv
BY InitInv, StepInv, PTL DEF Spec

\* The state is always of its type.
THEOREM TypeCorrect == Spec => []TypeOK
<1>1. IInv => TypeOK
  BY DEF IInv
<1> QED
  BY <1>1, Invariance, PTL

\* The decision and its newest attempt always agree on whether an execution is
\* under way, whatever crashes, late threads, the scanner and the operator do.
THEOREM OwnershipHeld == Spec => []OwnershipAgrees
<1>1. IInv => OwnershipAgrees
  BY DEF IInv
<1> QED
  BY <1>1, Invariance, PTL

\* What is on file about the exchange is always true.
THEOREM OutcomesTrue == Spec => []OutcomeTruthful
<1>1. IInv => OutcomeTruthful
  BY DEF IInv, Filed, Backed, Applied, OutcomeTruthful
<1> QED
  BY <1>1, Invariance, PTL

\* No generation that reached the exchange is lost from the books.
THEOREM WritesFiled == Spec => []WritesAreFiled
<1>1. IInv => WritesAreFiled
  BY DEF IInv
<1> QED
  BY <1>1, Invariance, PTL

-----------------------------------------------------------------------------
(* The execution implements the fence.                                     *)

LEMMA NewestOf ==
  ASSUME NEW S, S \subseteq Nat, NEW m \in S, \A h \in S : h <= m
  PROVE  (CHOOSE g \in S : \A h \in S : h <= g) = m
<1> DEFINE c == CHOOSE g \in S : \A h \in S : h <= g
<1>1. c \in S /\ \A h \in S : h <= c
  OBVIOUS
<1>2. c <= m /\ m <= c /\ c \in Nat /\ m \in Nat
  BY <1>1
<1> QED
  BY <1>2

LEMMA FenceStep == IInv /\ [Next]_vars => [Fence!Next]_(Fence!vars)
<1> SUFFICES ASSUME IInv, [Next]_vars PROVE [Fence!Next]_(Fence!vars)
  OBVIOUS
<1> DEFINE written == {g \in Gens : venue[g] # "none"}
<1>0. RowsOK /\ RowInv /\ RowStep /\ Gens \subseteq Nat /\ gen \in Nat
  BY StepsAreRowSteps, GensFact DEF IInv, TypeOK, RowInv
<1>1. ASSUME Claimed' = Claimed PROVE Latest' = Latest
  BY <1>1 DEF Latest
<1>2. ASSUME Gate' = Gate, Claimed' = Claimed, venue' = venue PROVE UNCHANGED Fence!vars
  BY <1>1, <1>2 DEF Fence!vars
<1>3. CASE UNCHANGED rows \/ Abandons \/ Mints \/ Orphans
  <2>1. Gate' = Gate /\ Claimed' = Claimed /\ venue' = venue
    BY <1>3 DEF rows, Abandons, Mints, Orphans, Displaceable, Gate, Claimed
  <2> QED
    BY <1>2, <2>1
<1>4. ASSUME NEW g \in Gens, Takes(g) PROVE Fence!Next
  <2>1. Claimed' = Claimed \cup {g} /\ \A h \in Claimed : h < g
    <3>1. ~(Claimed' = Claimed)
      BY <1>0, <1>4 DEF Takes, Claimed, RowsOK, RowInv, Pending
    <3>2. PICK k \in Gens : Takes(k) /\ Claimed' = Claimed \cup {k} /\ \A h \in Claimed : h < k
      BY <1>0, <3>1, ClaimsGrow
    <3> QED
      BY <1>4, <3>2 DEF Takes
  <2>2. Claimed \subseteq Nat /\ g \in Nat
    BY <1>0 DEF Claimed
  <2>3. Latest' = g
    <3>1. \A h \in Claimed' : h <= g
      BY <2>1, <2>2
    <3>2. Claimed' \subseteq Nat /\ g \in Claimed' /\ Claimed' # {}
      BY <2>1, <2>2
    <3> QED
      BY <3>1, <3>2, NewestOf DEF Latest
  <2>4. g > Latest
    <3>1. CASE Claimed = {}
      BY <2>2, <3>1, ExecutionAssumption DEF Latest, Gens
    <3>2. CASE Claimed # {}
      BY <1>0, <2>1, <2>2, <3>2, LatestIsNewest DEF RowInv
    <3> QED
      BY <3>1, <3>2
  <2>5. Gate = "open" /\ Gate' = "held" /\ venue' = venue
    BY <1>4 DEF Takes, Gate
  <2> QED
    BY <2>3, <2>4, <2>5 DEF Fence!Next, Fence!Take
<1>5. ASSUME NEW g \in Gens, Marks(g) \/ Closes(g) \/ Files(g) PROVE UNCHANGED Fence!vars
  <2>1. Gate' = Gate /\ venue' = venue
    BY <1>5 DEF Marks, Closes, Files, Gate
  <2>2. Claimed' = Claimed
    BY <1>0, <1>5 DEF Marks, Closes, Files, Claimed, RowsOK
  <2> QED
    BY <1>2, <2>1, <2>2
<1>6. ASSUME NEW g \in Gens, Sends(g) PROVE Fence!Next
  <2>1. dec = "running" /\ gen = g
    BY <1>0, <1>6 DEF Sends, RowInv, OwnershipAgrees, Owns, Active
  <2>2. Gate = "held" /\ Gate' = "held"
    BY <1>6, <2>1 DEF Sends, Gate
  <2>3. Claimed' = Claimed
    BY <1>6 DEF Sends, Claimed
  <2>4. Latest = g
    <3>1. g \in Claimed /\ Claimed \subseteq Nat
      BY <1>0, <1>6 DEF Sends, Claimed
    <3>2. \A h \in Claimed : h <= g
      <4>1. \A h \in Claimed : h \in Nat /\ ~(h > gen)
        BY <1>0 DEF RowInv, Fresh, Claimed
      <4> QED
        BY <1>0, <2>1, <4>1
    <3> QED
      BY <3>1, <3>2, NewestOf DEF Latest
  <2>5. written' = written \cup {g}
    <3>1. PICK did \in {"applied", "rejected"} : venue' = [venue EXCEPT ![g] = did]
      BY <1>6 DEF Sends
    <3> QED
      BY <1>0, <3>1 DEF RowsOK
  <2> QED
    BY <1>1, <2>2, <2>3, <2>4, <2>5 DEF Fence!Next, Fence!Write
<1>7. ASSUME NEW g \in Gens, Refuses(g) \/ Resolves(g) PROVE Fence!Next
  <2>1. Gate = "held" /\ Gate' \in {"open", "frozen"} /\ venue' = venue
    BY <1>7 DEF Refuses, Resolves, FailsSafe, Freezes, Finalizes, Owns, Gate
  <2>2. Claimed' = Claimed
    BY <1>0, <1>7, ZenonT(60) DEF Refuses, Resolves, FailsSafe, Freezes, Finalizes, Claimed, RowsOK
  <2> QED
    BY <1>1, <2>1, <2>2 DEF Fence!Next, Fence!LetGo, Fence!Freeze
<1> QED
  BY <1>0, <1>3, <1>4, <1>5, <1>6, <1>7 DEF RowStep

\* Every execution of the message keeps the fence: one hand at a time, in order,
\* only the hand in possession writes, and a frozen gate never opens.
THEOREM FenceKept == Spec => RefinesFence
<1>1. Init => Fence!Init
  <2> SUFFICES ASSUME Init PROVE Fence!Init
    OBVIOUS
  <2>1. Claimed = {} /\ {g \in Gens : venue[g] # "none"} = {}
    BY DEF Init, Claimed
  <2>2. Latest = 0 /\ Gate = "open"
    BY <2>1 DEF Init, Latest, Gate
  <2> QED
    BY <2>1, <2>2 DEF Fence!Init
<1> QED
  BY <1>1, FenceStep, Invariance, PTL DEF Spec, RefinesFence, Fence!Spec

\* What the fence comes to: the exchange is asked only for the newest attempt and
\* only while the decision says that an execution is under way; a message whose
\* outcome is uncertain stays so, and nothing is sent for it again.
THEOREM OnlyTheOwnerWrites ==
  Spec => [][/\ \A g \in Gens : venue[g] = "none" /\ venue'[g] # "none" =>
                  dec = "running" /\ g = Latest
             /\ dec = "uncertain" => dec' = "uncertain" /\ Gate' = "frozen"]_vars
<1>1. [Fence!Next]_(Fence!vars) =>
        /\ \A g \in Gens : venue[g] = "none" /\ venue'[g] # "none" =>
             dec = "running" /\ g = Latest
        /\ dec = "uncertain" => dec' = "uncertain" /\ Gate' = "frozen"
  <2> SUFFICES ASSUME [Fence!Next]_(Fence!vars)
               PROVE  /\ \A g \in Gens : venue[g] = "none" /\ venue'[g] # "none" =>
                           dec = "running" /\ g = Latest
                      /\ dec = "uncertain" => dec' = "uncertain" /\ Gate' = "frozen"
    OBVIOUS
  <2> DEFINE Written == {g \in Gens : venue[g] # "none"}
  <2>1. \/ Gate = "held" /\ Written' = Written \cup {Latest}
        \/ Written' = Written
    BY DEF Fence!Next, Fence!vars, Fence!Take, Fence!Write, Fence!LetGo, Fence!Freeze
  <2>2. Gate = "frozen" => Gate' = "frozen"
    BY DEF Fence!Next, Fence!vars, Fence!Take, Fence!Write, Fence!LetGo, Fence!Freeze
  <2>3. /\ Gate = "held" => dec = "running"
        /\ dec = "uncertain" => Gate = "frozen"
        /\ Gate' = "frozen" => dec' = "uncertain"
    BY DEF Gate
  <2>4. ASSUME NEW g \in Gens, venue[g] = "none", venue'[g] # "none"
        PROVE  dec = "running" /\ g = Latest
    <3>1. g \in Written' /\ g \notin Written
      BY <2>4
    <3> HIDE DEF Written
    <3> QED
      BY <2>1, <2>3, <3>1
  <2> QED
    BY <2>2, <2>3, <2>4
<1> QED
  BY <1>1, FenceKept, PTL DEF RefinesFence, Fence!Spec

-----------------------------------------------------------------------------
(* The execution keeps the promise of FiledCall.                           *)

Booked == {g \in Gens : astat[g] \notin {"none", "claimed"}} \ NoEffect
Carried == {g \in Gens : venue[g] = "applied"}

\* A generation that has nothing on file yet.
LEMMA NothingFiled ==
  ASSUME RowInv, NEW g \in Gens, astat[g] \in {"none", "claimed", "executing"}
  PROVE  g \notin NoEffect
<1>1. effect[g] = ""
  BY DEF RowInv, Fresh
<1> QED
  BY <1>1, Zenon DEF NoEffect

\* What is filed as without effect stays so.
LEMMA NoEffectStays ==
  ASSUME RowsOK, RowInv, RowStep
  PROVE  NoEffect \subseteq NoEffect'
<1> SUFFICES ASSUME NEW g \in NoEffect PROVE g \in NoEffect'
  OBVIOUS
<1>0. g \in Gens /\ astat[g] \notin {"none", "claimed", "executing"}
  BY NothingFiled DEF NoEffect
<1>1. DOMAIN astat = Gens /\ DOMAIN effect = Gens
  BY DEF RowsOK
<1>2. effect'[g] = effect[g]
  BY <1>0, <1>1 DEF RowStep, rows, Abandons, Mints, Orphans, Takes, Marks, Sends, Files,
     Refuses, Resolves, FailsSafe, Freezes, Finalizes, Closes
<1>3. astat[g] = "failed_safe" => astat'[g] = "failed_safe"
  <2>1. ASSUME NEW k \in Gens,
               Takes(k) \/ Marks(k) \/ Files(k) \/ Refuses(k) \/ Resolves(k) \/ Closes(k)
        PROVE  astat[k] # "failed_safe" /\ \A h \in Gens : h # k => astat'[h] = astat[h]
    <3>1. astat[k] # "failed_safe"
      BY <2>1 DEF Takes, Marks, Files, Refuses, Resolves, FailsSafe, Freezes, Finalizes,
         Closes, RowInv, Pending
    <3>2. \E v : astat' = [astat EXCEPT ![k] = v]
      BY <2>1 DEF Takes, Marks, Files, Refuses, Resolves, FailsSafe, Freezes, Finalizes, Closes
    <3> QED
      BY <1>1, <3>1, <3>2
  <2>2. ASSUME NEW k \in Gens, Sends(k) PROVE astat' = astat
    BY <2>2 DEF Sends
  <2>3. UNCHANGED rows \/ Abandons \/ Mints \/ Orphans => astat' = astat
    BY DEF rows, Abandons, Mints, Orphans
  <2> QED
    BY <1>0, <2>1, <2>2, <2>3 DEF RowStep
<1> QED
  BY <1>0, <1>2, <1>3 DEF NoEffect

LEMMA CallsStep == IInv /\ IInv' /\ [Next]_vars => [Calls!Next]_(Calls!vars)
<1> SUFFICES ASSUME IInv, IInv', [Next]_vars PROVE [Calls!Next]_(Calls!vars)
  OBVIOUS
<1>0. RowsOK /\ RowInv /\ RowStep /\ RowInv' /\ RowsOK'
  BY StepsAreRowSteps DEF IInv, TypeOK, RowInv
<1>0a. /\ DOMAIN astat = Gens /\ DOMAIN effect = Gens
       /\ venue \in [Gens -> {"none", "applied", "rejected"}]
  BY <1>0 DEF RowsOK
<1>0b. NoEffect \subseteq NoEffect' /\ NoEffect' \subseteq Gens \ Carried'
  <2>1. \A g \in NoEffect' : g \in Gens /\ venue'[g] # "applied"
    BY <1>0 DEF RowInv, Filed, NoEffect
  <2> QED
    BY <1>0, <2>1, NoEffectStays DEF Carried
<1>1. ASSUME UNCHANGED venue, Booked' = Booked \ NoEffect' PROVE Calls!Next
  <2>1. Calls!Tell
    BY <1>0b, <1>1 DEF Calls!Tell, Booked, Carried
  <2> QED
    BY <2>1 DEF Calls!Next
<1>2. ASSUME UNCHANGED venue,
             \A g \in Gens : astat'[g] \in {"none", "claimed"} <=> astat[g] \in {"none", "claimed"}
      PROVE  Booked' = Booked \ NoEffect'
  BY <1>0b, <1>2 DEF Booked
<1>3. CASE UNCHANGED rows \/ Abandons \/ Mints \/ Orphans
  <2>1. UNCHANGED <<astat, venue>>
    BY <1>3 DEF rows, Abandons, Mints, Orphans
  <2> QED
    BY <1>1, <1>2, <2>1
<1>4. ASSUME NEW g \in Gens,
             Takes(g) \/ Closes(g) \/ (Freezes(g) /\ UNCHANGED venue)
             \/ (Finalizes(g) /\ UNCHANGED venue)
      PROVE  Calls!Next
  <2>1. PICK v \in {"claimed", "closed", "uncertain", "succeeded"} :
          /\ astat' = [astat EXCEPT ![g] = v]
          /\ (v = "claimed") <=> (astat[g] \in {"none", "claimed"})
    BY <1>0, <1>4 DEF Takes, Closes, Freezes, Finalizes, RowInv, Pending
  <2>2. UNCHANGED venue
    BY <1>4 DEF Takes, Closes
  <2> QED
    BY <1>0a, <1>1, <1>2, <2>1, <2>2
<1>5. ASSUME NEW g \in Gens, Marks(g) PROVE Calls!Next
  <2>1. astat[g] = "claimed" /\ astat' = [astat EXCEPT ![g] = "executing"]
        /\ UNCHANGED <<effect, venue>>
    BY <1>5 DEF Marks
  <2>2. g \notin NoEffect /\ NoEffect' = NoEffect
    <3>1. g \notin NoEffect
      BY <1>0, <2>1, NothingFiled
    <3>2. \A h \in Gens : astat'[h] = "failed_safe" <=> astat[h] = "failed_safe"
      BY <1>0a, <2>1
    <3> QED
      BY <2>1, <3>1, <3>2 DEF NoEffect
  <2>3. Booked' = Booked \cup {g}
    BY <1>0a, <2>1, <2>2 DEF Booked
  <2>4. Calls!File(g)
    BY <2>1, <2>2, <2>3 DEF Calls!File, Booked, Carried
  <2> QED
    BY <2>4 DEF Calls!Next
<1>6. ASSUME NEW g \in Gens, Sends(g) PROVE Calls!Next
  <2>1. PICK did \in {"applied", "rejected"} : venue' = [venue EXCEPT ![g] = did]
    BY <1>6 DEF Sends
  <2>2. astat[g] = "executing" /\ venue[g] = "none" /\ UNCHANGED <<astat, effect>>
    BY <1>6 DEF Sends
  <2>3. g \in Booked /\ NoEffect' = NoEffect /\ Booked' = Booked
    BY <1>0, <2>2, NothingFiled DEF Booked, NoEffect
  <2>4. Carried' \in {Carried, Carried \cup {g}}
    BY <1>0a, <2>1, <2>2 DEF Carried
  <2>5. [h \in Gens |-> IF venue'[h] = "none" THEN 0 ELSE 1]
          = [[h \in Gens |-> IF venue[h] = "none" THEN 0 ELSE 1] EXCEPT ![g] = 1]
    BY <1>0a, <2>1
  <2>6. Calls!Call(g)
    BY <2>2, <2>3, <2>4, <2>5 DEF Calls!Call, Booked, Carried
  <2> QED
    BY <2>6 DEF Calls!Next
<1>7. ASSUME NEW g \in Gens, Refuses(g) \/ (FailsSafe(g) /\ UNCHANGED venue) PROVE Calls!Next
  <2>1. g \in NoEffect' /\ UNCHANGED venue
    BY <1>0a, <1>7 DEF Refuses, FailsSafe, NoEffect
  <2>2. \A h \in Gens : h # g => astat'[h] = astat[h]
    BY <1>0a, <1>7 DEF Refuses, FailsSafe
  <2>3. Booked' = Booked \ NoEffect'
    BY <1>0b, <2>1, <2>2 DEF Booked
  <2> QED
    BY <1>1, <2>1, <2>3
<1>8. ASSUME NEW g \in Gens, Files(g) PROVE Calls!Next
  <2>1. /\ astat[g] \in {"claimed", "executing"} /\ UNCHANGED venue
        /\ astat' = [astat EXCEPT ![g] = "outcome_recorded"]
    BY <1>8 DEF Files
  <2>2. PICK e \in {"none", "applied", "rejected"} : effect' = [effect EXCEPT ![g] = e]
    BY <1>8 DEF Files
  <2>3. \A h \in Gens : h # g => /\ astat'[h] = astat[h] /\ effect'[h] = effect[h]
                                 /\ h \in NoEffect' <=> h \in NoEffect
    BY <1>0, <1>0a, <2>1, <2>2 DEF RowsOK, NoEffect
  <2>4. CASE g \in NoEffect'
    <3>1. Booked' = Booked \ NoEffect'
      BY <1>0b, <2>3, <2>4 DEF Booked
    <3> QED
      BY <1>1, <2>1, <3>1
  <2>5. CASE g \notin NoEffect'
    <3>1. g \notin NoEffect /\ NoEffect' = NoEffect
      BY <1>0b, <2>3, <2>5 DEF NoEffect
    <3>2. Booked' = Booked \cup {g}
      BY <1>0a, <2>1, <2>3, <3>1 DEF Booked
    <3>3. Calls!File(g)
      BY <2>1, <3>1, <3>2 DEF Calls!File, Booked, Carried
    <3> QED
      BY <3>3 DEF Calls!Next
  <2> QED
    BY <2>4, <2>5
<1>9. ASSUME NEW g \in Gens, Resolves(g) PROVE Calls!Next
  BY <1>4, <1>7, <1>9 DEF Resolves
<1>10. RowStep => \/ UNCHANGED rows \/ Abandons \/ Mints \/ Orphans
                  \/ \E g \in Gens : \/ Takes(g) \/ Marks(g) \/ Sends(g) \/ Files(g)
                                     \/ Refuses(g) \/ Resolves(g) \/ Closes(g)
  BY DEF RowStep
<1> QED
  BY <1>0, <1>3, <1>4, <1>5, <1>6, <1>7, <1>8, <1>9, <1>10

\* Every generation's request is marked before it is made and made once; an
\* attempt on file as not started, refused or rejected had no effect and will
\* have none, and that is never taken back.
THEOREM ExecutionKeepsPromise == Spec => CallsFiled
<1>1. Init => Calls!Init
  <2> SUFFICES ASSUME Init PROVE Calls!Init
    OBVIOUS
  <2>1. \A g \in Gens : astat[g] = "none" /\ venue[g] = "none" /\ effect[g] = ""
    BY DEF Init
  <2>2. NoEffect = {}
    BY <2>1, Zenon DEF NoEffect
  <2>3. \A g \in Gens : astat[g] = "none" /\ venue[g] = "none"
    BY <2>1
  <2> QED
    BY <2>2, <2>3 DEF Calls!Init
<1> QED
  BY <1>1, CallsStep, Invariance, PTL DEF Spec, CallsFiled, Calls!Spec

\* The same calls, with what is proved of FiledCall.
Books == INSTANCE FiledCallProofs WITH
  Ids <- Gens,
  filed <- {g \in Gens : astat[g] \notin {"none", "claimed"}} \ NoEffect,
  calls <- [g \in Gens |-> IF venue[g] = "none" THEN 0 ELSE 1],
  effects <- {g \in Gens : venue[g] = "applied"}, done <- {}, denied <- NoEffect

\* What the execution's promise comes to: a generation wrote at most once, and
\* only behind its mark; one on file without effect had none.
THEOREM ExecutionBooks == Spec => []Calls!BooksTrue
<1>1. Books!Init <=> Calls!Init
  BY DEF Books!Init, Calls!Init
<1>2. [Books!Next]_(Books!vars) <=> [Calls!Next]_(Calls!vars)
  BY DEF Books!Next, Books!File, Books!Call, Books!TakeEffect, Books!Tell, Books!vars,
         Calls!Next, Calls!File, Calls!Call, Calls!TakeEffect, Calls!Tell, Calls!vars
<1>3. Books!BooksTrue <=> Calls!BooksTrue
  BY DEF Books!BooksTrue, Calls!BooksTrue
<1>. QED
  BY <1>1, <1>2, <1>3, ExecutionKeepsPromise, Books!BooksAreTrue, PTL DEF CallsFiled, Calls!Spec, Books!Spec
-----------------------------------------------------------------------------
(* The queue as the execution models it obeys MessageJob.                  *)

Threads == {p \in Procs : pc[p] # "idle" /\ src[p] = "job"}
Job == INSTANCE MessageJob WITH
  work <- {p \in Procs : pc[p] # "idle" /\ src[p] = "job"},
  charged <- job # "settled" /\ charged

\* Whoever holds the job is at work for it.
HolderWorks == holder # 0 => job = "claimed" /\ holder \in Threads

\* What a step does to the job, told by its thread.
JobRests == UNCHANGED <<job, holder, charged>> /\ Threads' = Threads
JobClaimed(p) ==
  /\ job \in {"pending", "claimed"} /\ job' = "claimed" /\ holder' = p /\ UNCHANGED charged
  /\ p \notin Threads /\ Threads' = Threads \cup {p}
JobAnswered(p) ==
  /\ p \in Threads /\ Threads' = Threads \ {p}
  /\ IF holder = p
     THEN (job' = "settled" \/ (job' = "pending" /\ charged')) /\ holder' = 0
     ELSE UNCHANGED <<job, holder, charged>>
JobFreed == UNCHANGED <<job, charged>> /\ holder' = 0 /\ Threads' \subseteq Threads
JobArmed ==
  job = "settled" /\ job' = "pending" /\ ~charged' /\ UNCHANGED holder /\ Threads' = Threads

LEMMA JobShapes ==
  ASSUME ThreadsOK, charged \in BOOLEAN, [Next]_vars
  PROVE  \/ JobRests \/ JobFreed \/ JobArmed
         \/ \E p \in Procs : JobClaimed(p) \/ JobAnswered(p)
<1> USE DEF ThreadsOK
<1>1. ASSUME NEW p \in Procs, pc[p] # "idle", NEW s, s # "idle", GoesTo(p, s),
             UNCHANGED <<src, job, holder, charged>>
      PROVE  JobRests
  BY <1>1 DEF JobRests, Threads, GoesTo
<1>2. ASSUME NEW p \in Procs, pc[p] # "idle", NEW s, s # "idle", Leaves(p, s),
             UNCHANGED <<job, holder, charged>>
      PROVE  JobRests
  BY <1>1, <1>2 DEF Leaves
<1>3. ASSUME NEW p \in Procs, StartJob(p) \/ ReclaimJob(p) PROVE JobClaimed(p)
  BY <1>3 DEF StartJob, ReclaimJob, Begin, GoesTo, ByAge, JobClaimed, Threads
<1>4. ASSUME NEW p \in Procs, StartContext(p) PROVE JobRests
  <2>1. UNCHANGED <<job, holder, charged>>
    BY <1>4 DEF StartContext, jobVars
  <2>2. CASE UNCHANGED <<pc, local>>
    BY <2>1, <2>2 DEF JobRests, Threads, local
  <2>3. CASE \E s \in {"retry", "event"} : Begin(p, s, "guard")
    BY <2>1, <2>3 DEF JobRests, Threads, Begin, GoesTo
  <2> QED
    BY <1>4, <2>2, <2>3 DEF StartContext
<1>5. ASSUME NEW p \in Procs, SettleJob(p) PROVE JobAnswered(p)
  BY <1>5 DEF SettleJob, Ends, GoesTo, jobVars, JobAnswered, Threads
<1>6. ASSUME NEW p \in Procs, SettleContext(p) PROVE JobRests
  BY <1>6 DEF SettleContext, Ends, GoesTo, jobVars, JobRests, Threads
<1>7. ASSUME NEW p \in Procs, Guard(p) PROVE JobRests
  BY <1>1, <1>7 DEF Guard, jobVars
<1>8. ASSUME NEW p \in Procs,
             \/ Resume(p) \/ Finalize(p) \/ Refuse(p) \/ Classify(p) \/ Unclassified(p)
      PROVE  JobRests
  BY <1>2, <1>8 DEF Resume, Finalize, Refuse, Classify, Unclassified, Owning, Crossed, jobVars
<1>9. ASSUME NEW p \in Procs,
             \/ Expire(p) \/ Breaks(p) \/ Refused(p) \/ SaveTerminal(p) \/ Label(p)
             \/ Skip(p) \/ Cross(p) \/ Record(p)
      PROVE  JobRests
  BY <1>1, <1>9 DEF Expire, Breaks, Refused, SaveTerminal, Label, Skip, Cross, Record,
    local, jobVars
<1>10. ASSUME NEW p \in Procs, SavePending(p) \/ Return(p) PROVE JobRests
  BY <1>1, <1>10 DEF SavePending, Return, jobVars
<1>11. ASSUME NEW p \in Procs, Claim(p) \/ Admit(p) PROVE JobRests
  BY <1>1, <1>2, <1>11 DEF Claim, Admit, local, jobVars
<1>12. ASSUME NEW p \in Procs, Write(p) PROVE JobRests
  BY <1>12 DEF Write, jobVars, JobRests, Threads
<1>13. CASE Rearm
  BY <1>13 DEF Rearm, local, JobArmed, Threads
<1>14. CASE Ages \/ Event \/ UNCHANGED vars
  BY <1>14 DEF Ages, Event, vars, local, jobVars, JobRests, Threads
<1>15. ASSUME NEW g \in Gens, Scan(g) \/ Closeout(g) PROVE JobRests
  BY <1>15 DEF Scan, Closeout, local, jobVars, JobRests, Threads
<1>16. CASE Drain \/ Crash
  BY <1>16 DEF Drain, Crash, local, JobFreed, Threads
<1> QED
  BY <1>3, <1>4, <1>5, <1>6, <1>7, <1>8, <1>9, <1>10, <1>11, <1>12, <1>13, <1>14, <1>15,
     <1>16 DEF Next, Thread

LEMMA JobStep ==
  IInv /\ HolderWorks /\ [Next]_vars => HolderWorks' /\ [Job!Next]_(Job!vars)
<1> SUFFICES ASSUME IInv, HolderWorks, [Next]_vars
             PROVE  HolderWorks' /\ [Job!Next]_(Job!vars)
  OBVIOUS
<1>0. ThreadsOK /\ charged \in BOOLEAN /\ \A p \in Procs : p # 0
  BY DEF IInv, TypeOK, QueuesOK, Procs
<1>1. CASE JobRests
  BY <1>1 DEF JobRests, HolderWorks, Threads, Job!vars
<1>2. CASE JobFreed
  BY <1>2 DEF JobFreed, HolderWorks, Threads, Job!Next, Job!LetGo
<1>3. CASE JobArmed
  BY <1>3 DEF JobArmed, HolderWorks, Threads, Job!Next, Job!Arm
<1>4. ASSUME NEW p \in Procs, JobClaimed(p) PROVE HolderWorks' /\ [Job!Next]_(Job!vars)
  BY <1>4 DEF JobClaimed, HolderWorks, Threads, Job!Next, Job!Claim
<1>5. ASSUME NEW p \in Procs, JobAnswered(p), holder = p
      PROVE  HolderWorks' /\ [Job!Next]_(Job!vars)
  BY <1>0, <1>5 DEF JobAnswered, HolderWorks, Threads, Job!Next, Job!Answer
<1>6. ASSUME NEW p \in Procs, JobAnswered(p), holder # p
      PROVE  HolderWorks' /\ [Job!Next]_(Job!vars)
  BY <1>6 DEF JobAnswered, HolderWorks, Threads, Job!Next, Job!End
<1> QED
  BY <1>0, <1>1, <1>2, <1>3, <1>4, <1>5, <1>6, JobShapes

\* The job as the execution sees it, with its claims, lapses and settlements, is
\* one that MessageJob allows, as is each job of the queue.
THEOREM ExecutionKeepsJob == Spec => Job!Spec
<1>1. Init => HolderWorks /\ Job!Init
  BY DEF Init, HolderWorks, Job!Init
<1> QED
  BY <1>1, JobStep, Invariance, PTL DEF Spec, Job!Spec
-----------------------------------------------------------------------------
(* What adds that no claim is taken over, no job re-armed and no context   *)
(* re-analysed: one thread at a time, and none that gets to the exchange   *)
(* once an instruction was carried out.                                    *)

Quiet == lapses = 0 /\ rearms = 0 /\ MaxContext = 0

\* At most one thread is at work, for the job, whose claim is its own until the
\* process drains.
Alone ==
  /\ \A p \in Procs :
       /\ src[p] = "job"
       /\ pc[p] # "idle" => job = "claimed" /\ (accepting => holder = p)
       /\ pc[p] = "expire" => aged
  /\ \A p, q \in Procs : pc[p] # "idle" /\ pc[q] # "idle" => p = q

\* The instruction was carried out for the newest attempt, whose row says so or
\* blocks the message, and a thread that starts anew starts as a retry.
Looking == {"guard", "resume", "reload"}
Behind == {"idle", "expire", "ok", "error", "blocked", "run", "record", "finalize"}
            \cup Looking

OfNewest ==
  /\ \A h \in Gens : venue[h] = "applied" => h = Latest
  /\ astat[Latest] \in {"executing", "outcome_recorded", "uncertain", "closed", "succeeded"}
  /\ dec # "pending"

Past(p) ==
  /\ pc[p] \in Behind
  /\ pc[p] = "run" => saw[p] # "none"
  /\ pc[p] = "guard" => charged \/ reclaimed

Shown ==
  astat[Latest] = "succeeded" =>
    Returnable(Latest) \/ (aged /\ \A p \in Procs : pc[p] \notin Looking)

CarriedOut ==
  OfNewest /\ Shown /\ (job = "pending" => charged) /\ \A p \in Procs : Past(p)

OnceInv == Quiet => Alone /\ (Terminal => CarriedOut)

LEMMA QuietBefore == IInv /\ [Next]_vars /\ Quiet' => Quiet
<1> SUFFICES ASSUME IInv, [Next]_vars, Quiet' PROVE Quiet
  OBVIOUS
<1>1. lapses \in Nat /\ rearms \in Nat
  BY SMTT(60) DEF IInv, TypeOK, BudgetsOK
<1>2. lapses' \in {lapses, lapses + 1} /\ rearms' \in {rearms, rearms + 1}
  BY DEF Next, Thread, vars, budgets, StartJob, ReclaimJob, StartContext, ClaimContext, TakesOver,
         Rearm, Ages, Event, Drain, Crash, Scan, Closeout, Guard, Resume, Expire, Breaks,
         Refused, SaveTerminal, Label, SavePending, Claim, Admit, Skip, Cross, Write, Return,
         Record, Finalize, Refuse, Classify, Unclassified, SettleJob, SettleContext
<1> QED
  BY <1>1, <1>2 DEF Quiet

\* In a quiet run a step of a thread leaves the queue to settle it or leaves it be.
LEMMA QuietThread ==
  ASSUME IInv, Quiet, Alone, NEW p \in Procs, Thread(p)
  PROVE  /\ pc[p] # "idle" /\ UNCHANGED <<aged, accepting, reclaimed>>
         /\ pc'[p] # "expire" /\ \A q \in Procs : src'[q] = "job"
         /\ \/ UNCHANGED <<job, holder, charged>>
            \/ pc'[p] = "idle" /\ (charged' = charged \/ charged') /\ (job' = "pending" => charged')
<1>0. ThreadsOK /\ \A q \in Procs : src[q] = "job"
  BY DEF IInv, TypeOK, Alone
<1> USE <1>0 DEF ThreadsOK, GoesTo
<1>1. CASE Guard(p)
  BY <1>1 DEF Guard, jobVars
<1>2. CASE \/ Resume(p) \/ Finalize(p) \/ Refuse(p) \/ Classify(p) \/ Unclassified(p)
  BY <1>2 DEF Resume, Finalize, Refuse, Classify, Unclassified, Leaves, jobVars, Owning, Crossed
<1>3. CASE SettleJob(p) \/ SettleContext(p)
  BY <1>3 DEF SettleJob, SettleContext, Ends, jobVars
<1>4. CASE Expire(p) \/ Breaks(p) \/ Refused(p) \/ SaveTerminal(p) \/ Label(p)
  BY <1>4 DEF Expire, Breaks, Refused, SaveTerminal, Label, local, jobVars
<1>5. CASE SavePending(p)
  BY <1>5 DEF SavePending, jobVars
<1>6. CASE Claim(p) \/ Admit(p)
  BY <1>6 DEF Claim, Admit, Leaves, local, jobVars
<1>7. CASE Skip(p) \/ Cross(p) \/ Record(p)
  BY <1>7 DEF Skip, Cross, Record, local, jobVars
<1>8. CASE Write(p) \/ Return(p)
  BY <1>8 DEF Write, Return, jobVars
<1> QED
  BY <1>1, <1>2, <1>3, <1>4, <1>5, <1>6, <1>7, <1>8 DEF Thread

\* A thread starts for a job that was due, or whose thread a crash took along.
LEMMA QuietStart ==
  ASSUME IInv, Quiet, Alone, NEW p \in Procs, Starts(p), Quiet'
  PROVE  /\ \A q \in Procs : pc[q] = "idle"
         /\ Begin(p, "job", ByAge) /\ job' = "claimed" /\ holder' = p
         /\ UNCHANGED charged /\ (job = "pending" \/ reclaimed')
         /\ UNCHANGED <<decVars, attVars, venue, aged, accepting>>
<1>1. ~StartContext(p)
  <2>1. contexts \in Nat /\ MaxContext = 0
    BY DEF IInv, TypeOK, BudgetsOK, Quiet
  <2> QED
    BY <2>1 DEF StartContext, ClaimContext
<1>2. CASE StartJob(p)
  BY <1>2 DEF StartJob, Alone
<1>3. CASE ReclaimJob(p)
  <2>1. holder = 0
    <3>1. lapses = 0 /\ lapses' = 0
      BY DEF Quiet
    <3> QED
      BY <1>3, <3>1 DEF ReclaimJob, TakesOver
  <2>2. accepting /\ \A q \in Procs : q # 0
    BY <1>3 DEF ReclaimJob, Begin, Procs
  <2>3. \A q \in Procs : pc[q] = "idle"
    BY <2>1, <2>2 DEF Alone
  <2> QED
    BY <1>3, <2>3 DEF ReclaimJob
<1> QED
  BY <1>1, <1>2, <1>3 DEF Starts

LEMMA AloneStep == IInv /\ Quiet /\ Alone /\ [Next]_vars /\ Quiet' => Alone'
<1> SUFFICES ASSUME IInv, Quiet, Alone, [Next]_vars, Quiet' PROVE Alone'
  OBVIOUS
<1>0. ThreadsOK
  BY DEF IInv, TypeOK
<1>1. ASSUME NEW p \in Procs, Starts(p) PROVE Alone'
  <2>1. /\ \A q \in Procs : pc[q] = "idle" /\ src[q] = "job"
        /\ Begin(p, "job", ByAge) /\ job' = "claimed" /\ holder' = p /\ aged' = aged
    BY <1>1, QuietStart DEF Alone
  <2> QED
    BY <1>0, <2>1 DEF Begin, GoesTo, ByAge, Alone, ThreadsOK
<1>2. ASSUME NEW p \in Procs, Thread(p) PROVE Alone'
  <2>1. \A q \in Procs : q # p => pc[q] = "idle" /\ pc'[q] = "idle"
    <3>1. pc[p] # "idle"
      BY <1>2, QuietThread
    <3>2. \A q \in Procs : q # p => pc[q] = "idle"
      BY <3>1 DEF Alone
    <3> QED
      BY <1>0, <1>2, <3>2, Frame
  <2>2. /\ pc[p] # "idle" /\ UNCHANGED <<aged, accepting>> /\ pc'[p] # "expire"
        /\ (\A q \in Procs : src'[q] = "job")
        /\ UNCHANGED <<job, holder>> \/ pc'[p] = "idle"
    BY <1>2, QuietThread
  <2> QED
    BY <2>1, <2>2 DEF Alone
<1>3. CASE Crash
  BY <1>3 DEF Crash, Alone
<1>4. CASE Drain
  BY <1>4 DEF Drain, Alone, local
<1>5. CASE Rearm
  <2>1. rearms = 0 /\ rearms' = 0
    BY DEF Quiet
  <2> QED
    BY <1>5, <2>1 DEF Rearm
<1>6. CASE UNCHANGED <<src, pc, job, holder, accepting>> /\ (aged => aged')
  BY <1>6 DEF Alone
<1> QED
  BY <1>1, <1>2, <1>3, <1>4, <1>5, <1>6
  DEF Next, Starts, vars, local, jobVars, Ages, Event, Scan, Closeout

\* The attempt under way is the newest one.
LEMMA OwnerIsNewest ==
  ASSUME IInv, NEW g \in Gens, astat[g] \in Active
  PROVE  g = Latest /\ dec = "running"
<1>0. RowsOK /\ HasLatest /\ Fresh /\ gen \in Nat /\ Gens \subseteq Nat
  BY GensFact DEF IInv, TypeOK
<1>1. gen = g /\ dec = "running"
  BY DEF IInv, OwnershipAgrees, Owns
<1>2. g \in Claimed
  BY DEF Claimed, Active
<1>3. Latest \in Gens /\ astat[Latest] # "none" /\ g <= Latest
  BY <1>0, <1>2, LatestIsNewest DEF Claimed
<1>4. \A h \in Gens : h > gen => astat[h] = "none"
  <2>1. Fresh
    BY <1>0
  <2> QED
    BY <2>1, Zenon DEF Fresh
<1> QED
  BY <1>0, <1>1, <1>3, <1>4

\* Only a write touches the exchange, only a new decision is pending.
LEMMA WritersOnly ==
  ASSUME [Next]_vars
  PROVE  /\ venue' = venue \/ \E p \in Procs : Write(p)
         /\ dec' \in {dec, "running", "completed", "uncertain"} \/ \E p \in Procs : SavePending(p)
<1> DEFINE Kept == venue' = venue /\ dec' \in {dec, "running", "completed", "uncertain"}
<1>1. ASSUME NEW p \in Procs,
             Resume(p) \/ Admit(p) \/ Finalize(p) \/ Refuse(p) \/ Classify(p) \/ Claim(p)
      PROVE  Kept
  BY <1>1 DEF Resume, Admit, Finalize, Refuse, Classify, Claim, FailsSafe, Freezes, Finalizes,
              decVars
<1>2. ASSUME NEW p \in Procs, Expire(p) \/ SaveTerminal(p) PROVE Kept
  BY <1>2 DEF Expire, SaveTerminal
<1>3. ASSUME NEW p \in Procs, Write(p) \/ SavePending(p)
      PROVE  (venue' = venue \/ Write(p)) /\ (dec' = dec \/ SavePending(p))
  BY <1>3 DEF Write, SavePending, decVars
<1>4. ASSUME NEW g \in Gens, Scan(g) \/ Closeout(g) PROVE Kept
  BY <1>4 DEF Scan, Closeout, FailsSafe, Freezes, Finalizes, decVars
<1>5. CASE UNCHANGED <<venue, dec>>
  BY <1>5
<1> QED
  BY <1>1, <1>2, <1>3, <1>4, <1>5
  DEF Next, Thread, vars, decVars, StartJob, ReclaimJob, StartContext, Rearm, Ages, Event,
      Drain, Crash, Guard, Breaks, Refused, Label, Skip, Cross, Return, Record, Unclassified,
      SettleJob, SettleContext

\* Once an instruction was carried out, its row moves on and no other does.
LEMMA NewestStays ==
  ASSUME IInv, Terminal, CarriedOut, [Next]_vars
  PROVE  /\ OfNewest' /\ Latest' = Latest /\ Latest \in Gens
         /\ astat'[Latest] = "succeeded" => astat[Latest] = "succeeded" \/ Finalizes(Latest)
<1>0. /\ RowsOK /\ RowStep /\ OfNewest
      /\ Latest \in Gens /\ venue[Latest] = "applied" /\ dec # "pending"
  BY StepsAreRowSteps DEF IInv, TypeOK, CarriedOut, OfNewest, Terminal
<1>1. dec' # "pending"
  BY <1>0, WritersOnly DEF SavePending, CarriedOut, Past, Behind, Looking
<1>2. ASSUME Claimed' = Claimed PROVE Latest' = Latest
  BY <1>2 DEF Latest
<1>3. CASE UNCHANGED rows \/ Abandons \/ Orphans
  <2>1. UNCHANGED <<astat, venue>> /\ Claimed' = Claimed
    BY <1>3 DEF rows, Abandons, Orphans, Claimed
  <2> QED
    BY <1>0, <1>1, <1>2, <2>1 DEF OfNewest
<1>4. ~Mints /\ \A g \in Gens : ~Takes(g)
  BY <1>0, <1>1 DEF Mints, Takes
<1>5. \A g \in Gens : ~(Marks(g) \/ Sends(g) \/ Refuses(g) \/ FailsSafe(g))
  BY <1>0, OwnerIsNewest DEF Marks, Sends, Refuses, FailsSafe, Active, OfNewest
<1>6. ASSUME NEW g \in Gens, NEW to \in {"outcome_recorded", "uncertain", "succeeded", "closed"},
             astat[g] # "none", astat' = [astat EXCEPT ![g] = to], venue' = venue,
             to = "succeeded" => Finalizes(g) /\ g = Latest
      PROVE  /\ OfNewest' /\ Latest' = Latest
             /\ astat'[Latest] = "succeeded" => astat[Latest] = "succeeded" \/ Finalizes(Latest)
  <2>0. \A h \in Gens : astat'[h] = IF h = g THEN to ELSE astat[h]
    <3>1. astat \in [Gens -> {"none", "succeeded", "failed_safe"} \cup Active \cup Blocking]
      <4>1. RowsOK
        BY <1>0
      <4> QED
        BY <4>1, Zenon DEF RowsOK
    <3> QED
      BY <1>6, <3>1
  <2>1. Claimed' = Claimed
    BY <1>6, <2>0 DEF Claimed
  <2>2. astat'[Latest] = to \/ astat'[Latest] = astat[Latest]
    BY <1>0, <2>0
  <2> QED
    BY <1>0, <1>1, <1>2, <1>6, <2>1, <2>2 DEF OfNewest
<1>7. ASSUME NEW g \in Gens, Files(g) \/ Closes(g) PROVE astat[g] # "none" /\ venue' = venue
  BY <1>7 DEF Files, Closes
<1>8. ASSUME NEW g \in Gens, Freezes(g) \/ Finalizes(g) PROVE g = Latest /\ astat[g] # "none"
  BY <1>8, OwnerIsNewest DEF Freezes, Finalizes, Active
<1>9. ASSUME NEW g \in Gens, Files(g) \/ Closes(g)
      PROVE  /\ OfNewest' /\ Latest' = Latest
             /\ astat'[Latest] = "succeeded" => astat[Latest] = "succeeded" \/ Finalizes(Latest)
  BY <1>6, <1>7, <1>9 DEF Files, Closes
<1>10. ASSUME NEW g \in Gens, Resolves(g)
       PROVE  /\ OfNewest' /\ Latest' = Latest
              /\ astat'[Latest] = "succeeded" => astat[Latest] = "succeeded" \/ Finalizes(Latest)
  <2>1. CASE Freezes(g) /\ venue' = venue
    BY <1>6, <1>8, <2>1 DEF Freezes
  <2>2. CASE Finalizes(g) /\ venue' = venue
    BY <1>6, <1>8, <2>2 DEF Finalizes
  <2> QED
    BY <1>5, <1>10, <2>1, <2>2 DEF Resolves
<1> QED
  BY <1>0, <1>3, <1>4, <1>5, <1>9, <1>10 DEF RowStep

\* The thread that acts stays behind what was carried out, and what the decision
\* shows it moves only to finalize it or because the message is too old.
LEMMA PastOwn ==
  ASSUME IInv, Alone, Terminal, CarriedOut, NEW p \in Procs, Thread(p)
  PROVE  /\ pc'[p] \in Behind \ {"guard"} /\ (pc'[p] = "run" => saw'[p] # "none")
         /\ pc'[p] \in Looking => pc[p] \in Looking
         /\ Expire(p) => pc'[p] \notin Looking /\ pc[p] = "expire"
<1>0. ThreadsOK /\ Past(p) /\ src[p] = "job" /\ Shown /\ OfNewest
      /\ (pc[p] # "idle" => job = "claimed")
  BY DEF IInv, TypeOK, CarriedOut, Alone
<1> USE <1>0 DEF ThreadsOK, GoesTo, Past, Behind, Looking
<1>1. CASE Guard(p)
  <2>1. pc[p] = "guard" => IsAutomatic(p)
    BY <1>1 DEF Guard, IsAutomatic
  <2>2. Latest # 0
    <3>1. Latest \in Gens
      BY DEF OfNewest, Terminal
    <3> QED
      BY <3>1 DEF Gens
  <2>3. OwnsMessage(Latest) \/ astat[Latest] = "outcome_recorded" \/ Returnable(Latest)
    <3>1. astat[Latest] = "succeeded" => Returnable(Latest)
      BY <1>1 DEF Guard, Shown
    <3> QED
      BY <2>2, <3>1 DEF OfNewest, OwnsMessage, Blocking
  <2>4. PICK next \in {"blocked", "resume", "error", "ok"} : GoesTo(p, next)
    <3>1. CASE OwnsMessage(Latest)
      BY <1>1, <2>1, <3>1 DEF Guard
    <3>2. CASE ~OwnsMessage(Latest) /\ Latest # 0 /\ astat[Latest] = "outcome_recorded"
      BY <1>1, <2>1, <3>2 DEF Guard
    <3>3. CASE ~OwnsMessage(Latest) /\ astat[Latest] # "outcome_recorded" /\ Returnable(Latest)
      BY <1>1, <2>1, <3>3 DEF Guard
    <3> QED
      BY <2>3, <2>2, <3>1, <3>2, <3>3
  <2>5. pc[p] \in Looking /\ ~Expire(p)
    BY <1>1 DEF Guard, Expire
  <2> QED
    BY <2>4, <2>5
<1>2. CASE Resume(p)
  BY <1>2 DEF Resume, Leaves, Expire
<1>3. CASE Expire(p)
  BY <1>3 DEF Expire
<1>4. CASE \/ Breaks(p) \/ Refused(p) \/ SaveTerminal(p) \/ Label(p) \/ SavePending(p)
           \/ Claim(p) \/ Admit(p) \/ Skip(p) \/ Cross(p) \/ Write(p) \/ Refuse(p)
  BY <1>4 DEF Breaks, Refused, SaveTerminal, Label, SavePending, Claim, Admit, Skip, Cross,
              Write, Refuse
<1>5. CASE Return(p) \/ Record(p)
  BY <1>5 DEF Return, ProvesNoContact, Record, Expire
<1>6. CASE Finalize(p) \/ Classify(p) \/ Unclassified(p)
  BY <1>6 DEF Finalize, Classify, Unclassified, Leaves, Owning, Crossed, Expire
<1>7. CASE SettleJob(p) \/ SettleContext(p)
  BY <1>7 DEF SettleJob, SettleContext, Ends, Expire
<1> QED
  BY <1>1, <1>2, <1>3, <1>4, <1>5, <1>6, <1>7 DEF Thread

LEMMA PastStep ==
  ASSUME IInv, Quiet, Alone, Terminal, CarriedOut, [Next]_vars, Quiet'
  PROVE  (job' = "pending" => charged') /\ \A q \in Procs : Past(q)'
<1>0. ThreadsOK /\ (job = "pending" => charged) /\ \A q \in Procs : Past(q)
  BY DEF IInv, TypeOK, CarriedOut
<1>1. ASSUME NEW p \in Procs, Starts(p)
      PROVE  (job' = "pending" => charged') /\ \A q \in Procs : Past(q)'
  <2>1. /\ \A q \in Procs : pc[q] = "idle"
        /\ Begin(p, "job", ByAge) /\ job' = "claimed"
        /\ charged' \/ reclaimed'
    BY <1>0, <1>1, QuietStart
  <2>2. \A q \in Procs : pc'[q] \in {"idle", "expire", "guard"}
    BY <1>0, <2>1 DEF ThreadsOK, Begin, GoesTo, ByAge
  <2> QED
    BY <2>1, <2>2 DEF Past, Behind, Looking
<1>2. ASSUME NEW p \in Procs, Thread(p)
      PROVE  (job' = "pending" => charged') /\ \A q \in Procs : Past(q)'
  <2>1. \A q \in Procs : q # p => pc'[q] = "idle"
    <3>1. \A q \in Procs : q # p => pc[q] = "idle"
      BY <1>2, QuietThread DEF Alone
    <3> QED
      BY <1>0, <1>2, <3>1, Frame
  <2>2. Past(p)'
    BY <1>2, PastOwn DEF Past, Behind
  <2>3. job' = "pending" => charged'
    BY <1>0, <1>2, QuietThread
  <2> QED
    BY <2>1, <2>2, <2>3 DEF Past, Behind
<1>3. CASE Crash
  BY <1>0, <1>3 DEF Crash, Past, Behind
<1>4. ~Rearm
  BY DEF Rearm, Quiet
<1>5. CASE UNCHANGED <<pc, saw, job, charged, reclaimed>>
  BY <1>0, <1>5 DEF Past
<1> QED
  BY <1>1, <1>2, <1>3, <1>4, <1>5
  DEF Next, Starts, vars, local, jobVars, Ages, Event, Drain, Scan, Closeout

\* A decision that shows the success is replaced only by the message's expiry.
LEMMA ShownStep ==
  ASSUME IInv, Quiet, Alone, Terminal, CarriedOut, [Next]_vars, Quiet'
  PROVE  Shown'
<1>0. /\ ThreadsOK /\ Shown /\ Latest' = Latest /\ Latest \in Gens /\ Latest # 0
      /\ astat'[Latest] = "succeeded" => astat[Latest] = "succeeded" \/ Finalizes(Latest)
      /\ \A q \in Procs : Past(q)
  <2>1. Latest \in Gens => Latest # 0
    BY DEF Gens
  <2> QED
    BY <2>1, NewestStays DEF IInv, TypeOK, CarriedOut
<1>1. CASE Finalizes(Latest)
  <2>1. dec' = "completed" /\ ~dfailed' /\ dauto' = Latest
    BY <1>1 DEF Finalizes
  <2> QED
    BY <1>0, <2>1 DEF Shown, Returnable
<1>2. CASE astat'[Latest] # "succeeded"
  BY <1>0, <1>2 DEF Shown
<1>3. CASE astat[Latest] = "succeeded" /\ astat'[Latest] = "succeeded"
  <2>1. \A g \in Gens : ~Owns(g)
    BY <1>3, OwnerIsNewest DEF IInv, OwnershipAgrees, Active
  <2>2. \A g \in Gens : ~FailsSafe(g) /\ ~Freezes(g) /\ ~Finalizes(g)
    BY <2>1 DEF FailsSafe, Freezes, Finalizes
  <2>3. \A p \in Procs : pc[p] \in Owning \cup {"resume"} => mine[p] \in Gens
    BY DEF IInv, Exclusive, Minting
  <2>4. CASE \E p \in Procs : Expire(p)
    <3>1. PICK p \in Procs : Expire(p)
      BY <2>4
    <3>2. aged' /\ aged
      BY <3>1 DEF Expire, Alone, jobVars
    <3>3. \A q \in Procs : q # p => pc'[q] = "idle"
      BY <1>0, <3>1, Frame, ZenonT(60) DEF Expire, Alone, Thread
    <3>4. pc'[p] \notin Looking
      BY <3>1, PastOwn DEF Thread
    <3> QED
      BY <3>2, <3>3, <3>4 DEF Shown, Looking
  <2>5. CASE \A p \in Procs : ~Expire(p)
    <3>1. UNCHANGED <<dec, dfailed, dauto>>
      <4>1. ASSUME NEW p \in Procs, Thread(p) PROVE UNCHANGED <<dec, dfailed, dauto>>
        <5>1. pc[p] \in Behind
          BY <1>0 DEF Past
        <5>2. ~(\/ SaveTerminal(p) \/ Label(p) \/ SavePending(p) \/ Claim(p) \/ Admit(p)
                \/ Refuse(p))
          BY <5>1 DEF Behind, Looking, SaveTerminal, Label, SavePending, Claim, Admit, Refuse
        <5>3. CASE Resume(p) \/ Finalize(p) \/ Classify(p)
          BY <2>2, <2>3, <5>3 DEF Resume, Finalize, Classify, decVars, Owning, Crossed
        <5> QED
          BY <2>5, <4>1, <5>2, <5>3
          DEF Thread, decVars, Guard, Breaks, Refused, Skip, Cross, Write, Return, Record,
              Unclassified, SettleJob, SettleContext
      <4>2. ASSUME NEW g \in Gens, Scan(g) \/ Closeout(g) PROVE UNCHANGED <<dec, dfailed, dauto>>
        BY <2>2, <4>2 DEF Scan, Closeout, decVars
      <4> QED
        BY <4>1, <4>2
        DEF Next, vars, decVars, StartJob, ReclaimJob, StartContext, Rearm, Ages, Event, Drain,
            Crash
    <3>2. ASSUME aged, \A q \in Procs : pc[q] \notin Looking
          PROVE  aged' /\ \A q \in Procs : pc'[q] \notin Looking
      <4>1. ASSUME NEW p \in Procs, Starts(p) PROVE aged' /\ \A q \in Procs : pc'[q] \notin Looking
        <5>1. Begin(p, "job", "expire") /\ aged' = aged
          BY <3>2, <4>1, QuietStart DEF ByAge
        <5> QED
          BY <1>0, <3>2, <5>1 DEF ThreadsOK, Begin, GoesTo, Looking
      <4>2. ASSUME NEW p \in Procs, Thread(p) PROVE aged' /\ \A q \in Procs : pc'[q] \notin Looking
        <5>1. \A q \in Procs : q # p => pc'[q] = pc[q]
          BY <1>0, <4>2, Frame
        <5>2. pc'[p] \notin Looking /\ aged' = aged
          BY <3>2, <4>2, PastOwn, QuietThread
        <5> QED
          BY <3>2, <5>1, <5>2
      <4>3. CASE Crash
        BY <3>2, <4>3 DEF Crash, Looking
      <4>4. CASE pc' = pc /\ (aged => aged')
        BY <3>2, <4>4
      <4> QED
        BY <4>1, <4>2, <4>3, <4>4
        DEF Next, Starts, vars, jobVars, Rearm, Ages, Event, Drain, Scan, Closeout
    <3> QED
      BY <1>0, <1>3, <3>1, <3>2 DEF Shown, Returnable
  <2> QED
    BY <2>4, <2>5
<1> QED
  BY <1>0, <1>1, <1>2, <1>3

\* The write that carries the instruction out is made for the newest attempt,
\* while no other thread is at work.
LEMMA SentBegins ==
  ASSUME IInv, Alone, ~Terminal, Terminal', [Next]_vars
  PROVE  CarriedOut'
<1>0. RowsOK /\ ThreadsOK /\ Exclusive /\ Holding
  BY DEF IInv, TypeOK
<1>1. PICK p \in Procs : Write(p)
  BY WritersOnly DEF Terminal
<1>2. mine[p] \in Gens /\ astat[mine[p]] = "executing" /\ pc[p] = "run"
  BY <1>0, <1>1 DEF Write, Exclusive, Holding, Holds, Stage, Minting, Owning, Crossed
<1>3. mine[p] = Latest /\ dec = "running"
  BY <1>2, OwnerIsNewest DEF Active
<1>4. astat' = astat /\ dec' = dec /\ UNCHANGED <<pc, job>>
  BY <1>1 DEF Write, attVars, decVars, jobVars
<1>5. Latest' = Latest
  <2>1. Claimed' = Claimed
    BY <1>4 DEF Claimed
  <2> QED
    BY <2>1 DEF Latest
<1>6. OfNewest'
  <2>1. PICK did \in {"applied", "rejected"} : venue' = [venue EXCEPT ![mine[p]] = did]
    BY <1>1 DEF Write
  <2>2. \A h \in Gens : h # mine[p] => venue'[h] = venue[h]
    BY <2>1
  <2>3. \A h \in Gens : venue'[h] = "applied" => h = mine[p]
    BY <2>2 DEF Terminal
  <2> QED
    BY <1>2, <1>3, <1>4, <1>5, <2>3 DEF OfNewest
<1>7. Shown'
  BY <1>2, <1>3, <1>4, <1>5 DEF Shown
<1>8. \A q \in Procs : Past(q)'
  <2>1. saw'[p] # "none"
    BY <1>0, <1>1 DEF Write, ThreadsOK
  <2>2. \A q \in Procs : q # p => pc[q] = "idle"
    BY <1>2 DEF Alone
  <2> QED
    BY <1>2, <1>4, <2>1, <2>2 DEF Past, Behind
<1>9. job' # "pending"
  BY <1>2, <1>4 DEF Alone
<1> QED
  BY <1>6, <1>7, <1>8, <1>9 DEF CarriedOut

LEMMA OnceStep == IInv /\ OnceInv /\ [Next]_vars => OnceInv'
<1> SUFFICES ASSUME IInv, OnceInv, [Next]_vars, Quiet' PROVE Alone' /\ (Terminal' => CarriedOut')
  BY DEF OnceInv
<1>1. Quiet /\ Alone /\ (Terminal => CarriedOut)
  BY QuietBefore DEF OnceInv
<1>2. Alone'
  BY <1>1, AloneStep
<1>3. CASE Terminal
  BY <1>1, <1>2, <1>3, NewestStays, PastStep, ShownStep DEF CarriedOut
<1>4. CASE ~Terminal
  BY <1>1, <1>2, <1>4, SentBegins
<1> QED
  BY <1>3, <1>4

\* As long as no claim is taken over from a living thread, no job re-armed and
\* no context re-analysed, the instruction is carried out once, for any number of
\* threads, generations, crashes, drains and retries.
THEOREM CarriedOutOnce == Spec => []ExecutedOnce
<1>1. Init => OnceInv
  <2> SUFFICES ASSUME Init PROVE OnceInv
    OBVIOUS
  <2>1. venue = [g \in Gens |-> "none"] /\ src = [p \in Procs |-> "job"]
        /\ pc = [p \in Procs |-> "idle"]
    BY Zenon DEF Init
  <2> QED
    BY <2>1 DEF OnceInv, Alone, Terminal
<1>2. IInv /\ OnceInv => ExecutedOnce
  <2> SUFFICES ASSUME IInv, OnceInv, Quiet
               PROVE  Cardinality({g \in Gens : venue[g] = "applied"}) <= 1
    BY DEF ExecutedOnce, Quiet
  <2> DEFINE S == {g \in Gens : venue[g] = "applied"}
  <2>1. S \subseteq {Latest}
    BY DEF OnceInv, CarriedOut, OfNewest, Terminal
  <2>2. IsFiniteSet({Latest}) /\ Cardinality({Latest}) = 1
    BY FS_Singleton
  <2>3. Cardinality(S) <= Cardinality({Latest})
    BY <2>1, <2>2, FS_Subset
  <2> QED
    BY <2>2, <2>3
<1> QED
  BY Invariance, <1>1, <1>2, OnceStep, PTL DEF Spec
=============================================================================
