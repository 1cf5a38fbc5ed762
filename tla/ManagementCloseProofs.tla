------------------------ MODULE ManagementCloseProofs ------------------------
(***************************************************************************)
(* The safety of a close batch, for any number of legs, process deaths,    *)
(* lost answers and changes by others.                                     *)
(***************************************************************************)
EXTENDS ManagementClose, TLAPS

\* An executor's steps under the lock, before and after its check of the entry legs.
Opening == {"open", "entries"}
Closing == {"cancel", "cancelled", "boundary", "legs", "send", "record"}

\* Who is where.
Places ==
  /\ pc["M"] \in {"wait", "done"} \cup Opening \cup Closing
  /\ pc["W"] \in {"idle", "wait", "claim", "check", "judge", "recheck", "block"}
                   \cup Opening \cup Closing
  /\ pc["R"] \in {"idle", "orders", "wait", "read", "write"}

\* The lock and the steps under it.
LockInv ==
  \A a \in Actors : lock = a <=> pc[a] \in {"read", "write"} \cup Opening \cup Closing

\* An executor that calls has a leg; one that records has an answer too.
CallInv ==
  \A a \in Executors :
    /\ pc[a] \in {"send", "record"} => cur \in Legs
    /\ pc[a] = "record" => ans \in {"submitted", "failed", "submit_unknown"}

-----------------------------------------------------------------------------
(* Types.                                                                   *)

LEMMA ReconciledType ==
  ASSUME TypeOK, NEW l \in Legs
  PROVE  Reconciled(l) \in LegStates
BY DEF TypeOK, Reconciled, SizeSays, LegStates

LEMMA OutcomeType ==
  ASSUME NEW new
  PROVE  Outcome(new) \in {"succeeded", "partial_failed", "recovery_required", "reconciling"}
BY DEF Outcome

LEMMA TypeInit == Init => TypeOK /\ Places /\ LockInv /\ CallInv
<1>1. Init => Places /\ LockInv /\ CallInv
  BY DEF Init, Places, LockInv, CallInv, Actors, Executors, Opening, Closing
<1>2. Init => TypeOK
  <2>. SUFFICES ASSUME Init PROVE TypeOK
    OBVIOUS
  <2>1. /\ kind \in {"full", "partial"} /\ status \in Statuses /\ why = "none"
        /\ life = "owned" /\ regained \in BOOLEAN /\ lock = "free" /\ cur = "none"
        /\ ans = "none" /\ seen = "none" /\ troubles = 0
    BY DEF Init, Statuses
  <2>2. /\ entry \in {"none", "pending"} /\ xentry \in {"none", "open"}
    BY DEF Init
  <2>3. /\ leg \in [Legs -> LegStates] /\ pos \in [Legs -> Sizes] /\ rpos = pos
        /\ sends \in [Legs -> Nat]
        /\ cid = {} /\ order = {} /\ rfound = {} /\ tick = {}
    BY DEF Init, LegStates, Sizes
  <2>4. pc \in [Actors -> {"idle", "wait"}]
    BY DEF Init, Actors
  <2>. QED BY <2>1, <2>2, <2>3, <2>4 DEF TypeOK, Actors
<1>. QED BY <1>1, <1>2

LEMMA TypeStep ==
  ASSUME TypeOK, Places, LockInv, CallInv, [Next]_vars
  PROVE  TypeOK' /\ Places' /\ LockInv' /\ CallInv'
<1>1. ASSUME NEW a \in Actors, Acquire(a) PROVE TypeOK' /\ Places' /\ LockInv' /\ CallInv'
  BY <1>1 DEF Acquire, Goto, batVars, legVars, bookVars, exVars, runVars,
    rVars, TypeOK, Places, LockInv, CallInv, Opening, Closing, Actors,
    Executors, Statuses, Ended, Sizes, LegStates
<1>2. ASSUME NEW a \in Executors, Open(a) PROVE TypeOK' /\ Places' /\ LockInv' /\ CallInv'
  BY <1>2 DEF Open, Goto, Transition, Leave, batVars, legVars, bookVars,
    exVars, runVars, rVars, TypeOK, Places, LockInv, CallInv, Opening,
    Closing, Actors, Executors, Statuses, Ended, Sizes, LegStates
<1>3. ASSUME NEW a \in Executors, Entries(a) PROVE TypeOK' /\ Places' /\ LockInv' /\ CallInv'
  BY <1>3 DEF Entries, Goto, Pause, Transition, Leave, batVars, legVars,
    bookVars, exVars, runVars, rVars, TypeOK, Places, LockInv, CallInv,
    Opening, Closing, Actors, Executors, Statuses, Ended, Sizes, LegStates
<1>4. ASSUME NEW a \in Executors, Cancel(a) PROVE TypeOK' /\ Places' /\ LockInv' /\ CallInv'
  BY <1>4 DEF Cancel, Goto, Pause, LostCancel, Transition, Leave, Trouble,
    batVars, legVars, bookVars, exVars, runVars, rVars, TypeOK, Places,
    LockInv, CallInv, Opening, Closing, Actors, Executors, Statuses, Ended,
    Sizes, LegStates
<1>5. ASSUME NEW a \in Executors, RecordCancel(a) PROVE TypeOK' /\ Places' /\ LockInv' /\ CallInv'
  BY <1>5 DEF RecordCancel, Goto, batVars, legVars, bookVars, exVars,
    runVars, rVars, TypeOK, Places, LockInv, CallInv, Opening, Closing,
    Actors, Executors, Statuses, Ended, Sizes, LegStates
<1>6. ASSUME NEW a \in Executors, Boundary(a) PROVE TypeOK' /\ Places' /\ LockInv' /\ CallInv'
  BY <1>6 DEF Boundary, Goto, Pause, Transition, Leave, Trouble, Swept,
    batVars, legVars, bookVars, exVars, runVars, rVars, TypeOK, Places,
    LockInv, CallInv, Opening, Closing, Actors, Executors, Statuses, Ended,
    Sizes, LegStates
<1>7. ASSUME NEW a \in Executors, Send(a)
      PROVE  TypeOK' /\ Places' /\ LockInv' /\ CallInv'
  <2>1. order' \subseteq Legs /\ sends' \in [Legs -> Nat]
    BY <1>7 DEF Send, Trouble, TypeOK, CallInv
  <2>2. order' \subseteq Legs /\ sends' \in [Legs -> Nat] => TypeOK' /\ Places' /\ LockInv' /\ CallInv'
    BY <1>7 DEF Send, Goto, Trouble, batVars, legVars, bookVars, exVars,
      runVars, rVars, TypeOK, Places, LockInv, CallInv, Opening, Closing,
      Actors, Executors, Statuses, Ended, Sizes, LegStates
  <2>. QED BY <2>1, <2>2
<1>8. ASSUME NEW a \in Executors, Record(a)
      PROVE  TypeOK' /\ Places' /\ LockInv' /\ CallInv'
  <2>1. leg' \in [Legs -> LegStates]
    BY <1>8 DEF Record, Recorded, TypeOK, CallInv, LegStates
  <2>2. leg' \in [Legs -> LegStates] => TypeOK' /\ Places' /\ LockInv' /\ CallInv'
    BY <1>8 DEF Record, Goto, Recorded, batVars, legVars, bookVars, exVars,
      runVars, rVars, TypeOK, Places, LockInv, CallInv, Opening, Closing,
      Actors, Executors, Statuses, Ended, Sizes, LegStates
  <2>. QED BY <2>1, <2>2
<1>9. ASSUME NEW a \in Executors, Finish(a) PROVE TypeOK' /\ Places' /\ LockInv' /\ CallInv'
  BY <1>9 DEF Finish, Goto, Transition, Leave, batVars, legVars, bookVars,
    exVars, runVars, rVars, TypeOK, Places, LockInv, CallInv, Opening,
    Closing, Actors, Executors, Statuses, Ended, Sizes, LegStates
<1>10. ASSUME NEW a \in Executors, NEW l \in Legs, Reserve(a, l) PROVE TypeOK' /\ Places' /\ LockInv' /\ CallInv'
  BY <1>10 DEF Reserve, Goto, Reservation, batVars, legVars, bookVars,
    exVars, runVars, rVars, TypeOK, Places, LockInv, CallInv, Opening,
    Closing, Actors, Executors, Statuses, Ended, Sizes, LegStates
<1>11. CASE ListWork
  BY <1>11 DEF ListWork, Goto, batVars, legVars, bookVars, exVars, runVars,
    rVars, TypeOK, Places, LockInv, CallInv, Opening, Closing, Actors,
    Executors, Statuses, Ended, Sizes, LegStates
<1>12. CASE ClaimWork
  <2>1. tick' \subseteq {"fresh", "steady"}
    BY <1>12 DEF ClaimWork, TypeOK
  <2>2. (TypeOK' /\ Places' /\ LockInv' /\ CallInv') \/ ~(tick' \subseteq {"fresh", "steady"})
    BY <1>12 DEF ClaimWork, Goto, Transition, batVars, legVars, bookVars,
      exVars, runVars, rVars, TypeOK, Places, LockInv, CallInv, Opening,
      Closing, Actors, Executors, Statuses, Ended, Sizes, LegStates
  <2>. QED BY <2>1, <2>2
<1>13. CASE CheckPositions
  <2>1. tick' \subseteq {"fresh", "steady"}
    BY <1>13 DEF CheckPositions, TypeOK
  <2>2. (TypeOK' /\ Places' /\ LockInv' /\ CallInv') \/ ~(tick' \subseteq {"fresh", "steady"})
    BY <1>13 DEF CheckPositions, Goto, Trouble, batVars, legVars, bookVars,
      exVars, runVars, rVars, TypeOK, Places, LockInv, CallInv, Opening,
      Closing, Actors, Executors, Statuses, Ended, Sizes, LegStates
  <2>. QED BY <2>1, <2>2
<1>14. CASE Judge
  BY <1>14 DEF Judge, Goto, Freeze, Transition, batVars, legVars, bookVars,
    exVars, runVars, rVars, TypeOK, Places, LockInv, CallInv, Opening,
    Closing, Actors, Executors, Statuses, Ended, Sizes, LegStates
<1>15. CASE Recheck
  BY <1>15 DEF Recheck, Goto, batVars, legVars, bookVars, exVars, runVars,
    rVars, TypeOK, Places, LockInv, CallInv, Opening, Closing, Actors,
    Executors, Statuses, Ended, Sizes, LegStates
<1>16. CASE Block
  BY <1>16 DEF Block, Goto, Transition, batVars, legVars, bookVars, exVars,
    runVars, rVars, TypeOK, Places, LockInv, CallInv, Opening, Closing,
    Actors, Executors, Statuses, Ended, Sizes, LegStates
<1>17. CASE ResolveRace
  BY <1>17 DEF ResolveRace, Transition, batVars, legVars, bookVars, exVars,
    runVars, rVars, TypeOK, Places, LockInv, CallInv, Opening, Closing,
    Actors, Executors, Statuses, Ended, Sizes, LegStates
<1>18. CASE Expire
  BY <1>18 DEF Expire, Transition, batVars, legVars, bookVars, exVars,
    runVars, rVars, TypeOK, Places, LockInv, CallInv, Opening, Closing,
    Actors, Executors, Statuses, Ended, Sizes, LegStates
<1>19. CASE SnapshotPositions
  BY <1>19 DEF SnapshotPositions, Goto, batVars, legVars, bookVars, exVars,
    runVars, rVars, TypeOK, Places, LockInv, CallInv, Opening, Closing,
    Actors, Executors, Statuses, Ended, Sizes, LegStates
<1>20. CASE SnapshotOrders
  BY <1>20 DEF SnapshotOrders, Goto, Trouble, batVars, legVars, bookVars,
    exVars, runVars, rVars, TypeOK, Places, LockInv, CallInv, Opening,
    Closing, Actors, Executors, Statuses, Ended, Sizes, LegStates
<1>21. CASE ReadBatch
  BY <1>21 DEF ReadBatch, Goto, NoSnapshot, batVars, legVars, bookVars,
    exVars, runVars, rVars, TypeOK, Places, LockInv, CallInv, Opening,
    Closing, Actors, Executors, Statuses, Ended, Sizes, LegStates
<1>22. CASE WriteBatch
  <2>1. leg' \in [Legs -> LegStates]
    BY <1>22, ReconciledType DEF WriteBatch, TypeOK
  <2>2. status' \in Statuses /\ why' \in {"none", "race", "presubmit"}
    BY <1>22, OutcomeType DEF WriteBatch, Writes, batVars, TypeOK, Statuses, Ended
  <2>3. life' \in {"owned", "lost", "exited"}
    BY <1>22 DEF WriteBatch, TypeOK
  <2>4. kind' = kind
    BY <1>22 DEF WriteBatch, Writes, batVars
  <2>. DEFINE frame == /\ pc["R"] = "write" /\ Goto("R", "idle") /\ lock' = "free" /\ NoSnapshot
                     /\ UNCHANGED <<cid, entry, regained, exVars, runVars, tick, troubles>>
  <2>5. frame
    BY <1>22 DEF WriteBatch
  <2>. HIDE DEF WriteBatch
  <2>. QED
    BY <2>1, <2>2, <2>3, <2>4, <2>5 DEF Goto, NoSnapshot, exVars, runVars, TypeOK,
       Places, LockInv, CallInv, Opening, Closing, Actors, Executors, Sizes
<1>23. CASE EntryFills
  BY <1>23 DEF EntryFills, batVars, legVars, bookVars, exVars, runVars,
    rVars, TypeOK, Places, LockInv, CallInv, Opening, Closing, Actors,
    Executors, Statuses, Ended, Sizes, LegStates
<1>24. CASE Attribute
  BY <1>24 DEF Attribute, batVars, legVars, bookVars, exVars, runVars,
    rVars, TypeOK, Places, LockInv, CallInv, Opening, Closing, Actors,
    Executors, Statuses, Ended, Sizes, LegStates
<1>25. CASE Disowned
  BY <1>25 DEF Disowned, Trouble, batVars, legVars, bookVars, exVars,
    runVars, rVars, TypeOK, Places, LockInv, CallInv, Opening, Closing,
    Actors, Executors, Statuses, Ended, Sizes, LegStates
<1>30. CASE Reowned
  BY <1>30 DEF Reowned, batVars, legVars, bookVars, exVars,
    runVars, rVars, TypeOK, Places, LockInv, CallInv, Opening, Closing,
    Actors, Executors, Statuses, Ended, Sizes, LegStates
<1>26. CASE Crash
  BY <1>26 DEF Crash, Trouble, NoSnapshot, batVars, legVars, bookVars,
    exVars, runVars, rVars, TypeOK, Places, LockInv, CallInv, Opening,
    Closing, Actors, Executors, Statuses, Ended, Sizes, LegStates
<1>27. ASSUME NEW l \in Legs, Fill(l) PROVE TypeOK' /\ Places' /\ LockInv' /\ CallInv'
  BY <1>27 DEF Fill, batVars, legVars, bookVars, exVars, runVars, rVars,
    TypeOK, Places, LockInv, CallInv, Opening, Closing, Actors, Executors,
    Statuses, Ended, Sizes, LegStates
<1>28. ASSUME NEW l \in Legs, Reduced(l) PROVE TypeOK' /\ Places' /\ LockInv' /\ CallInv'
  BY <1>28 DEF Reduced, Trouble, batVars, legVars, bookVars, exVars,
    runVars, rVars, TypeOK, Places, LockInv, CallInv, Opening, Closing,
    Actors, Executors, Statuses, Ended, Sizes, LegStates
<1>29. CASE UNCHANGED vars
  BY <1>29 DEF vars, batVars, legVars, bookVars, exVars, runVars, rVars,
    TypeOK, Places, LockInv, CallInv, Opening, Closing, Actors, Executors,
    Statuses, Ended, Sizes, LegStates
<1>. QED BY <1>1, <1>2, <1>3, <1>4, <1>5, <1>6, <1>7, <1>8, <1>9, <1>10,
      <1>11, <1>12, <1>13, <1>14, <1>15, <1>16, <1>17, <1>18, <1>19, <1>20,
      <1>21, <1>22, <1>23, <1>24, <1>25, <1>26, <1>27, <1>28, <1>29, <1>30
      DEF Next, Execute, Worker, Reconcile

-----------------------------------------------------------------------------
(* Calls.                                                                   *)

\* A leg is called for once, after its reservation, and its answer is kept.
SendInv ==
  /\ \A a \in Executors :
       pc[a] = "send" => leg[cur] = "reserved" /\ sends[cur] = 0 /\ cur \notin order
  /\ \A a \in Executors :
       pc[a] = "record" => leg[cur] = "reserved" /\ (ans = "failed" => cur \notin order)
  /\ \A l \in Legs : sends[l] <= 1
  /\ \A l \in Legs : leg[l] = "planned" => sends[l] = 0 /\ l \notin order /\ l \notin cid
  /\ \A l \in Legs : leg[l] = "failed" => l \notin order

LEMMA ReconciledFacts ==
  ASSUME TypeOK, NEW l \in Legs
  PROVE  /\ Reconciled(l) # "planned"
         /\ Reconciled(l) # "reserved"
         /\ Reconciled(l) = "failed" => leg[l] = "failed"
         /\ Reconciled(l) = "confirmed" =>
              rpos[l] = "planned" /\ (leg[l] \in {"planned", "confirmed"} \/ l \in rfound)
BY DEF TypeOK, Reconciled, SizeSays, OrderFound, LegStates, Sizes

LEMMA SendInit == Init => SendInv
BY DEF Init, SendInv, Executors, Actors

LEMMA SendStep ==
  ASSUME TypeOK, LockInv, CallInv, SendInv, [Next]_vars
  PROVE  SendInv'
<1>1. ASSUME NEW a \in Actors, Acquire(a) PROVE SendInv'
  BY <1>1 DEF Acquire, Goto, batVars, legVars, bookVars, exVars, runVars,
    rVars, TypeOK, LockInv, CallInv, SendInv, Opening, Closing, Actors,
    Executors
<1>2. ASSUME NEW a \in Executors, Open(a) PROVE SendInv'
  BY <1>2 DEF Open, Goto, Transition, Leave, batVars, legVars, bookVars,
    exVars, runVars, rVars, TypeOK, LockInv, CallInv, SendInv, Opening,
    Closing, Actors, Executors
<1>3. ASSUME NEW a \in Executors, Entries(a) PROVE SendInv'
  BY <1>3 DEF Entries, Goto, Pause, Transition, Leave, batVars, legVars,
    bookVars, exVars, runVars, rVars, TypeOK, LockInv, CallInv, SendInv,
    Opening, Closing, Actors, Executors
<1>4. ASSUME NEW a \in Executors, Cancel(a) PROVE SendInv'
  BY <1>4 DEF Cancel, Goto, Pause, LostCancel, Transition, Leave, Trouble,
    batVars, legVars, bookVars, exVars, runVars, rVars, TypeOK, LockInv,
    CallInv, SendInv, Opening, Closing, Actors, Executors
<1>5. ASSUME NEW a \in Executors, RecordCancel(a) PROVE SendInv'
  BY <1>5 DEF RecordCancel, Goto, batVars, legVars, bookVars, exVars,
    runVars, rVars, TypeOK, LockInv, CallInv, SendInv, Opening, Closing,
    Actors, Executors
<1>6. ASSUME NEW a \in Executors, Boundary(a) PROVE SendInv'
  BY <1>6 DEF Boundary, Goto, Pause, Transition, Leave, Trouble, Swept,
    batVars, legVars, bookVars, exVars, runVars, rVars, TypeOK, LockInv,
    CallInv, SendInv, Opening, Closing, Actors, Executors
<1>7. ASSUME NEW a \in Executors, Send(a) PROVE SendInv'
  BY <1>7 DEF Send, Goto, Trouble, batVars, legVars, bookVars, exVars,
    runVars, rVars, TypeOK, LockInv, CallInv, SendInv, Opening, Closing,
    Actors, Executors
<1>8. ASSUME NEW a \in Executors, Record(a) PROVE SendInv'
  BY <1>8 DEF Record, Goto, Recorded, batVars, legVars, bookVars, exVars,
    runVars, rVars, TypeOK, LockInv, CallInv, SendInv, Opening, Closing,
    Actors, Executors
<1>9. ASSUME NEW a \in Executors, Finish(a) PROVE SendInv'
  BY <1>9 DEF Finish, Goto, Transition, Leave, batVars, legVars, bookVars,
    exVars, runVars, rVars, TypeOK, LockInv, CallInv, SendInv, Opening,
    Closing, Actors, Executors
<1>10. ASSUME NEW a \in Executors, NEW l \in Legs, Reserve(a, l) PROVE SendInv'
  BY <1>10 DEF Reserve, Goto, Reservation, batVars, legVars, bookVars,
    exVars, runVars, rVars, TypeOK, LockInv, CallInv, SendInv, Opening,
    Closing, Actors, Executors
<1>11. CASE ListWork
  BY <1>11 DEF ListWork, Goto, batVars, legVars, bookVars, exVars, runVars,
    rVars, TypeOK, LockInv, CallInv, SendInv, Opening, Closing, Actors,
    Executors
<1>12. CASE ClaimWork
  BY <1>12 DEF ClaimWork, Goto, Transition, batVars, legVars, bookVars,
    exVars, runVars, rVars, TypeOK, LockInv, CallInv, SendInv, Opening,
    Closing, Actors, Executors
<1>13. CASE CheckPositions
  BY <1>13 DEF CheckPositions, Goto, Trouble, batVars, legVars, bookVars,
    exVars, runVars, rVars, TypeOK, LockInv, CallInv, SendInv, Opening,
    Closing, Actors, Executors
<1>14. CASE Judge
  BY <1>14 DEF Judge, Goto, Freeze, Transition, batVars, legVars, bookVars,
    exVars, runVars, rVars, TypeOK, LockInv, CallInv, SendInv, Opening,
    Closing, Actors, Executors
<1>15. CASE Recheck
  BY <1>15 DEF Recheck, Goto, batVars, legVars, bookVars, exVars, runVars,
    rVars, TypeOK, LockInv, CallInv, SendInv, Opening, Closing, Actors,
    Executors
<1>16. CASE Block
  BY <1>16 DEF Block, Goto, Transition, batVars, legVars, bookVars, exVars,
    runVars, rVars, TypeOK, LockInv, CallInv, SendInv, Opening, Closing,
    Actors, Executors
<1>17. CASE ResolveRace
  BY <1>17 DEF ResolveRace, Transition, batVars, legVars, bookVars, exVars,
    runVars, rVars, TypeOK, LockInv, CallInv, SendInv, Opening, Closing,
    Actors, Executors
<1>18. CASE Expire
  BY <1>18 DEF Expire, Transition, batVars, legVars, bookVars, exVars,
    runVars, rVars, TypeOK, LockInv, CallInv, SendInv, Opening, Closing,
    Actors, Executors
<1>19. CASE SnapshotPositions
  BY <1>19 DEF SnapshotPositions, Goto, batVars, legVars, bookVars, exVars,
    runVars, rVars, TypeOK, LockInv, CallInv, SendInv, Opening, Closing,
    Actors, Executors
<1>20. CASE SnapshotOrders
  BY <1>20 DEF SnapshotOrders, Goto, Trouble, batVars, legVars, bookVars,
    exVars, runVars, rVars, TypeOK, LockInv, CallInv, SendInv, Opening,
    Closing, Actors, Executors
<1>21. CASE ReadBatch
  BY <1>21 DEF ReadBatch, Goto, NoSnapshot, batVars, legVars, bookVars,
    exVars, runVars, rVars, TypeOK, LockInv, CallInv, SendInv, Opening,
    Closing, Actors, Executors
<1>22. CASE WriteBatch
  <2>1. /\ pc["R"] = "write" /\ Goto("R", "idle")
        /\ UNCHANGED <<cid, exVars, runVars>>
    BY <1>22 DEF WriteBatch
  <2>2. \A a \in Executors : pc[a] \notin {"send", "record"} /\ pc'[a] = pc[a]
    BY <2>1 DEF Goto, LockInv, TypeOK, Actors, Executors, Closing
  <2>3. \A l \in Legs : /\ leg'[l] = "planned" => leg[l] = "planned"
                        /\ leg'[l] = "failed" => leg[l] = "failed"
    BY <1>22, ReconciledFacts DEF WriteBatch
  <2>. QED BY <2>1, <2>2, <2>3 DEF SendInv, exVars
<1>23. CASE EntryFills
  BY <1>23 DEF EntryFills, batVars, legVars, bookVars, exVars, runVars,
    rVars, TypeOK, LockInv, CallInv, SendInv, Opening, Closing, Actors,
    Executors
<1>24. CASE Attribute
  BY <1>24 DEF Attribute, batVars, legVars, bookVars, exVars, runVars,
    rVars, TypeOK, LockInv, CallInv, SendInv, Opening, Closing, Actors,
    Executors
<1>25. CASE Disowned
  BY <1>25 DEF Disowned, Trouble, batVars, legVars, bookVars, exVars,
    runVars, rVars, TypeOK, LockInv, CallInv, SendInv, Opening, Closing,
    Actors, Executors
<1>30. CASE Reowned
  BY <1>30 DEF Reowned, batVars, legVars, bookVars, exVars,
    runVars, rVars, TypeOK, LockInv, CallInv, SendInv, Opening, Closing,
    Actors, Executors
<1>26. CASE Crash
  BY <1>26 DEF Crash, Trouble, NoSnapshot, batVars, legVars, bookVars,
    exVars, runVars, rVars, TypeOK, LockInv, CallInv, SendInv, Opening,
    Closing, Actors, Executors
<1>27. ASSUME NEW l \in Legs, Fill(l) PROVE SendInv'
  BY <1>27 DEF Fill, batVars, legVars, bookVars, exVars, runVars, rVars,
    TypeOK, LockInv, CallInv, SendInv, Opening, Closing, Actors, Executors
<1>28. ASSUME NEW l \in Legs, Reduced(l) PROVE SendInv'
  BY <1>28 DEF Reduced, Trouble, batVars, legVars, bookVars, exVars,
    runVars, rVars, TypeOK, LockInv, CallInv, SendInv, Opening, Closing,
    Actors, Executors
<1>29. CASE UNCHANGED vars
  BY <1>29 DEF vars, batVars, legVars, bookVars, exVars, runVars, rVars,
    TypeOK, LockInv, CallInv, SendInv, Opening, Closing, Actors, Executors
<1>. QED BY <1>1, <1>2, <1>3, <1>4, <1>5, <1>6, <1>7, <1>8, <1>9, <1>10,
      <1>11, <1>12, <1>13, <1>14, <1>15, <1>16, <1>17, <1>18, <1>19, <1>20,
      <1>21, <1>22, <1>23, <1>24, <1>25, <1>26, <1>27, <1>28, <1>29, <1>30
      DEF Next, Execute, Worker, Reconcile

-----------------------------------------------------------------------------
(* The unfilled entry.                                                      *)

\* Past the cancel the entry's order can no longer fill.
EntryInv ==
  /\ kind = "partial" => entry = "none"
  /\ entry = "none" => xentry = "none"
  /\ \A a \in Executors :
       /\ pc[a] = "cancelled" => entry # "none"
       /\ pc[a] \in Closing \ {"cancel"} => xentry \in {"none", "gone"}
  /\ (\E l \in Legs : sends[l] > 0) => xentry \in {"none", "gone"}

LEMMA EntryInit == Init => EntryInv
BY DEF Init, EntryInv, Executors, Actors, Closing

LEMMA EntryStep ==
  ASSUME TypeOK, LockInv, CallInv, EntryInv, [Next]_vars
  PROVE  EntryInv'
<1>1. ASSUME NEW a \in Actors, Acquire(a) PROVE EntryInv'
  BY <1>1 DEF Acquire, Goto, batVars, legVars, bookVars, exVars, runVars,
    rVars, TypeOK, LockInv, CallInv, EntryInv, Opening, Closing, Actors,
    Executors
<1>2. ASSUME NEW a \in Executors, Open(a) PROVE EntryInv'
  BY <1>2 DEF Open, Goto, Transition, Leave, batVars, legVars, bookVars,
    exVars, runVars, rVars, TypeOK, LockInv, CallInv, EntryInv, Opening,
    Closing, Actors, Executors
<1>3. ASSUME NEW a \in Executors, Entries(a) PROVE EntryInv'
  BY <1>3 DEF Entries, Goto, Pause, Transition, Leave, batVars, legVars,
    bookVars, exVars, runVars, rVars, TypeOK, LockInv, CallInv, EntryInv,
    Opening, Closing, Actors, Executors
<1>4. ASSUME NEW a \in Executors, Cancel(a) PROVE EntryInv'
  BY <1>4 DEF Cancel, Goto, Pause, LostCancel, Transition, Leave, Trouble,
    batVars, legVars, bookVars, exVars, runVars, rVars, TypeOK, LockInv,
    CallInv, EntryInv, Opening, Closing, Actors, Executors
<1>5. ASSUME NEW a \in Executors, RecordCancel(a) PROVE EntryInv'
  BY <1>5 DEF RecordCancel, Goto, batVars, legVars, bookVars, exVars,
    runVars, rVars, TypeOK, LockInv, CallInv, EntryInv, Opening, Closing,
    Actors, Executors
<1>6. ASSUME NEW a \in Executors, Boundary(a) PROVE EntryInv'
  BY <1>6 DEF Boundary, Goto, Pause, Transition, Leave, Trouble, Swept,
    batVars, legVars, bookVars, exVars, runVars, rVars, TypeOK, LockInv,
    CallInv, EntryInv, Opening, Closing, Actors, Executors
<1>7. ASSUME NEW a \in Executors, Send(a) PROVE EntryInv'
  BY <1>7 DEF Send, Goto, Trouble, batVars, legVars, bookVars, exVars,
    runVars, rVars, TypeOK, LockInv, CallInv, EntryInv, Opening, Closing,
    Actors, Executors
<1>8. ASSUME NEW a \in Executors, Record(a) PROVE EntryInv'
  BY <1>8 DEF Record, Goto, Recorded, batVars, legVars, bookVars, exVars,
    runVars, rVars, TypeOK, LockInv, CallInv, EntryInv, Opening, Closing,
    Actors, Executors
<1>9. ASSUME NEW a \in Executors, Finish(a) PROVE EntryInv'
  BY <1>9 DEF Finish, Goto, Transition, Leave, batVars, legVars, bookVars,
    exVars, runVars, rVars, TypeOK, LockInv, CallInv, EntryInv, Opening,
    Closing, Actors, Executors
<1>10. ASSUME NEW a \in Executors, NEW l \in Legs, Reserve(a, l) PROVE EntryInv'
  BY <1>10 DEF Reserve, Goto, Reservation, batVars, legVars, bookVars,
    exVars, runVars, rVars, TypeOK, LockInv, CallInv, EntryInv, Opening,
    Closing, Actors, Executors
<1>11. CASE ListWork
  BY <1>11 DEF ListWork, Goto, batVars, legVars, bookVars, exVars, runVars,
    rVars, TypeOK, LockInv, CallInv, EntryInv, Opening, Closing, Actors,
    Executors
<1>12. CASE ClaimWork
  BY <1>12 DEF ClaimWork, Goto, Transition, batVars, legVars, bookVars,
    exVars, runVars, rVars, TypeOK, LockInv, CallInv, EntryInv, Opening,
    Closing, Actors, Executors
<1>13. CASE CheckPositions
  BY <1>13 DEF CheckPositions, Goto, Trouble, batVars, legVars, bookVars,
    exVars, runVars, rVars, TypeOK, LockInv, CallInv, EntryInv, Opening,
    Closing, Actors, Executors
<1>14. CASE Judge
  BY <1>14 DEF Judge, Goto, Freeze, Transition, batVars, legVars, bookVars,
    exVars, runVars, rVars, TypeOK, LockInv, CallInv, EntryInv, Opening,
    Closing, Actors, Executors
<1>15. CASE Recheck
  BY <1>15 DEF Recheck, Goto, batVars, legVars, bookVars, exVars, runVars,
    rVars, TypeOK, LockInv, CallInv, EntryInv, Opening, Closing, Actors,
    Executors
<1>16. CASE Block
  BY <1>16 DEF Block, Goto, Transition, batVars, legVars, bookVars, exVars,
    runVars, rVars, TypeOK, LockInv, CallInv, EntryInv, Opening, Closing,
    Actors, Executors
<1>17. CASE ResolveRace
  BY <1>17 DEF ResolveRace, Transition, batVars, legVars, bookVars, exVars,
    runVars, rVars, TypeOK, LockInv, CallInv, EntryInv, Opening, Closing,
    Actors, Executors
<1>18. CASE Expire
  BY <1>18 DEF Expire, Transition, batVars, legVars, bookVars, exVars,
    runVars, rVars, TypeOK, LockInv, CallInv, EntryInv, Opening, Closing,
    Actors, Executors
<1>19. CASE SnapshotPositions
  BY <1>19 DEF SnapshotPositions, Goto, batVars, legVars, bookVars, exVars,
    runVars, rVars, TypeOK, LockInv, CallInv, EntryInv, Opening, Closing,
    Actors, Executors
<1>20. CASE SnapshotOrders
  BY <1>20 DEF SnapshotOrders, Goto, Trouble, batVars, legVars, bookVars,
    exVars, runVars, rVars, TypeOK, LockInv, CallInv, EntryInv, Opening,
    Closing, Actors, Executors
<1>21. CASE ReadBatch
  BY <1>21 DEF ReadBatch, Goto, NoSnapshot, batVars, legVars, bookVars,
    exVars, runVars, rVars, TypeOK, LockInv, CallInv, EntryInv, Opening,
    Closing, Actors, Executors
<1>22. CASE WriteBatch
  BY <1>22 DEF WriteBatch, Goto, Writes, NoSnapshot, batVars, legVars,
    bookVars, exVars, runVars, rVars, TypeOK, LockInv, CallInv, EntryInv,
    Opening, Closing, Actors, Executors
<1>23. CASE EntryFills
  BY <1>23 DEF EntryFills, batVars, legVars, bookVars, exVars, runVars,
    rVars, TypeOK, LockInv, CallInv, EntryInv, Opening, Closing, Actors,
    Executors
<1>24. CASE Attribute
  BY <1>24 DEF Attribute, batVars, legVars, bookVars, exVars, runVars,
    rVars, TypeOK, LockInv, CallInv, EntryInv, Opening, Closing, Actors,
    Executors
<1>25. CASE Disowned
  BY <1>25 DEF Disowned, Trouble, batVars, legVars, bookVars, exVars,
    runVars, rVars, TypeOK, LockInv, CallInv, EntryInv, Opening, Closing,
    Actors, Executors
<1>30. CASE Reowned
  BY <1>30 DEF Reowned, batVars, legVars, bookVars, exVars,
    runVars, rVars, TypeOK, LockInv, CallInv, EntryInv, Opening, Closing,
    Actors, Executors
<1>26. CASE Crash
  BY <1>26 DEF Crash, Trouble, NoSnapshot, batVars, legVars, bookVars,
    exVars, runVars, rVars, TypeOK, LockInv, CallInv, EntryInv, Opening,
    Closing, Actors, Executors
<1>27. ASSUME NEW l \in Legs, Fill(l) PROVE EntryInv'
  BY <1>27 DEF Fill, batVars, legVars, bookVars, exVars, runVars, rVars,
    TypeOK, LockInv, CallInv, EntryInv, Opening, Closing, Actors, Executors
<1>28. ASSUME NEW l \in Legs, Reduced(l) PROVE EntryInv'
  BY <1>28 DEF Reduced, Trouble, batVars, legVars, bookVars, exVars,
    runVars, rVars, TypeOK, LockInv, CallInv, EntryInv, Opening, Closing,
    Actors, Executors
<1>29. CASE UNCHANGED vars
  BY <1>29 DEF vars, batVars, legVars, bookVars, exVars, runVars, rVars,
    TypeOK, LockInv, CallInv, EntryInv, Opening, Closing, Actors, Executors
<1>. QED BY <1>1, <1>2, <1>3, <1>4, <1>5, <1>6, <1>7, <1>8, <1>9, <1>10,
      <1>11, <1>12, <1>13, <1>14, <1>15, <1>16, <1>17, <1>18, <1>19, <1>20,
      <1>21, <1>22, <1>23, <1>24, <1>25, <1>26, <1>27, <1>28, <1>29, <1>30
      DEF Next, Execute, Worker, Reconcile

-----------------------------------------------------------------------------
(* What a close may be taken for.                                           *)

\* Snapshots lag behind an exchange whose positions only shrink; a confirmed leg
\* has lost its planned size, by its own order if it was reserved.
DoneInv ==
  /\ \A l \in Legs : rpos[l] \in {"planned", "below"} => pos[l] \in {"planned", "below"}
  /\ \A l \in Legs : kind = "full" =>
       pos[l] # "below" /\ (rpos[l] = "planned" => pos[l] = "planned")
  /\ rfound \subseteq order
  /\ \A l \in Legs : leg[l] = "confirmed" =>
       /\ pos[l] \in {"planned", "below"} /\ (l \in cid => l \in order)
       /\ kind = "full" => pos[l] = "planned"
  /\ status = "succeeded" => \A l \in Legs : leg[l] = "confirmed"
  /\ pc["R"] = "write" =>
       status # "succeeded" /\ seen \in {"executing", "reconciling", "partial_failed"}
  /\ life = "exited" => kind = "full" /\ \A l \in Legs : pos[l] = "planned"

LEMMA OutcomeFacts ==
  ASSUME NEW new, Outcome(new) = "succeeded"
  PROVE  \A l \in Legs : new[l] = "confirmed"
BY DEF Outcome

LEMMA DoneInit == Init => DoneInv
BY DEF Init, DoneInv, Actors

LEMMA DoneStep ==
  ASSUME TypeOK, LockInv, Places, CallInv, SendInv, DoneInv, [Next]_vars
  PROVE  DoneInv'
<1>1. ASSUME NEW a \in Actors, Acquire(a) PROVE DoneInv'
  BY <1>1 DEF Acquire, Goto, batVars, legVars, bookVars, exVars, runVars,
    rVars, TypeOK, LockInv, Places, CallInv, SendInv, DoneInv, Opening,
    Closing, Actors, Executors, Sizes
<1>2. ASSUME NEW a \in Executors, Open(a) PROVE DoneInv'
  BY <1>2 DEF Open, Goto, Transition, Leave, batVars, legVars, bookVars,
    exVars, runVars, rVars, TypeOK, LockInv, Places, CallInv, SendInv,
    DoneInv, Opening, Closing, Actors, Executors, Sizes
<1>3. ASSUME NEW a \in Executors, Entries(a) PROVE DoneInv'
  BY <1>3 DEF Entries, Goto, Pause, Transition, Leave, batVars, legVars,
    bookVars, exVars, runVars, rVars, TypeOK, LockInv, Places, CallInv,
    SendInv, DoneInv, Opening, Closing, Actors, Executors, Sizes
<1>4. ASSUME NEW a \in Executors, Cancel(a) PROVE DoneInv'
  BY <1>4 DEF Cancel, Goto, Pause, LostCancel, Transition, Leave, Trouble,
    batVars, legVars, bookVars, exVars, runVars, rVars, TypeOK, LockInv,
    Places, CallInv, SendInv, DoneInv, Opening, Closing, Actors, Executors,
    Sizes
<1>5. ASSUME NEW a \in Executors, RecordCancel(a) PROVE DoneInv'
  BY <1>5 DEF RecordCancel, Goto, batVars, legVars, bookVars, exVars,
    runVars, rVars, TypeOK, LockInv, Places, CallInv, SendInv, DoneInv,
    Opening, Closing, Actors, Executors, Sizes
<1>6. ASSUME NEW a \in Executors, Boundary(a) PROVE DoneInv'
  BY <1>6 DEF Boundary, Goto, Pause, Transition, Leave, Trouble, Swept,
    batVars, legVars, bookVars, exVars, runVars, rVars, TypeOK, LockInv,
    Places, CallInv, SendInv, DoneInv, Opening, Closing, Actors, Executors,
    Sizes
<1>7. ASSUME NEW a \in Executors, Send(a) PROVE DoneInv'
  BY <1>7 DEF Send, Goto, Trouble, batVars, legVars, bookVars, exVars,
    runVars, rVars, TypeOK, LockInv, Places, CallInv, SendInv, DoneInv,
    Opening, Closing, Actors, Executors, Sizes
<1>8. ASSUME NEW a \in Executors, Record(a) PROVE DoneInv'
  BY <1>8 DEF Record, Goto, Recorded, batVars, legVars, bookVars, exVars,
    runVars, rVars, TypeOK, LockInv, Places, CallInv, SendInv, DoneInv,
    Opening, Closing, Actors, Executors, Sizes
<1>9. ASSUME NEW a \in Executors, Finish(a) PROVE DoneInv'
  BY <1>9 DEF Finish, Goto, Transition, Leave, batVars, legVars, bookVars,
    exVars, runVars, rVars, TypeOK, LockInv, Places, CallInv, SendInv,
    DoneInv, Opening, Closing, Actors, Executors, Sizes
<1>10. ASSUME NEW a \in Executors, NEW l \in Legs, Reserve(a, l) PROVE DoneInv'
  BY <1>10 DEF Reserve, Goto, Reservation, batVars, legVars, bookVars,
    exVars, runVars, rVars, TypeOK, LockInv, Places, CallInv, SendInv,
    DoneInv, Opening, Closing, Actors, Executors, Sizes
<1>11. CASE ListWork
  BY <1>11 DEF ListWork, Goto, batVars, legVars, bookVars, exVars, runVars,
    rVars, TypeOK, LockInv, Places, CallInv, SendInv, DoneInv, Opening,
    Closing, Actors, Executors, Sizes
<1>12. CASE ClaimWork
  BY <1>12 DEF ClaimWork, Goto, Transition, batVars, legVars, bookVars,
    exVars, runVars, rVars, TypeOK, LockInv, Places, CallInv, SendInv,
    DoneInv, Opening, Closing, Actors, Executors, Sizes
<1>13. CASE CheckPositions
  BY <1>13 DEF CheckPositions, Goto, Trouble, batVars, legVars, bookVars,
    exVars, runVars, rVars, TypeOK, LockInv, Places, CallInv, SendInv,
    DoneInv, Opening, Closing, Actors, Executors, Sizes
<1>14. CASE Judge
  BY <1>14 DEF Judge, Goto, Freeze, Transition, batVars, legVars, bookVars,
    exVars, runVars, rVars, TypeOK, LockInv, Places, CallInv, SendInv,
    DoneInv, Opening, Closing, Actors, Executors, Sizes
<1>15. CASE Recheck
  BY <1>15 DEF Recheck, Goto, batVars, legVars, bookVars, exVars, runVars,
    rVars, TypeOK, LockInv, Places, CallInv, SendInv, DoneInv, Opening,
    Closing, Actors, Executors, Sizes
<1>16. CASE Block
  BY <1>16 DEF Block, Goto, Transition, batVars, legVars, bookVars, exVars,
    runVars, rVars, TypeOK, LockInv, Places, CallInv, SendInv, DoneInv,
    Opening, Closing, Actors, Executors, Sizes
<1>17. CASE ResolveRace
  BY <1>17 DEF ResolveRace, Transition, batVars, legVars, bookVars, exVars,
    runVars, rVars, TypeOK, LockInv, Places, CallInv, SendInv, DoneInv,
    Opening, Closing, Actors, Executors, Sizes
<1>18. CASE Expire
  BY <1>18 DEF Expire, Transition, batVars, legVars, bookVars, exVars,
    runVars, rVars, TypeOK, LockInv, Places, CallInv, SendInv, DoneInv,
    Opening, Closing, Actors, Executors, Sizes
<1>19. CASE SnapshotPositions
  BY <1>19 DEF SnapshotPositions, Goto, batVars, legVars, bookVars, exVars,
    runVars, rVars, TypeOK, LockInv, Places, CallInv, SendInv, DoneInv,
    Opening, Closing, Actors, Executors, Sizes
<1>20. CASE SnapshotOrders
  BY <1>20 DEF SnapshotOrders, Goto, Trouble, batVars, legVars, bookVars,
    exVars, runVars, rVars, TypeOK, LockInv, Places, CallInv, SendInv,
    DoneInv, Opening, Closing, Actors, Executors, Sizes
<1>21. CASE ReadBatch
  BY <1>21 DEF ReadBatch, Goto, NoSnapshot, batVars, legVars, bookVars,
    exVars, runVars, rVars, TypeOK, LockInv, Places, CallInv, SendInv,
    DoneInv, Opening, Closing, Actors, Executors, Sizes
<1>22. CASE WriteBatch
  <2>1. /\ pc["R"] = "write" /\ pc' = [pc EXCEPT !["R"] = "idle"] /\ NoSnapshot
        /\ UNCHANGED <<kind, cid, entry, pos, order>>
    BY <1>22 DEF WriteBatch, Goto, Writes, batVars, exVars
  <2>2. /\ status # "succeeded" /\ seen \in {"executing", "reconciling", "partial_failed"}
        /\ pc'["R"] = "idle"
    BY <2>1 DEF DoneInv, TypeOK, Actors
  <2>3. CASE leg' = leg /\ life' = life /\ status' # "succeeded"
    BY <2>1, <2>2, <2>3 DEF NoSnapshot, DoneInv
  <2>4. CASE /\ leg' = [l \in Legs |-> Reconciled(l)] /\ Writes(Outcome(leg'), "none")
             /\ life' = (IF kind = "full" /\ Outcome(leg') = "succeeded" THEN "exited"
                         ELSE life)
    <3>1. \A l \in Legs : leg'[l] = "confirmed" =>
            /\ pos[l] \in {"planned", "below"} /\ (l \in cid => l \in order)
            /\ kind = "full" => pos[l] = "planned"
      <4>. SUFFICES ASSUME NEW l \in Legs, leg'[l] = "confirmed"
                    PROVE  /\ pos[l] \in {"planned", "below"} /\ (l \in cid => l \in order)
                           /\ kind = "full" => pos[l] = "planned"
        OBVIOUS
      <4>0. Reconciled(l) = "confirmed"
        BY <2>4
      <4>1. /\ rpos[l] = "planned"
            /\ leg[l] \in {"planned", "confirmed"} \/ l \in rfound
        BY <4>0, ReconciledFacts
      <4>. QED BY <4>1 DEF DoneInv, SendInv
    <3>2. Outcome(leg') = "succeeded" => \A l \in Legs : leg'[l] = "confirmed"
      BY OutcomeFacts
    <3>3. status' = "succeeded" => Outcome(leg') = "succeeded"
      BY <2>2, <2>4 DEF Writes
    <3>. QED BY <2>1, <2>2, <2>4, <3>1, <3>2, <3>3 DEF NoSnapshot, DoneInv
  <2>5. status' # "succeeded" \/ Writes(Outcome(leg'), "none")
    BY <1>22, <2>2 DEF WriteBatch, Writes, batVars
  <2>. QED BY <1>22, <2>2, <2>3, <2>4, <2>5 DEF WriteBatch, Writes, batVars
<1>23. CASE EntryFills
  BY <1>23 DEF EntryFills, batVars, legVars, bookVars, exVars, runVars,
    rVars, TypeOK, LockInv, Places, CallInv, SendInv, DoneInv, Opening,
    Closing, Actors, Executors, Sizes
<1>24. CASE Attribute
  BY <1>24 DEF Attribute, batVars, legVars, bookVars, exVars, runVars,
    rVars, TypeOK, LockInv, Places, CallInv, SendInv, DoneInv, Opening,
    Closing, Actors, Executors, Sizes
<1>25. CASE Disowned
  BY <1>25 DEF Disowned, Trouble, batVars, legVars, bookVars, exVars,
    runVars, rVars, TypeOK, LockInv, Places, CallInv, SendInv, DoneInv,
    Opening, Closing, Actors, Executors, Sizes
<1>30. CASE Reowned
  BY <1>30 DEF Reowned, batVars, legVars, bookVars, exVars,
    runVars, rVars, TypeOK, LockInv, Places, CallInv, SendInv, DoneInv,
    Opening, Closing, Actors, Executors, Sizes
<1>26. CASE Crash
  BY <1>26 DEF Crash, Trouble, NoSnapshot, batVars, legVars, bookVars,
    exVars, runVars, rVars, TypeOK, LockInv, Places, CallInv, SendInv,
    DoneInv, Opening, Closing, Actors, Executors, Sizes
<1>27. ASSUME NEW l \in Legs, Fill(l) PROVE DoneInv'
  BY <1>27 DEF Fill, batVars, legVars, bookVars, exVars, runVars, rVars,
    TypeOK, LockInv, Places, CallInv, SendInv, DoneInv, Opening, Closing,
    Actors, Executors, Sizes
<1>28. ASSUME NEW l \in Legs, Reduced(l) PROVE DoneInv'
  BY <1>28 DEF Reduced, Trouble, batVars, legVars, bookVars, exVars,
    runVars, rVars, TypeOK, LockInv, Places, CallInv, SendInv, DoneInv,
    Opening, Closing, Actors, Executors, Sizes
<1>29. CASE UNCHANGED vars
  BY <1>29 DEF vars, batVars, legVars, bookVars, exVars, runVars, rVars,
    TypeOK, LockInv, Places, CallInv, SendInv, DoneInv, Opening, Closing,
    Actors, Executors, Sizes
<1>. QED BY <1>1, <1>2, <1>3, <1>4, <1>5, <1>6, <1>7, <1>8, <1>9, <1>10,
      <1>11, <1>12, <1>13, <1>14, <1>15, <1>16, <1>17, <1>18, <1>19, <1>20,
      <1>21, <1>22, <1>23, <1>24, <1>25, <1>26, <1>27, <1>28, <1>29, <1>30
      DEF Next, Execute, Worker, Reconcile

-----------------------------------------------------------------------------
(* Blocked before submission.                                               *)

\* A batch is only ended under an execution that its check of the entry legs
\* stops: they are no longer owned, or the unfilled one is active.
SilentInv ==
  \A a \in Executors :
    /\ pc[a] \in Closing => entry # "active"
    /\ pc[a] \in {"entries"} \cup Closing /\ status \in Ended =>
         life # "owned" \/ entry = "active" \/ regained

\* An executor past its check has the entry legs; W blocks only what lost them
\* and did not get them back meanwhile, and "executing" legs carry no word of the
\* exchange but their executor's.
PreInv ==
  /\ \A a \in Executors :
       /\ pc[a] \in Closing => life = "owned"
       /\ pc[a] \in {"entries"} \cup Closing => status # "ready"
  /\ pc["W"] \notin {"idle", "claim"} => status # "ready"
  /\ status \in {"ready", "executing"} =>
       \A l \in Legs : leg[l] \notin {"confirmed", "inconsistent", "partial"}
  /\ pc["R"] = "write" => status # "ready" /\ (status = "executing" => seen = "executing")
  /\ pc["W"] = "recheck" => status # "executing" \/ life = "lost" \/ regained
  /\ pc["W"] = "block" /\ status = "executing" => (life = "lost" /\ order = {}) \/ regained
  /\ why = "presubmit" => status = "blocked" /\ (order = {} \/ regained)

LEMMA PreInit == Init => PreInv
BY DEF Init, PreInv, Executors, Actors, Closing

LEMMA PreStep ==
  ASSUME TypeOK, LockInv, Places, CallInv, SendInv, EntryInv, DoneInv, PreInv, SilentInv,
         [Next]_vars
  PROVE  PreInv'
<1>1. ASSUME NEW a \in Actors, Acquire(a) PROVE PreInv'
  BY <1>1 DEF Acquire, Goto, batVars, legVars, bookVars, exVars, runVars,
    rVars, TypeOK, LockInv, Places, CallInv, SendInv, PreInv, Opening,
    Closing, Actors, Executors
<1>2. ASSUME NEW a \in Executors, Open(a) PROVE PreInv'
  BY <1>2 DEF Open, Goto, Transition, Leave, batVars, legVars, bookVars,
    exVars, runVars, rVars, TypeOK, LockInv, Places, CallInv, SendInv,
    PreInv, Opening, Closing, Actors, Executors
<1>3. ASSUME NEW a \in Executors, Entries(a) PROVE PreInv'
  <2>1. /\ kind = "partial" /\ ~MayClose => life = "lost"
        /\ MayClose => life = "owned"
    BY <1>3 DEF MayClose, EntriesExact, EntryInv, DoneInv, TypeOK
  <2>. QED BY <1>3, <2>1 DEF Entries, Goto, Pause, Transition, Leave,
      batVars, legVars, bookVars, exVars, runVars, rVars, TypeOK, LockInv,
      Places, CallInv, SendInv, PreInv, Opening, Closing, Actors, Executors
<1>4. ASSUME NEW a \in Executors, Cancel(a) PROVE PreInv'
  BY <1>4 DEF Cancel, Goto, Pause, LostCancel, Transition, Leave, Trouble,
    batVars, legVars, bookVars, exVars, runVars, rVars, TypeOK, LockInv,
    Places, CallInv, SendInv, PreInv, Opening, Closing, Actors, Executors
<1>5. ASSUME NEW a \in Executors, RecordCancel(a) PROVE PreInv'
  BY <1>5 DEF RecordCancel, Goto, batVars, legVars, bookVars, exVars,
    runVars, rVars, TypeOK, LockInv, Places, CallInv, SendInv, PreInv,
    Opening, Closing, Actors, Executors
<1>6. ASSUME NEW a \in Executors, Boundary(a) PROVE PreInv'
  BY <1>6 DEF Boundary, Goto, Pause, Transition, Leave, Trouble, Swept,
    batVars, legVars, bookVars, exVars, runVars, rVars, TypeOK, LockInv,
    Places, CallInv, SendInv, PreInv, Opening, Closing, Actors, Executors
<1>7. ASSUME NEW a \in Executors, Send(a) PROVE PreInv'
  BY <1>7 DEF Send, Goto, Trouble, SilentInv, Ended, batVars, legVars, bookVars, exVars,
    runVars, rVars, TypeOK, LockInv, Places, CallInv, SendInv, PreInv,
    Opening, Closing, Actors, Executors
<1>8. ASSUME NEW a \in Executors, Record(a) PROVE PreInv'
  BY <1>8 DEF Record, Goto, Recorded, batVars, legVars, bookVars, exVars,
    runVars, rVars, TypeOK, LockInv, Places, CallInv, SendInv, PreInv,
    Opening, Closing, Actors, Executors
<1>9. ASSUME NEW a \in Executors, Finish(a) PROVE PreInv'
  BY <1>9 DEF Finish, Goto, Transition, Leave, batVars, legVars, bookVars,
    exVars, runVars, rVars, TypeOK, LockInv, Places, CallInv, SendInv,
    PreInv, Opening, Closing, Actors, Executors
<1>10. ASSUME NEW a \in Executors, NEW l \in Legs, Reserve(a, l) PROVE PreInv'
  BY <1>10 DEF Reserve, Goto, Reservation, batVars, legVars, bookVars,
    exVars, runVars, rVars, TypeOK, LockInv, Places, CallInv, SendInv,
    PreInv, Opening, Closing, Actors, Executors
<1>11. CASE ListWork
  BY <1>11 DEF ListWork, Goto, batVars, legVars, bookVars, exVars, runVars,
    rVars, TypeOK, LockInv, Places, CallInv, SendInv, PreInv, Opening,
    Closing, Actors, Executors
<1>12. CASE ClaimWork
  BY <1>12 DEF ClaimWork, Goto, Transition, batVars, legVars, bookVars,
    exVars, runVars, rVars, TypeOK, LockInv, Places, CallInv, SendInv,
    PreInv, Opening, Closing, Actors, Executors
<1>13. CASE CheckPositions
  BY <1>13 DEF CheckPositions, Goto, Trouble, batVars, legVars, bookVars,
    exVars, runVars, rVars, TypeOK, LockInv, Places, CallInv, SendInv,
    PreInv, Opening, Closing, Actors, Executors
<1>14. CASE Judge
  <2>1. kind = "partial" /\ ~EntriesExact => life = "lost"
    BY <1>14 DEF EntriesExact, EntryInv, DoneInv, TypeOK
  <2>. QED BY <1>14, <2>1 DEF Judge, Goto, Freeze, Transition, batVars,
      legVars, bookVars, exVars, runVars, rVars, TypeOK, LockInv, Places,
      CallInv, SendInv, PreInv, Opening, Closing, Actors, Executors
<1>15. CASE Recheck
  BY <1>15 DEF Recheck, Goto, batVars, legVars, bookVars, exVars, runVars,
    rVars, TypeOK, LockInv, Places, CallInv, SendInv, PreInv, Opening,
    Closing, Actors, Executors, NoLegSubmitted, LegStates
<1>16. CASE Block
  BY <1>16 DEF Block, Goto, Transition, batVars, legVars, bookVars, exVars,
    runVars, rVars, TypeOK, LockInv, Places, CallInv, SendInv, PreInv,
    Opening, Closing, Actors, Executors
<1>17. CASE ResolveRace
  BY <1>17 DEF ResolveRace, Transition, batVars, legVars, bookVars, exVars,
    runVars, rVars, TypeOK, LockInv, Places, CallInv, SendInv, PreInv,
    Opening, Closing, Actors, Executors
<1>18. CASE Expire
  BY <1>18 DEF Expire, Transition, batVars, legVars, bookVars, exVars,
    runVars, rVars, TypeOK, LockInv, Places, CallInv, SendInv, PreInv,
    Opening, Closing, Actors, Executors
<1>19. CASE SnapshotPositions
  BY <1>19 DEF SnapshotPositions, Goto, batVars, legVars, bookVars, exVars,
    runVars, rVars, TypeOK, LockInv, Places, CallInv, SendInv, PreInv,
    Opening, Closing, Actors, Executors
<1>20. CASE SnapshotOrders
  BY <1>20 DEF SnapshotOrders, Goto, Trouble, batVars, legVars, bookVars,
    exVars, runVars, rVars, TypeOK, LockInv, Places, CallInv, SendInv,
    PreInv, Opening, Closing, Actors, Executors
<1>21. CASE ReadBatch
  BY <1>21 DEF ReadBatch, Goto, NoSnapshot, batVars, legVars, bookVars,
    exVars, runVars, rVars, TypeOK, LockInv, Places, CallInv, SendInv,
    PreInv, Opening, Closing, Actors, Executors
<1>22. CASE WriteBatch
  <2>1. /\ pc["R"] = "write" /\ pc' = [pc EXCEPT !["R"] = "idle"] /\ NoSnapshot
        /\ UNCHANGED <<cid, entry, order, regained>>
    BY <1>22 DEF WriteBatch, Goto, exVars
  <2>2. \A a \in Executors : pc[a] \notin Closing /\ pc'[a] = pc[a]
    BY <2>1 DEF LockInv, TypeOK, Actors, Executors, Closing
  <2>3. status # "ready" /\ (status = "executing" => seen = "executing")
    BY <2>1 DEF PreInv
  <2>4. status' # "ready" /\ (status' = "executing" => status = "executing" /\ leg' = leg)
    BY <1>22, <2>3, OutcomeType DEF WriteBatch, Writes, batVars
  <2>5. why' = "none" \/ (why' = why /\ status' = status)
    BY <1>22 DEF WriteBatch, Writes, batVars
  <2>6. life' = life \/ (life = "owned" /\ order' = order)
    BY <1>22, <2>1 DEF WriteBatch, IdentityExact
  <2>7. pc'["R"] = "idle" /\ pc'["W"] = pc["W"]
    BY <2>1 DEF TypeOK, Actors
  <2>. QED BY <2>1, <2>2, <2>4, <2>5, <2>6, <2>7 DEF PreInv
<1>23. CASE EntryFills
  BY <1>23 DEF EntryFills, batVars, legVars, bookVars, exVars, runVars,
    rVars, TypeOK, LockInv, Places, CallInv, SendInv, PreInv, Opening,
    Closing, Actors, Executors
<1>24. CASE Attribute
  BY <1>24 DEF Attribute, batVars, legVars, bookVars, exVars, runVars,
    rVars, TypeOK, LockInv, Places, CallInv, SendInv, PreInv, Opening,
    Closing, Actors, Executors
<1>25. CASE Disowned
  BY <1>25 DEF Disowned, Trouble, batVars, legVars, bookVars, exVars,
    runVars, rVars, TypeOK, LockInv, Places, CallInv, SendInv, PreInv,
    Opening, Closing, Actors, Executors
<1>30. CASE Reowned
  BY <1>30 DEF Reowned, batVars, legVars, bookVars, exVars,
    runVars, rVars, TypeOK, LockInv, Places, CallInv, SendInv, PreInv,
    Opening, Closing, Actors, Executors
<1>26. CASE Crash
  BY <1>26 DEF Crash, Trouble, NoSnapshot, batVars, legVars, bookVars,
    exVars, runVars, rVars, TypeOK, LockInv, Places, CallInv, SendInv,
    PreInv, Opening, Closing, Actors, Executors
<1>27. ASSUME NEW l \in Legs, Fill(l) PROVE PreInv'
  BY <1>27 DEF Fill, batVars, legVars, bookVars, exVars, runVars, rVars,
    TypeOK, LockInv, Places, CallInv, SendInv, PreInv, Opening, Closing,
    Actors, Executors
<1>28. ASSUME NEW l \in Legs, Reduced(l) PROVE PreInv'
  BY <1>28 DEF Reduced, Trouble, batVars, legVars, bookVars, exVars,
    runVars, rVars, TypeOK, LockInv, Places, CallInv, SendInv, PreInv,
    Opening, Closing, Actors, Executors
<1>29. CASE UNCHANGED vars
  BY <1>29 DEF vars, batVars, legVars, bookVars, exVars, runVars, rVars,
    TypeOK, LockInv, Places, CallInv, SendInv, PreInv, Opening, Closing,
    Actors, Executors
<1>. QED BY <1>1, <1>2, <1>3, <1>4, <1>5, <1>6, <1>7, <1>8, <1>9, <1>10,
      <1>11, <1>12, <1>13, <1>14, <1>15, <1>16, <1>17, <1>18, <1>19, <1>20,
      <1>21, <1>22, <1>23, <1>24, <1>25, <1>26, <1>27, <1>28, <1>29, <1>30
      DEF Next, Execute, Worker, Reconcile

-----------------------------------------------------------------------------
(* Ended.                                                                   *)

LEMMA SilentInit == Init => SilentInv
BY DEF Init, SilentInv, Executors, Actors, Closing

LEMMA SilentStep ==
  ASSUME TypeOK, LockInv, Places, CallInv, PreInv, SilentInv, [Next]_vars
  PROVE  SilentInv'
<1>1. ASSUME NEW a \in Actors, Acquire(a) PROVE SilentInv'
  BY <1>1 DEF Acquire, Goto, batVars, legVars, bookVars, exVars, runVars, rVars,
    TypeOK, LockInv, Places, SilentInv, Opening, Closing, Actors, Executors
<1>2. ASSUME NEW a \in Executors, Open(a) PROVE SilentInv'
  BY <1>2 DEF Open, Goto, Transition, Leave, Ended, PreInv, batVars, legVars,
    bookVars, exVars, runVars, rVars, TypeOK, LockInv, Places, SilentInv,
    Opening, Closing, Actors, Executors
<1>3. ASSUME NEW a \in Executors, Entries(a) PROVE SilentInv'
  BY <1>3 DEF Entries, Goto, Pause, Transition, Leave, MayClose, EntriesExact,
    PreInv, Ended, batVars, legVars, bookVars, exVars, runVars, rVars, TypeOK,
    LockInv, Places, SilentInv, Opening, Closing, Actors, Executors
<1>4. ASSUME NEW a \in Executors, Cancel(a) PROVE SilentInv'
  BY <1>4 DEF Cancel, Goto, Pause, LostCancel, Transition, Leave, Trouble,
    PreInv, Ended, batVars, legVars, bookVars, exVars, runVars, rVars, TypeOK,
    LockInv, Places, SilentInv, Opening, Closing, Actors, Executors
<1>5. ASSUME NEW a \in Executors, RecordCancel(a) PROVE SilentInv'
  BY <1>5 DEF RecordCancel, Goto, PreInv, batVars, legVars, bookVars, exVars,
    runVars, rVars, TypeOK, LockInv, Places, SilentInv, Opening, Closing,
    Actors, Executors
<1>6. ASSUME NEW a \in Executors, Boundary(a) PROVE SilentInv'
  BY <1>6 DEF Boundary, Goto, Pause, Transition, Leave, Trouble, PreInv, Ended,
    batVars, legVars, bookVars, exVars, runVars, rVars, TypeOK, LockInv, Places,
    SilentInv, Opening, Closing, Actors, Executors
<1>7. ASSUME NEW a \in Executors, Send(a) PROVE SilentInv'
  BY <1>7 DEF Send, Goto, Trouble, batVars, legVars, bookVars, exVars, runVars,
    rVars, TypeOK, LockInv, Places, SilentInv, Opening, Closing, Actors,
    Executors
<1>8. ASSUME NEW a \in Executors, Record(a) PROVE SilentInv'
  BY <1>8 DEF Record, Goto, batVars, legVars, bookVars, exVars, runVars, rVars,
    TypeOK, LockInv, Places, SilentInv, Opening, Closing, Actors, Executors
<1>9. ASSUME NEW a \in Executors, Finish(a) PROVE SilentInv'
  BY <1>9 DEF Finish, Goto, Transition, Leave, Ended, batVars, legVars,
    bookVars, exVars, runVars, rVars, TypeOK, LockInv, Places, SilentInv,
    Opening, Closing, Actors, Executors
<1>10. ASSUME NEW a \in Executors, NEW l \in Legs, Reserve(a, l) PROVE SilentInv'
  BY <1>10 DEF Reserve, Goto, batVars, legVars, bookVars, exVars, runVars,
    rVars, TypeOK, LockInv, Places, SilentInv, Opening, Closing, Actors,
    Executors
<1>11. CASE ListWork
  BY <1>11 DEF ListWork, Goto, batVars, legVars, bookVars, exVars, runVars,
    rVars, TypeOK, LockInv, Places, SilentInv, Opening, Closing, Actors,
    Executors
<1>12. CASE ClaimWork
  BY <1>12 DEF ClaimWork, Goto, Transition, Ended, batVars, legVars, bookVars,
    exVars, runVars, rVars, TypeOK, LockInv, Places, SilentInv, Opening,
    Closing, Actors, Executors
<1>13. CASE CheckPositions
  BY <1>13 DEF CheckPositions, Goto, Trouble, batVars, legVars, bookVars,
    exVars, runVars, rVars, TypeOK, LockInv, Places, SilentInv, Opening,
    Closing, Actors, Executors
<1>14. CASE Judge
  BY <1>14 DEF Judge, Goto, Freeze, Transition, Ended, batVars, legVars,
    bookVars, exVars, runVars, rVars, TypeOK, LockInv, Places, SilentInv,
    Opening, Closing, Actors, Executors
<1>15. CASE Recheck
  BY <1>15 DEF Recheck, Goto, batVars, legVars, bookVars, exVars, runVars,
    rVars, TypeOK, LockInv, Places, SilentInv, Opening, Closing, Actors,
    Executors
<1>16. CASE Block
  BY <1>16 DEF Block, Goto, Transition, Ended, PreInv, batVars, legVars,
    bookVars, exVars, runVars, rVars, TypeOK, LockInv, Places, SilentInv,
    Opening, Closing, Actors, Executors
<1>17. CASE ResolveRace
  BY <1>17 DEF ResolveRace, Transition, batVars, legVars, bookVars, exVars,
    runVars, rVars, TypeOK, LockInv, Places, SilentInv, Opening, Closing,
    Actors, Executors
<1>18. CASE Expire
  BY <1>18 DEF Expire, Transition, batVars, legVars, bookVars, exVars, runVars,
    rVars, TypeOK, LockInv, Places, SilentInv, Opening, Closing, Actors,
    Executors
<1>19. CASE SnapshotPositions
  BY <1>19 DEF SnapshotPositions, Goto, batVars, legVars, bookVars, exVars,
    runVars, rVars, TypeOK, LockInv, Places, SilentInv, Opening, Closing,
    Actors, Executors
<1>20. CASE SnapshotOrders
  BY <1>20 DEF SnapshotOrders, Goto, Trouble, batVars, legVars, bookVars,
    exVars, runVars, rVars, TypeOK, LockInv, Places, SilentInv, Opening,
    Closing, Actors, Executors
<1>21. CASE ReadBatch
  BY <1>21 DEF ReadBatch, Goto, NoSnapshot, batVars, legVars, bookVars, exVars,
    runVars, rVars, TypeOK, LockInv, Places, SilentInv, Opening, Closing,
    Actors, Executors
<1>22. CASE WriteBatch
  <2>1. /\ pc["R"] = "write" /\ pc' = [pc EXCEPT !["R"] = "idle"]
        /\ UNCHANGED entry
    BY <1>22 DEF WriteBatch, Goto
  <2>2. \A a \in Executors : pc[a] \notin {"entries"} \cup Closing /\ pc'[a] = pc[a]
    BY <2>1 DEF LockInv, TypeOK, Actors, Executors, Opening, Closing
  <2>. QED BY <2>2 DEF SilentInv
<1>23. CASE EntryFills
  BY <1>23 DEF EntryFills, batVars, legVars, bookVars, exVars, runVars, rVars,
    TypeOK, LockInv, Places, SilentInv, Opening, Closing, Actors, Executors
<1>24. CASE Attribute
  BY <1>24 DEF Attribute, batVars, legVars, bookVars, exVars, runVars, rVars,
    TypeOK, LockInv, Places, SilentInv, Opening, Closing, Actors, Executors
<1>25. CASE Disowned
  BY <1>25 DEF Disowned, Trouble, batVars, legVars, bookVars, exVars, runVars,
    rVars, TypeOK, LockInv, Places, SilentInv, Opening, Closing, Actors,
    Executors
<1>30. CASE Reowned
  BY <1>30 DEF Reowned, batVars, legVars, bookVars, exVars, runVars,
    rVars, TypeOK, LockInv, Places, SilentInv, Opening, Closing, Actors,
    Executors
<1>26. CASE Crash
  BY <1>26 DEF Crash, Trouble, NoSnapshot, batVars, legVars, bookVars, exVars,
    runVars, rVars, TypeOK, LockInv, Places, SilentInv, Opening, Closing,
    Actors, Executors
<1>27. ASSUME NEW l \in Legs, Fill(l) PROVE SilentInv'
  BY <1>27 DEF Fill, batVars, legVars, bookVars, exVars, runVars, rVars, TypeOK,
    LockInv, Places, SilentInv, Opening, Closing, Actors, Executors
<1>28. ASSUME NEW l \in Legs, Reduced(l) PROVE SilentInv'
  BY <1>28 DEF Reduced, Trouble, batVars, legVars, bookVars, exVars, runVars,
    rVars, TypeOK, LockInv, Places, SilentInv, Opening, Closing, Actors,
    Executors
<1>29. CASE UNCHANGED vars
  BY <1>29 DEF vars, batVars, legVars, bookVars, exVars, runVars, rVars,
    SilentInv
<1>. QED BY <1>1, <1>2, <1>3, <1>4, <1>5, <1>6, <1>7, <1>8, <1>9, <1>10,
      <1>11, <1>12, <1>13, <1>14, <1>15, <1>16, <1>17, <1>18, <1>19, <1>20,
      <1>21, <1>22, <1>23, <1>24, <1>25, <1>26, <1>27, <1>28, <1>29, <1>30
      DEF Next, Execute, Worker, Reconcile

-----------------------------------------------------------------------------
(* The theorems.                                                            *)

\* The inductive invariant.
IInv ==
  TypeOK /\ Places /\ LockInv /\ CallInv /\ SendInv /\ EntryInv /\ DoneInv /\ PreInv
  /\ SilentInv

LEMMA Inductive == Spec => []IInv
<1>1. Init => IInv
  BY TypeInit, SendInit, EntryInit, DoneInit, PreInit, SilentInit DEF IInv
<1>2. IInv /\ [Next]_vars => IInv'
  <2>. SUFFICES ASSUME IInv, [Next]_vars PROVE IInv'
    OBVIOUS
  <2>1. TypeOK' /\ Places' /\ LockInv' /\ CallInv'
    BY TypeStep DEF IInv
  <2>2. SendInv' /\ EntryInv'
    BY SendStep, EntryStep DEF IInv
  <2>3. DoneInv' /\ PreInv' /\ SilentInv'
    BY DoneStep, PreStep, SilentStep DEF IInv
  <2>. QED BY <2>1, <2>2, <2>3 DEF IInv
<1>. QED BY <1>1, <1>2, PTL DEF Spec

\* Every variable keeps to the values the code gives it.
THEOREM BatchTypes == Spec => []TypeOK
<1>1. IInv => TypeOK
  BY DEF IInv
<1>. QED BY <1>1, Inductive, PTL

\* execute_management_batch, the worker's restarts and the reconcilers between
\* them call for the close of a leg at most once.
THEOREM ClosesOnce == Spec => []SentOnce
<1>1. IInv => SentOnce
  BY DEF IInv, SendInv, SentOnce
<1>. QED BY <1>1, Inductive, PTL

\* No lost answer makes an order look untouched or rejected.
THEOREM OrdersFollowed == Spec => []OrderIsFollowed
<1>1. IInv => OrderIsFollowed
  BY DEF IInv, SendInv, TypeOK, OrderIsFollowed
<1>. QED BY <1>1, Inductive, PTL

\* _cancel_deferred_entry_legs comes before the first close, whoever executes.
THEOREM EntryCancelledFirst == Spec => []EntryGoneFirst
<1>1. IInv => EntryGoneFirst
  BY DEF IInv, EntryInv, EntryGoneFirst
<1>. QED BY <1>1, Inductive, PTL

\* _persist_deterministic_pre_submit_failure, which looks at the legs and the batch
\* without the lock, speaks the truth and goes on doing so, unless ownership came
\* back between the worker's checks and its write.
THEOREM BlockedIsUntouched == Spec => []BlockedSentNothing
<1>1. IInv => BlockedSentNothing
  BY DEF IInv, PreInv, BlockedSentNothing
<1>. QED BY <1>1, Inductive, PTL

\* Only an execution past its check of the entry legs reserves or calls.
LEMMA SilenceStep ==
  IInv /\ [Next]_vars => (status \in Ended /\ ~regained => UNCHANGED <<cid, sends>>)
<1> SUFFICES ASSUME IInv, [Next]_vars, status \in Ended, ~regained
             PROVE  UNCHANGED <<cid, sends>>
  OBVIOUS
<1>1. \A a \in Executors : pc[a] \notin Closing
  BY DEF IInv, SilentInv, PreInv
<1>2. ASSUME NEW a \in Actors, Acquire(a) PROVE UNCHANGED <<cid, sends>>
  BY <1>2 DEF Acquire, legVars, exVars
<1>3. ASSUME NEW a \in Executors, Execute(a) PROVE UNCHANGED <<cid, sends>>
  BY <1>1, <1>3 DEF Execute, Open, Entries, Cancel, RecordCancel, Boundary, Send,
    Record, Finish, Reserve, Closing, legVars, exVars
<1>4. CASE Worker
  BY <1>4 DEF Worker, ListWork, ClaimWork, CheckPositions, Judge, Recheck, Block,
    ResolveRace, Expire, legVars, exVars
<1>5. CASE Reconcile
  BY <1>5 DEF Reconcile, SnapshotPositions, SnapshotOrders, ReadBatch, WriteBatch,
    legVars, exVars
<1>6. CASE EntryFills \/ Attribute \/ Disowned \/ Reowned \/ Crash
  BY <1>6 DEF EntryFills, Attribute, Disowned, Reowned, Crash, legVars, exVars
<1>7. ASSUME NEW l \in Legs, Fill(l) \/ Reduced(l) PROVE UNCHANGED <<cid, sends>>
  BY <1>7 DEF Fill, Reduced, legVars
<1>8. CASE UNCHANGED vars
  BY <1>8 DEF vars, legVars, exVars
<1>9. QED
  BY <1>2, <1>3, <1>4, <1>5, <1>6, <1>7, <1>8 DEF Next

\* Nobody reserves or calls for a close of a batch that has ended, an execution
\* that was under way or waited for the lock included, unless ownership came back
\* while the worker was about to block the batch for its loss.
THEOREM EndedBatchIsSilent == Spec => EndedIsSilent
BY Inductive, SilenceStep, PTL DEF Spec, EndedIsSilent

\* What the reconcilers call succeeded, from snapshots older than the lock, is.
THEOREM SuccessIsTrue == Spec => []SucceededIsTrue
<1>1. IInv => SucceededIsTrue
  BY DEF IInv, DoneInv, SucceededIsTrue
<1>. QED BY <1>1, Inductive, PTL
-----------------------------------------------------------------------------
(* The batch implements FiledCall.                                          *)

\* A reservation is written together with the id of its order.
ReservedHasId == \A l \in Legs : leg[l] = "reserved" => l \in cid

\* What a step that neither reserves nor sends may do to the books.
BooksKept ==
  /\ UNCHANGED <<cid, order, sends>>
  /\ \A l \in Legs : leg'[l] = "reserved" => leg[l] = "reserved"
  /\ \A l \in Legs : leg[l] = "failed" => leg'[l] = "failed"
  /\ status = "succeeded" => status' = "succeeded"

LEMMA BooksStep ==
  ASSUME IInv, [Next]_vars
  PROVE  \/ \E a \in Executors, l \in Legs : Reserve(a, l)
         \/ \E a \in Executors : Send(a)
         \/ BooksKept
<1>1. CASE \E a \in Actors : Acquire(a)
  BY <1>1 DEF Acquire, batVars, legVars, exVars, BooksKept
<1>2. CASE \E a \in Executors :
             Open(a) \/ Entries(a) \/ Cancel(a) \/ RecordCancel(a) \/ Finish(a)
  BY <1>2, ZenonT(60) DEF Open, Entries, Cancel, RecordCancel, Finish, Pause, LostCancel, Transition,
              batVars, legVars, exVars, BooksKept
<1>3. ASSUME NEW a \in Executors, Boundary(a) PROVE BooksKept
  BY <1>3 DEF Boundary, Swept, Pause, Transition, batVars, exVars, BooksKept, IInv, TypeOK
<1>4. ASSUME NEW a \in Executors, Record(a) PROVE BooksKept
  BY <1>4 DEF Record, Recorded, batVars, exVars, BooksKept, IInv, TypeOK, SendInv, CallInv
<1>5. CASE ListWork \/ ClaimWork \/ CheckPositions \/ Judge \/ Recheck \/ Block
  BY <1>5 DEF ListWork, ClaimWork, CheckPositions, Judge, Recheck, Block, Freeze, Transition,
              batVars, legVars, exVars, BooksKept
<1>6. CASE ResolveRace \/ Expire
  BY <1>6 DEF ResolveRace, Expire, Transition, legVars, exVars, BooksKept
<1>7. CASE SnapshotPositions \/ SnapshotOrders \/ ReadBatch
  BY <1>7 DEF SnapshotPositions, SnapshotOrders, ReadBatch, batVars, legVars, exVars, BooksKept
<1>8. CASE WriteBatch
  <2>1. UNCHANGED <<cid, order, sends>> /\ status # "succeeded"
    BY <1>8 DEF WriteBatch, exVars, IInv, DoneInv
  <2>2. \A l \in Legs : leg[l] = "failed" => Reconciled(l) = "failed"
    BY DEF Reconciled
  <2>3. \A l \in Legs : Reconciled(l) # "reserved"
    BY ReconciledFacts DEF IInv
  <2>4. leg' = leg \/ leg' = [l \in Legs |-> Reconciled(l)]
    BY <1>8 DEF WriteBatch
  <2>. QED BY <2>1, <2>2, <2>3, <2>4 DEF BooksKept
<1>9. CASE \/ \E l \in Legs : Fill(l) \/ Reduced(l)
           \/ EntryFills \/ Attribute \/ Disowned \/ Reowned \/ Crash
  BY <1>9 DEF Fill, Reduced, EntryFills, Attribute, Disowned, Reowned, Crash, batVars, legVars,
              exVars, BooksKept
<1>10. CASE UNCHANGED vars
  BY <1>10 DEF vars, batVars, legVars, exVars, BooksKept
<1>. QED
  BY <1>1, <1>2, <1>3, <1>4, <1>5, <1>6, <1>7, <1>8, <1>9, <1>10
  DEF Next, Execute, Worker, Reconcile

LEMMA ReservedStep == IInv /\ ReservedHasId /\ [Next]_vars => ReservedHasId'
<1>. SUFFICES ASSUME IInv, ReservedHasId, [Next]_vars PROVE ReservedHasId'
  OBVIOUS
<1>1. ASSUME NEW a \in Executors, NEW l \in Legs, Reserve(a, l) PROVE ReservedHasId'
  BY <1>1 DEF Reserve, Reservation, ReservedHasId, IInv, TypeOK
<1>2. ASSUME NEW a \in Executors, Send(a) PROVE ReservedHasId'
  BY <1>2 DEF Send, legVars, ReservedHasId
<1>3. CASE BooksKept
  BY <1>3 DEF BooksKept, ReservedHasId
<1>. QED BY <1>1, <1>2, <1>3, BooksStep

LEMMA CallsStep == IInv /\ IInv' /\ ReservedHasId /\ [Next]_vars => [Calls!Next]_(Calls!vars)
<1>. SUFFICES ASSUME IInv, IInv', ReservedHasId, [Next]_vars PROVE [Calls!Next]_(Calls!vars)
  OBVIOUS
<1>0. TypeOK /\ SendInv /\ SendInv' /\ DoneInv /\ DoneInv' /\ TypeOK'
  BY DEF IInv
<1>1. ASSUME NEW a \in Executors, NEW l \in Legs, Reserve(a, l) PROVE Calls!Next
  <2>1. /\ leg[l] = "planned" /\ l \notin cid /\ status # "succeeded"
        /\ leg' = [leg EXCEPT ![l] = "reserved"] /\ cid' = cid \cup {l}
        /\ UNCHANGED <<status, order, sends>>
    BY <1>0, <1>1 DEF Reserve, Reservation, batVars, exVars, SendInv, DoneInv
  <2>2. {k \in cid' : leg'[k] # "failed"} = {k \in cid : leg[k] # "failed"} \cup {l}
    BY <1>0, <2>1 DEF TypeOK
  <2>3. {k \in Legs : leg'[k] = "failed"} = {k \in Legs : leg[k] = "failed"}
    BY <1>0, <2>1 DEF TypeOK
  <2>4. Calls!File(l)
    BY <2>1, <2>2, <2>3 DEF Calls!File
  <2>. QED BY <2>4 DEF Calls!Next
<1>2. ASSUME NEW a \in Executors, Send(a) PROVE [Calls!Next]_(Calls!vars)
  <2>1. PICK l \in Legs : l = cur
    BY <1>2 DEF Send, IInv, CallInv
  <2>2. leg[l] = "reserved" /\ sends[l] = 0 /\ l \in cid /\ UNCHANGED <<status, leg, cid>>
    BY <1>0, <1>2, <2>1 DEF Send, batVars, legVars, SendInv, ReservedHasId
  <2>3. CASE UNCHANGED <<order, sends>>
    BY <2>2, <2>3 DEF Calls!vars
  <2>4. CASE order' \in {order, order \cup {l}} /\ sends' = [sends EXCEPT ![l] = @ + 1]
    <3>1. sends' = [sends EXCEPT ![l] = 1]
      BY <2>2, <2>4
    <3>2. Calls!Call(l)
      BY <2>2, <2>4, <3>1 DEF Calls!Call
    <3>. QED BY <3>2 DEF Calls!Next
  <2>. QED BY <1>2, <2>1, <2>3, <2>4 DEF Send
<1>3. CASE BooksKept
  <2>1. /\ UNCHANGED <<cid, order, sends>>
        /\ \A l \in Legs : leg[l] = "failed" => leg'[l] = "failed"
        /\ \A l \in Legs : leg'[l] = "failed" => l \notin order
        /\ status = "succeeded" => status' = "succeeded"
    BY <1>0, <1>3 DEF BooksKept, SendInv
  <2>2. status' = "succeeded" => cid \subseteq order
    BY <1>0, <2>1 DEF DoneInv, TypeOK
  <2>3. Calls!Tell
    BY <1>0, <2>1, <2>2 DEF Calls!Tell, TypeOK
  <2>. QED BY <2>3 DEF Calls!Next
<1>. QED BY <1>1, <1>2, <1>3, BooksStep

\* No close of the batch is called for before its reservation is in the database
\* or twice; "failed" means that there is no order, "succeeded" that every
\* reserved leg has its own, and neither is ever taken back.
THEOREM BatchKeepsPromise == Spec => CallsFiled
<1>1. Init => Calls!Init /\ ReservedHasId
  BY DEF Init, Calls!Init, ReservedHasId
<1>2. Spec => []ReservedHasId
  BY <1>1, Inductive, ReservedStep, PTL DEF Spec
<1>. QED BY <1>1, <1>2, CallsStep, Inductive, PTL DEF Spec, CallsFiled, Calls!Spec

\* The same calls, with what is proved of FiledCall.
Books == INSTANCE FiledCallProofs WITH
  Ids <- Legs, filed <- {l \in cid : leg[l] # "failed"}, calls <- sends, effects <- order,
  done <- (IF status = "succeeded" THEN cid ELSE {}),
  denied <- {l \in Legs : leg[l] = "failed"}

\* What the batch's promise comes to: a close was called for at most once and
\* only under its leg's id; a failed leg has no order.
THEOREM BatchBooks == Spec => []Calls!BooksTrue
<1>1. Books!Init <=> Calls!Init
  BY DEF Books!Init, Calls!Init
<1>2. [Books!Next]_(Books!vars) <=> [Calls!Next]_(Calls!vars)
  BY DEF Books!Next, Books!File, Books!Call, Books!TakeEffect, Books!Tell, Books!vars,
         Calls!Next, Calls!File, Calls!Call, Calls!TakeEffect, Calls!Tell, Calls!vars
<1>3. Books!BooksTrue <=> Calls!BooksTrue
  BY DEF Books!BooksTrue, Calls!BooksTrue
<1>. QED
  BY <1>1, <1>2, <1>3, BatchKeepsPromise, Books!BooksAreTrue, PTL DEF CallsFiled, Calls!Spec, Books!Spec
=============================================================================
