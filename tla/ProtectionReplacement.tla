------------------------ MODULE ProtectionReplacement ------------------------
(* The replacement of a position's protection orders, group by group, through *)
(* the position mutation gateway.  Stops: the new one is placed and read back *)
(* before the old ones are cancelled.  Take profits: the old ones are         *)
(* cancelled and proven gone before the new one is placed.                    *)
(*                                                                            *)
(* Sources: protection_replacement.py and its callers: the adjustments        *)
(* (deepcoin_execution_actions.py, take_profit_adjustment_executor.py), which *)
(* hold the authority lock and are claimed once, and the break-even executor  *)
(* (break_even_convergence_executor.py), which holds no lock and goes on with *)
(* the decision it persisted after its process died.                          *)
EXTENDS PositionGateway

CONSTANTS
  BreakEven,   \* the runs that are break-even convergences
  Plan,        \* the groups a run replaces
  Entry        \* the entry price: the trigger of a break-even stop

ASSUME RunsAssumption ==
  /\ BreakEven \subseteq Runs
  /\ Plan \in [Runs -> SUBSET Groups]
  /\ \A r \in BreakEven : Plan[r] = {"stop"}
  /\ Entry \in Prices

VARIABLES
  old,      \* the orders a run replaces, fixed when it starts
  work,     \* the groups it has left
  seen,     \* the orders its last checks named: what it may cancel
  todo,     \* the orders of the group it has left to cancel
  result    \* how it ended

runVars == <<old, work, seen, todo, result>>
vars == <<venueVars, intentVars, ledger, ask, pc, at, got, readerVars, lock,
          budgets, runVars>>
\* What a run's own step leaves alone: it writes nothing to the exchange.
still == <<venueVars, basis, order, readerVars, fills, crashes>>
\* What the next step of a run leaves alone when the run goes on.
goesOn == <<result, lock>>

Adjusting == Runs \ BreakEven
Results == {"none", "declined", "succeeded", "rejected", "unknown", "incomplete"}

Of(g, orders) == {o \in orders : grp[o] = g}
\* The stop group first: "the downside is settled before anything touches the
\* upside".
First(groups) == IF "stop" \in groups THEN "stop" ELSE "tp"
Group(r) == First(work[r])
SetKey(r) == <<"set", r, Group(r)>>
OldOf(r) == Of(Group(r), old[r])
Unrecorded == {o \in live : ledger[o] # "verified"}

Init ==
  /\ open = TRUE /\ version = 1 /\ placed = 2
  /\ grp = [o \in Orders |-> IF o = 1 THEN "stop" ELSE IF o = 2 THEN "tp" ELSE "none"]
  /\ \E p \in Prices :
       p < Entry /\ px = [o \in Orders |-> IF o \in {1, 2} THEN p ELSE 0]
  /\ live = {1, 2}
  /\ made = [k \in SetKeys |-> 0]
  /\ filled = {} /\ late = {}
  /\ sends = [k \in Keys |-> 0]
  /\ status = [k \in Keys |-> "absent"]
  /\ basis = [k \in Keys |-> 0]
  /\ order = [k \in SetKeys |-> 0]
  /\ ledger = [o \in Orders |-> IF o \in {1, 2} THEN "verified" ELSE "absent"]
  /\ ask = [k \in SetKeys |-> 0]
  /\ pc = [c \in Callers |-> "idle"]
  /\ at = [c \in Callers |-> <<"none">>]
  /\ got = [c \in Callers |-> "none"]
  /\ snap = {} /\ reading = FALSE /\ lock = {}
  /\ fills = 0 /\ crashes = 0 /\ faults = 0
  /\ old = [r \in Runs |-> {}] /\ work = [r \in Runs |-> {}]
  /\ seen = [r \in Runs |-> {}] /\ todo = [r \in Runs |-> {}]
  /\ result = [r \in Runs |-> "none"]

-----------------------------------------------------------------------------
(* How a run starts and ends.                                               *)

\* What a run keeps in memory goes with it.
Ends(r, how) ==
  /\ pc' = [pc EXCEPT ![r] = "ended"]
  /\ at' = [at EXCEPT ![r] = <<"none">>]
  /\ got' = [got EXCEPT ![r] = "none"]
  /\ work' = [work EXCEPT ![r] = {}]
  /\ seen' = [seen EXCEPT ![r] = {}]
  /\ todo' = [todo EXCEPT ![r] = {}]
  /\ result' = [result EXCEPT ![r] = how]
  /\ lock' = lock \ {r}

\* The first step of a group: a stop is placed first, a take profit is cancelled
\* first.
FirstStep(g) == IF g = "stop" THEN "call" ELSE "scan"

NeededGroups(r) == {g \in Plan[r] : Of(g, live) # {}}

\* adjust_position_tpsl and _execute_live: the pending orders resolve to the
\* position's own, an order a TU frame attributes is adopted into the ledger,
\* one nothing attributes stops the run.
Adjust(r) ==
  /\ pc[r] = "idle" /\ r \in Adjusting
  /\ lock = {}
  /\ \/ /\ open /\ NeededGroups(r) # {}
        /\ lock' = {r}
        /\ old' = [old EXCEPT ![r] = live]
        /\ seen' = [seen EXCEPT ![r] = live]
        /\ work' = [work EXCEPT ![r] = NeededGroups(r)]
        /\ ledger' = [o \in Orders |-> IF o \in live THEN "verified" ELSE ledger[o]]
        /\ \E p \in Prices :
             ask' = [k \in SetKeys |-> IF k[2] = r THEN p ELSE ask[k]]
        /\ Goes(r, FirstStep(First(NeededGroups(r))))
        /\ UNCHANGED <<at, todo, result>>
     \/ /\ ~open \/ NeededGroups(r) = {} \/ Unrecorded # {}
        /\ Ends(r, "declined")
        /\ UNCHANGED <<ledger, ask, old>>
  /\ UNCHANGED <<still, status, faults>>

\* _reserve_market_decisions: every stop of the ledger must be pending; one at
\* the entry price or better ends the run.
Decide(r) ==
  /\ pc[r] = "idle" /\ r \in BreakEven
  /\ LET stops == {o \in Of("stop", Orders) : ledger[o] = "verified"} IN
     \/ /\ open /\ stops \subseteq live
        /\ \A o \in stops : px[o] < Entry
        /\ old' = [old EXCEPT ![r] = stops]
        /\ work' = [work EXCEPT ![r] = {"stop"}]
        /\ ask' = [ask EXCEPT ![<<"set", r, "stop">>] = Entry]
        /\ Goes(r, "resolve")
        /\ UNCHANGED <<goesOn, at, seen, todo>>
     \/ /\ \/ ~open \/ ~(stops \subseteq live)
           \/ \E o \in stops : px[o] >= Entry
        /\ Ends(r, "declined")
        /\ UNCHANGED <<ask, old>>
  /\ UNCHANGED <<still, status, ledger, faults>>

\* The orders the checks before each cancel may name; none when an order of the
\* position is attributed to nobody.
Resolve(r) ==
  /\ pc[r] = "resolve"
  /\ \E all \in {TRUE, Unrecorded = {}} :
       seen' = [seen EXCEPT ![r] = IF all THEN live ELSE {}]
  /\ Goes(r, "call")
  /\ UNCHANGED <<still, status, ledger, ask, at, faults, goesOn, old, work, todo>>

\* A break-even convergence whose process died is claimed again, and goes on
\* with its decision.
Resume(r) ==
  /\ pc[r] = "down" /\ r \in BreakEven
  /\ Goes(r, "resolve")
  /\ work' = [work EXCEPT ![r] = {"stop"}]
  /\ UNCHANGED <<still, status, ledger, ask, at, faults, goesOn, old, seen, todo>>

-----------------------------------------------------------------------------
(* submit_exact_position_sltp with its readback.                            *)

CallSet(r) ==
  /\ pc[r] = "call"
  /\ at' = [at EXCEPT ![r] = SetKey(r)]
  /\ Goes(r, "reserve")
  /\ UNCHANGED <<still, status, ledger, ask, lock, faults, runVars>>

Accepted == {"submitted", "confirmed"}

SetAnswer(r) ==
  /\ pc[r] = "answered" /\ at[r] \in SetKeys
  /\ \/ /\ got[r] \in Accepted
        /\ Goes(r, "readback")
        /\ UNCHANGED <<goesOn, at, work, seen, todo>>
     \/ /\ got[r] \notin Accepted
        /\ Ends(r, IF Group(r) = "tp" THEN "incomplete"
                   ELSE IF got[r] = "rejected" THEN "rejected" ELSE "unknown")
  /\ UNCHANGED <<still, status, ledger, ask, faults, old>>

Unproven(r) == Ends(r, IF Group(r) = "tp" THEN "incomplete" ELSE "unknown")

\* Mutant: the answer of the exchange is taken for proof.
ReadSetSkipped(r) ==
  /\ pc[r] = "readback"
  /\ Goes(r, "confirm")
  /\ UNCHANGED <<still, status, ledger, ask, at, lock, faults, runVars>>

\* The order is pending; a list that cannot be read proves nothing.
ReadSet(r) ==
  /\ pc[r] = "readback"
  /\ \/ /\ order[at[r]] \in live
        /\ Goes(r, "confirm")
        /\ UNCHANGED <<goesOn, at, work, seen, todo, faults>>
     \/ /\ Unproven(r)
        /\ Spend(order[at[r]] \in live)
  /\ UNCHANGED <<still, status, ledger, ask, old>>

\* The end of a group: the next group of the plan begins.
GroupDone(r) ==
  LET left == work[r] \ {Group(r)} IN
  IF left = {} THEN Ends(r, "succeeded")
  ELSE /\ work' = [work EXCEPT ![r] = left]
       /\ todo' = [todo EXCEPT ![r] = {}]
       /\ Goes(r, FirstStep(First(left)))
       /\ UNCHANGED <<goesOn, at, seen>>

\* The new order enters the ledger.
Owned(r) ==
  /\ ledger' = [ledger EXCEPT ![order[at[r]]] = "verified"]
  /\ IF Group(r) = "stop"
     THEN Goes(r, "scan") /\ UNCHANGED <<goesOn, at, work, seen, todo>>
     ELSE GroupDone(r)

\* The row of an intent found confirmed must be there already; one still
\* submitted is confirmed with its ledger row.
ConfirmSet(r) ==
  /\ pc[r] = "confirm"
  /\ LET k == at[r]
         there == got[r] = "confirmed" /\ ledger[order[k]] = "verified"
         mine == got[r] = "submitted" /\ status[k] = "submitted"
     IN
     \/ /\ there /\ Owned(r) /\ UNCHANGED status
     \/ /\ mine /\ Owned(r)
        /\ status' = [status EXCEPT ![k] = "confirmed"]
     \/ /\ ~there /\ ~mine /\ Unproven(r)
        /\ UNCHANGED <<status, ledger>>
  /\ UNCHANGED <<still, ask, faults, old>>

-----------------------------------------------------------------------------
(* _cancel_and_confirm.                                                     *)

\* The caller of a stop replacement that failed after its new stop was read back
\* still enters that stop in the ledger (_record_break_even_stop).
FailsIncomplete(r) ==
  /\ Ends(r, "incomplete")
  /\ ledger' = IF r \in BreakEven
               THEN [ledger EXCEPT ![order[SetKey(r)]] = "verified"] ELSE ledger

\* The check before a cancel compares with one read of the pending orders.
Scan(r) ==
  /\ pc[r] = "scan"
  /\ \/ /\ seen' = [seen EXCEPT ![r] = @ \cap live]
        /\ todo' = [todo EXCEPT ![r] = OldOf(r)]
        /\ Goes(r, IF OldOf(r) = {} THEN "retire" ELSE "next")
        /\ UNCHANGED <<goesOn, at, work, faults, ledger>>
     \/ OldOf(r) # {} /\ FailsIncomplete(r) /\ Spend(TRUE)
  /\ UNCHANGED <<still, status, ask, old>>

CancelNext(r) ==
  /\ pc[r] = "next"
  /\ \E o \in todo[r] :
       \/ /\ o \in seen[r]
          /\ at' = [at EXCEPT ![r] = <<"cancel", o>>]
          /\ Goes(r, "reserve")
          /\ UNCHANGED <<goesOn, work, seen, todo, ledger>>
       \/ o \notin seen[r] /\ FailsIncomplete(r)
  /\ UNCHANGED <<still, status, ask, faults, old>>

CancelAnswer(r) ==
  /\ pc[r] = "answered" /\ at[r] \in CancelKeys
  /\ \/ /\ got[r] \in Accepted
        /\ todo' = [todo EXCEPT ![r] = {o \in @ : at[r] # <<"cancel", o>>}]
        /\ Goes(r, IF \A o \in todo[r] : at[r] = <<"cancel", o>> THEN "prove"
                   ELSE "next")
        /\ UNCHANGED <<goesOn, at, work, seen, ledger>>
     \/ got[r] \notin Accepted /\ FailsIncomplete(r)
  /\ UNCHANGED <<still, status, ask, faults, old>>

\* Mutant: an accepted cancel is taken for a cancelled order.
ProveGoneSkipped(r) ==
  /\ pc[r] = "prove"
  /\ Goes(r, "retire")
  /\ UNCHANGED <<still, status, ledger, ask, at, lock, faults, runVars>>

\* Not one old order may still be pending; a list that cannot be read proves
\* nothing.
ProveGone(r) ==
  /\ pc[r] = "prove"
  /\ \/ /\ OldOf(r) \cap live = {}
        /\ Goes(r, "retire")
        /\ UNCHANGED <<goesOn, at, work, seen, todo, faults, ledger>>
     \/ FailsIncomplete(r) /\ Spend(OldOf(r) \cap live = {})
  /\ UNCHANGED <<still, status, ask, old>>

\* _retire_ledger_rows, and what the caller records after a stop.
Retire(r) ==
  /\ pc[r] = "retire"
  /\ ledger' = [o \in Orders |->
       IF Group(r) = "stop" /\ o = order[SetKey(r)] THEN "verified"
       ELSE IF o \in OldOf(r) THEN "cancelled" ELSE ledger[o]]
  /\ \/ Group(r) = "stop" /\ GroupDone(r)
     \/ /\ Group(r) = "tp" /\ Goes(r, "call")
        /\ UNCHANGED <<goesOn, at, work, seen, todo>>
  /\ UNCHANGED <<still, status, ask, faults, old>>

\* The process dies with what its runs keep in memory.
Dies ==
  /\ Crash
  /\ work' = [r \in Runs |-> {}]
  /\ seen' = [r \in Runs |-> {}]
  /\ todo' = [r \in Runs |-> {}]
  /\ UNCHANGED <<old, result>>

-----------------------------------------------------------------------------
RunStep(r) ==
  \/ Adjust(r) \/ Decide(r) \/ Resolve(r) \/ Resume(r) \/ CallSet(r)
  \/ SetAnswer(r) \/ ReadSet(r) \/ ConfirmSet(r)
  \/ Scan(r) \/ CancelNext(r) \/ CancelAnswer(r) \/ ProveGone(r) \/ Retire(r)

Next ==
  \/ \E r \in Runs : RunStep(r)
  \/ /\ \/ \E c \in Callers : CallStep(c)
        \/ \E c \in Closers : StartClose(c)
        \/ \E k \in late : Lands(k)
        \/ TakeSnapshot \/ Reconcile \/ Fill \/ PositionEnds
     /\ UNCHANGED runVars
  \/ Dies

Spec == Init /\ [][Next]_vars
-----------------------------------------------------------------------------
(* Properties                                                               *)

RunSteps == {"resolve", "call", "readback", "confirm", "scan", "next", "prove",
             "retire"}
CallSteps == {"reserve", "check", "authorize", "write", "record", "answered"}

VenueOK ==
  /\ open \in BOOLEAN /\ version \in Nat /\ placed \in Orders
  /\ grp \in [Orders -> Groups \cup {"none"}]
  /\ px \in [Orders -> Prices \cup {0}]
  /\ live \subseteq 1..placed
  /\ made \in [SetKeys -> 0..placed]
  /\ filled \subseteq CloseKeys /\ late \subseteq Keys
  /\ sends \in [Keys -> Nat]

IntentOK ==
  /\ status \in [Keys -> Statuses]
  /\ basis \in [Keys -> Nat]
  /\ order \in [SetKeys -> 0..placed]
  /\ ledger \in [Orders -> {"absent", "verified", "cancelled"}]
  /\ ask \in [SetKeys -> Prices \cup {0}]

CallerOK ==
  /\ pc \in [Callers -> {"idle", "down", "ended"} \cup RunSteps \cup CallSteps]
  /\ at \in [Callers -> Keys \cup {<<"none">>}]
  /\ got \in [Callers -> Answers]
  /\ snap \subseteq 1..placed /\ reading \in BOOLEAN /\ lock \subseteq Adjusting
  /\ fills \in 0..MaxFills /\ crashes \in 0..MaxCrashes /\ faults \in 0..MaxFaults

RunOK ==
  /\ old \in [Runs -> SUBSET (1..placed)]
  /\ work \in [Runs -> SUBSET Groups]
  /\ seen \in [Runs -> SUBSET Orders] /\ todo \in [Runs -> SUBSET Orders]
  /\ result \in [Runs -> Results]

TypeOK == VenueOK /\ IntentOK /\ CallerOK /\ RunOK

\* An open position always has a stop, whatever the runs, their crashes and the
\* answers they get: "Place the new stops, then retire the old ones."
NeverNaked == open => Of("stop", live) # {}

\* A set intent was confirmed from an order its own write did not make.
Borrowed == \E k \in SetKeys : order[k] \notin {0, made[k]}

\* Only an intent confirmed from the order of another write can leave an open
\* position without a stop.
StopsKept == Borrowed \/ NeverNaked

\* A run's new take profit is on the exchange only once its old ones are gone,
\* "so two of them never fire together".
TakeProfitsNeverDouble ==
  \A r \in Runs :
    made[<<"set", r, "tp">>] # 0 => Of("tp", old[r]) \cap live = {}

\* A replacement that reports success left none of the orders it replaced, and
\* each new order is one the database owns.
SuccessMeansReplaced ==
  \A r \in Runs : result[r] = "succeeded" =>
    \A o \in old[r] : grp[o] \in Plan[r] =>
      /\ o \notin live
      /\ status[<<"set", r, grp[o]>>] = "confirmed"

\* Across crashes, retries and callers that share a key, the exchange receives
\* the write of an intent at most once.
WriteOnce == \A k \in Keys : sends[k] <= 1

\* The gateway keeps the promise of FiledCall: an intent is filed when it leaves
\* reserved for submitting.  Confirmed is a definite word of a close (a set may
\* be confirmed from the order of another write), rejected and blocked are one
\* of every intent.
Calls == INSTANCE FiledCall WITH
  Ids <- Keys, filed <- {k \in Keys : status[k] \in InDoubt \cup {"confirmed"}},
  calls <- sends,
  effects <- filled \cup {k \in SetKeys : made[k] # 0},
  done <- {k \in CloseKeys : status[k] = "confirmed"},
  denied <- {k \in Keys : status[k] \in {"rejected", "blocked"}}
CallsFiled == Calls!Spec

\* Two closes authorized by the same position never both fill.
CloseOnce ==
  \A k, l \in filled : basis[k] = basis[l] => k = l

\* A write the database calls refused has had no effect and will have none.
RefusedMeansNoEffect ==
  \A k \in Keys : status[k] \in {"reserved", "blocked", "rejected"} =>
    /\ k \notin late \cup filled
    /\ k \in SetKeys => made[k] = 0
=============================================================================
