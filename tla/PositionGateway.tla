--------------------------- MODULE PositionGateway ---------------------------
(* The position mutation gateway: every write to the exchange that sets or   *)
(* cancels a protection order, or closes a position, goes through a durable  *)
(* intent.  A call reserves the intent of its write, checks the position it  *)
(* was authorized for, moves the intent to submitting, writes, and records   *)
(* what it was told.  A reconciler settles intents from a readback.          *)
(*                                                                           *)
(* Sources: position_mutation_gateway.py, position_mutation_intents.py,      *)
(* position_mutation_authority.py, protection_ledger.py.                     *)
(*                                                                           *)
(* One position.  An authority is the version of the position it was built   *)
(* from: every fill of a close and every outside change makes a new one.     *)
EXTENDS Naturals, FiniteSets

CONSTANTS
  Runs,        \* replacement runs; each places at most one order per group
  Closers,     \* callers that close the position
  CloseKey,    \* idempotency key of a closer; a retry has the same one
  Prices,      \* trigger prices
  MaxOrders,   \* protection orders an instance places, the first two included
  MaxFills,    \* changes of the position from outside
  MaxCrashes,  \* deaths of the process
  MaxFaults    \* replies lost or belied, reads failed, gates shut

ASSUME BoundsAssumption ==
  /\ MaxOrders \in Nat \ {0, 1}
  /\ MaxFills \in Nat /\ MaxCrashes \in Nat /\ MaxFaults \in Nat
  /\ Prices \subseteq Nat \ {0}
  /\ Runs \cap Closers = {}

VARIABLES
  open, version, placed, grp, px, live,   \* the exchange: position and orders
  made, filled, late, sends,              \* writes: done, under way, received
  status, basis, order, ledger, ask,      \* the database
  pc, at, got,                            \* every caller
  snap, reading, lock,                    \* the reconciler; the authority lock
  fills, crashes, faults                  \* budgets

bookVars == <<placed, grp, px, live, made>>
venueVars == <<open, version, bookVars, filled, late, sends>>
intentVars == <<status, basis, order>>
readerVars == <<snap, reading>>
budgets == <<fills, crashes, faults>>

Orders == 1..MaxOrders
Groups == {"stop", "tp"}
Callers == Runs \cup Closers

SetKeys == {<<"set", r, g>> : r \in Runs, g \in Groups}
CancelKeys == {<<"cancel", o>> : o \in Orders}
CloseKeys == {<<"close", CloseKey[c]>> : c \in Closers}
Keys == SetKeys \cup CancelKeys \cup CloseKeys

\* Between the CAS to submitting and a verdict the write may have happened.
InDoubt == {"submitting", "submitted", "recovery_required"}
Unresolved == InDoubt \cup {"reserved"}
Statuses == Unresolved \cup {"absent", "confirmed", "rejected", "blocked"}
Answers == Statuses \cup {"none", "refused"}

Spend(fault) ==
  /\ fault => faults < MaxFaults
  /\ faults' = IF fault THEN faults + 1 ELSE faults

Goes(c, step) == pc' = [pc EXCEPT ![c] = step] /\ UNCHANGED got

Answered(c, answer) ==
  /\ pc' = [pc EXCEPT ![c] = "answered"]
  /\ got' = [got EXCEPT ![c] = answer]

\* transition_position_mutation_intent by a caller that then answers: a CAS that
\* lost answers with what the row says.
Moved(c, k, from, to) ==
  IF status[k] = from
  THEN status' = [status EXCEPT ![k] = to] /\ Answered(c, to)
  ELSE UNCHANGED status /\ Answered(c, status[k])

-----------------------------------------------------------------------------
(* One call.                                                               *)

\* The identity of a write holds the authority it was first reserved under: the
\* same write under another version of the position is a conflict.
Conflicts(k) == status[k] # "absent" /\ basis[k] # version

AfterReserve(k) == IF k \in CloseKeys THEN "check" ELSE "authorize"

Reserve(c) ==
  /\ pc[c] = "reserve"
  /\ LET k == at[c] IN
     \/ /\ ~open \/ Conflicts(k)
        /\ Answered(c, "refused")
        /\ UNCHANGED <<status, basis>>
     \/ /\ open /\ status[k] = "absent"
        /\ status' = [status EXCEPT ![k] = "reserved"]
        /\ basis' = [basis EXCEPT ![k] = version]
        /\ Goes(c, AfterReserve(k))
     \/ /\ open /\ status[k] = "reserved" /\ ~Conflicts(k)
        /\ Goes(c, AfterReserve(k))
        /\ UNCHANGED <<status, basis>>
     \/ /\ open /\ status[k] \notin {"absent", "reserved"} /\ ~Conflicts(k)
        /\ Answered(c, status[k])
        /\ UNCHANGED <<status, basis>>
  /\ UNCHANGED <<venueVars, order, ledger, ask, at, readerVars, lock, budgets>>

\* Mutant: a close whose outcome is unknown is not in the way of another.
OtherCloseKnown(k) ==
  \E l \in CloseKeys : l # k /\ status[l] \in Unresolved \ {"recovery_required"}

OtherClose(k) == \E l \in CloseKeys : l # k /\ status[l] \in Unresolved

\* Asked after this close is reserved, so of two closes reserved at once at
\* least one sees the other.
CheckOthers(c) ==
  /\ pc[c] = "check"
  /\ IF OtherClose(at[c])
     THEN Moved(c, at[c], "reserved", "blocked")
     ELSE Goes(c, "authorize") /\ UNCHANGED status
  /\ UNCHANGED <<venueVars, basis, order, ledger, ask, at, readerVars, lock,
                 budgets>>

\* The position is the one the write was authorized for, and an order to cancel
\* is one the ledger still owns.
StillAuthorized(k) ==
  /\ open /\ version = basis[k]
  /\ \A o \in Orders : k = <<"cancel", o>> => ledger[o] = "verified"

\* A block without cause is the live gate found shut.
Authorize(c) ==
  /\ pc[c] = "authorize"
  /\ LET k == at[c] IN
     \/ /\ StillAuthorized(k) /\ status[k] = "reserved"
        /\ status' = [status EXCEPT ![k] = "submitting"]
        /\ Goes(c, "write")
        /\ UNCHANGED faults
     \/ /\ StillAuthorized(k) /\ status[k] # "reserved"
        /\ Answered(c, status[k])
        /\ UNCHANGED <<status, faults>>
     \/ /\ Moved(c, k, "reserved", "blocked")
        /\ Spend(StillAuthorized(k))
  /\ UNCHANGED <<venueVars, basis, order, ledger, ask, at, readerVars, lock,
                 fills, crashes>>

\* Mutant: the exchange gives an order id twice.
PlaceAgain(k, lives) ==
  /\ placed < MaxOrders
  /\ grp' = [grp EXCEPT ![placed + 1] = k[3]]
  /\ px' = [px EXCEPT ![placed + 1] = ask[k]]
  /\ live' = IF lives THEN live \cup {placed + 1} ELSE live
  /\ made' = [made EXCEPT ![k] = placed + 1]
  /\ UNCHANGED placed

\* set-position-sltp adds an order and never edits one.
Place(k, lives) ==
  LET new == placed + 1 IN
  /\ new \in Orders
  /\ placed' = new
  /\ grp' = [grp EXCEPT ![new] = k[3]]
  /\ px' = [px EXCEPT ![new] = ask[k]]
  /\ live' = IF lives THEN live \cup {new} ELSE live
  /\ made' = [made EXCEPT ![k] = new]

TakesEffect(k) ==
  /\ open
  /\ \/ k \in SetKeys /\ Place(k, TRUE) /\ UNCHANGED <<version, filled>>
     \/ /\ \E o \in Orders : k = <<"cancel", o>> /\ live' = live \ {o}
        /\ UNCHANGED <<version, filled, placed, grp, px, made>>
     \/ /\ k \in CloseKeys
        /\ filled' = filled \cup {k}
        /\ version' = version + 1
        /\ UNCHANGED bookVars

\* An accepted set has an order id even when its order is dropped.
HasNoEffect(k, accepted) ==
  /\ IF accepted /\ k \in SetKeys THEN Place(k, FALSE) ELSE UNCHANGED bookVars
  /\ UNCHANGED <<version, filled>>

\* A rejection is definite and an accepted write may still be dropped; a write
\* with no answer may take effect now, later or never.
Fates(reply) ==
  CASE reply = "rejected" -> {"never"}
    [] reply = "submitted" -> {"now", "never"}
    [] reply = "recovery_required" -> {"now", "later", "never"}

Write(c) ==
  /\ pc[c] = "write"
  /\ sends' = [sends EXCEPT ![at[c]] = @ + 1]
  /\ \E reply \in {"submitted", "rejected", "recovery_required"} :
       \E fate \in Fates(reply) :
         /\ got' = [got EXCEPT ![c] = reply]
         /\ Spend(reply = "recovery_required"
                    \/ (reply = "submitted" /\ fate = "never"))
         /\ IF fate = "now" THEN TakesEffect(at[c])
            ELSE HasNoEffect(at[c], reply = "submitted")
         /\ late' = IF fate = "later" THEN late \cup {at[c]} ELSE late
  /\ pc' = [pc EXCEPT ![c] = "record"]
  /\ UNCHANGED <<open, intentVars, ledger, ask, at, readerVars, lock, fills,
                 crashes>>

\* A write nobody got an answer for reaches the matching engine.
Lands(k) ==
  /\ k \in late
  /\ late' = late \ {k}
  /\ TakesEffect(k)
  /\ UNCHANGED <<open, sends, intentVars, ledger, ask, pc, at, got, readerVars,
                 lock, budgets>>

\* Mutant: a write without an answer is recorded as rejected.
RecordNoAnswerAsRejected(c) ==
  /\ pc[c] = "record"
  /\ Moved(c, at[c], "submitting",
           IF got[c] = "recovery_required" THEN "rejected" ELSE got[c])
  /\ order' = IF at[c] \in SetKeys /\ got[c] = "submitted"
              THEN [order EXCEPT ![at[c]] = made[at[c]]] ELSE order
  /\ UNCHANGED <<venueVars, basis, ledger, ask, at, readerVars, lock, budgets>>

Record(c) ==
  /\ pc[c] = "record"
  /\ LET k == at[c] IN
     /\ Moved(c, k, "submitting", got[c])
     /\ order' = IF /\ k \in SetKeys
                    /\ got[c] = "submitted" /\ status[k] = "submitting"
                 THEN [order EXCEPT ![k] = made[k]] ELSE order
  /\ UNCHANGED <<venueVars, basis, ledger, ask, at, readerVars, lock, budgets>>

CallStep(c) ==
  Reserve(c) \/ CheckOthers(c) \/ Authorize(c) \/ Write(c) \/ Record(c)

-----------------------------------------------------------------------------
(* reconcile_submitted_position_mutation_intents: the pending orders are     *)
(* read first, and applied once the authority lock is free.                  *)

TakeSnapshot ==
  /\ ~reading
  /\ reading' = TRUE
  /\ snap' = live
  /\ UNCHANGED <<venueVars, intentVars, ledger, ask, pc, at, got, lock, budgets>>

LooksLike(k) == {o \in snap : grp[o] = k[3] /\ px[o] = ask[k]}

\* An intent without an order id is matched by what it asked for, if one order
\* only looks like it.
Readback(k) ==
  IF order[k] # 0 THEN snap \cap {order[k]}
  ELSE {o \in snap : LooksLike(k) = {o}}

SetProven(k) == k \in SetKeys /\ status[k] \in InDoubt /\ Readback(k) # {}

CancelProven(k) ==
  /\ status[k] \in InDoubt
  /\ \E o \in Orders \ snap : k = <<"cancel", o>>

\* A close whose end the order history and the fills may show.
CloseEnded(k) ==
  k \in CloseKeys /\ status[k] \in InDoubt /\ sends[k] > 0 /\ k \notin late

\* Mutant: a close the history does not show filled is taken for rejected.
ReconcileMissingAsRejected ==
  /\ reading /\ lock = {}
  /\ reading' = FALSE
  /\ snap' = {}
  /\ status' = [k \in Keys |->
       IF k \in CloseKeys /\ status[k] \in InDoubt
       THEN IF k \in filled THEN "confirmed" ELSE "rejected"
       ELSE status[k]]
  /\ UNCHANGED <<venueVars, basis, order, ledger, ask, pc, at, got, lock, budgets>>

Reconcile ==
  /\ reading /\ lock = {}
  /\ reading' = FALSE
  /\ snap' = {}
  /\ \E shown \in SUBSET {k \in CloseKeys : CloseEnded(k)} :
       status' = [k \in Keys |->
         IF SetProven(k) \/ CancelProven(k) \/ k \in shown \cap filled
         THEN "confirmed"
         ELSE IF k \in shown THEN "rejected" ELSE status[k]]
  /\ order' = [k \in SetKeys |->
       IF SetProven(k) THEN CHOOSE o \in Orders : o \in Readback(k) ELSE order[k]]
  /\ ledger' = [o \in Orders |->
       IF \E k \in SetKeys : SetProven(k) /\ o \in Readback(k) THEN "verified"
       ELSE IF CancelProven(<<"cancel", o>>) /\ ledger[o] = "verified"
       THEN "cancelled"
       ELSE ledger[o]]
  /\ UNCHANGED <<venueVars, basis, ask, pc, at, got, lock, budgets>>

-----------------------------------------------------------------------------
(* Closers: a call may be repeated with its key, after an answer or a crash. *)

StartClose(c) ==
  /\ pc[c] \in {"idle", "answered", "down"}
  /\ at' = [at EXCEPT ![c] = <<"close", CloseKey[c]>>]
  /\ Goes(c, "reserve")
  /\ UNCHANGED <<venueVars, intentVars, ledger, ask, readerVars, lock, budgets>>

\* A fill or a person changes the position.
Fill ==
  /\ open /\ fills < MaxFills
  /\ fills' = fills + 1
  /\ version' = version + 1
  /\ UNCHANGED <<open, bookVars, filled, late, sends, intentVars, ledger, ask, pc,
                 at, got, readerVars, lock, crashes, faults>>

\* A stop fires, or the rest is closed: the orders go with the position.
PositionEnds ==
  /\ open
  /\ open' = FALSE
  /\ live' = {}
  /\ UNCHANGED <<version, placed, grp, px, made, filled, late, sends, intentVars,
                 ledger, ask, pc, at, got, readerVars, lock, budgets>>

Crash ==
  /\ crashes < MaxCrashes
  /\ crashes' = crashes + 1
  /\ pc' = [c \in Callers |-> IF pc[c] \in {"idle", "ended"} THEN pc[c] ELSE "down"]
  /\ at' = [c \in Callers |-> <<"none">>]
  /\ got' = [c \in Callers |-> "none"]
  /\ lock' = {}
  /\ reading' = FALSE
  /\ snap' = {}
  /\ UNCHANGED <<venueVars, intentVars, ledger, ask, fills, faults>>
=============================================================================
