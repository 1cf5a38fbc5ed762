--------------------- MODULE ProtectionReplacementProofs ---------------------
(***************************************************************************)
(* The safety of the position mutation gateway and of the replacement of   *)
(* protection orders, for any number of runs, closers, orders, outside     *)
(* changes, crashes and faults.                                            *)
(***************************************************************************)
EXTENDS ProtectionReplacement, TLAPS

-----------------------------------------------------------------------------
(* Keys.                                                                   *)

LEMMA KeysApart ==
  /\ \A k \in SetKeys : k \notin CancelKeys /\ k \notin CloseKeys
  /\ \A k \in CancelKeys : k \notin CloseKeys
  /\ \A k \in Keys : k # <<"none">>
BY DEF SetKeys, CancelKeys, CloseKeys, Keys

LEMMA SetKeyFacts ==
  ASSUME NEW r \in Runs, NEW g \in Groups
  PROVE  /\ <<"set", r, g>> \in SetKeys
         /\ <<"set", r, g>>[2] = r /\ <<"set", r, g>>[3] = g
         /\ \A q \in Runs, h \in Groups :
              <<"set", r, g>> = <<"set", q, h>> => q = r /\ h = g
BY DEF SetKeys

LEMMA SetKeyParts ==
  ASSUME NEW k \in SetKeys
  PROVE  \E r \in Runs, g \in Groups : k = <<"set", r, g>>
BY DEF SetKeys

LEMMA CancelKeyFacts ==
  ASSUME NEW o \in Orders
  PROVE  /\ <<"cancel", o>> \in CancelKeys
         /\ \A q : <<"cancel", o>> = <<"cancel", q>> => q = o
BY DEF CancelKeys

-----------------------------------------------------------------------------
(* What each kind of step touches.                                         *)

\* A caller at a call works on a key of its own kind, and a write has an answer.
AtOK == \A c \in Callers :
  /\ pc[c] \in CallSteps => at[c] \in Keys
  /\ at[c] \in Keys =>
       \/ c \in Runs /\ at[c] \in CancelKeys
       \/ c \in Runs /\ \E g \in Groups : at[c] = <<"set", c, g>>
       \/ c \in Closers /\ at[c] \in CloseKeys
  /\ pc[c] = "record" => got[c] \in {"submitted", "rejected", "recovery_required"}
  /\ pc[c] \in {"readback", "confirm"} => at[c] \in SetKeys

\* A run's own step, seen from the gateway.
RunFrame(r) ==
  /\ UNCHANGED <<venueVars, basis, order, snap, reading, fills, crashes>>
  /\ pc' = [pc EXCEPT ![r] = pc'[r]]
  /\ at' = [at EXCEPT ![r] = at'[r]]
  /\ got' = [got EXCEPT ![r] = got'[r]]
  /\ pc'[r] \in {"reserve", "ended"} \cup RunSteps
  /\ \/ at'[r] \in {at[r], <<"none">>} \cup CancelKeys
     \/ \E g \in Groups : at'[r] = <<"set", r, g>>
  /\ pc'[r] = "reserve" => at'[r] \in Keys
  /\ pc'[r] \in {"readback", "confirm"} => at'[r] = at[r] /\ at[r] \in SetKeys
  /\ \/ status' = status
     \/ \E k \in SetKeys :
          status[k] = "submitted" /\ status' = [status EXCEPT ![k] = "confirmed"]

LEMMA StartFrame ==
  ASSUME NEW r \in Runs, CallerOK, RunOK, AtOK,
         Adjust(r) \/ Decide(r) \/ Resolve(r) \/ Resume(r) \/ CallSet(r)
  PROVE  RunFrame(r)
<1> r \in Callers
  BY DEF Callers
<1>1. CASE Adjust(r)
  BY <1>1 DEF Adjust, Ends, Goes, still, readerVars, RunFrame, CallerOK, FirstStep, RunSteps
<1>2. CASE Decide(r)
  BY <1>2 DEF Decide, Ends, Goes, still, goesOn, readerVars, RunFrame, CallerOK, RunSteps
<1>3. CASE Resolve(r)
  BY <1>3 DEF Resolve, Goes, still, goesOn, readerVars, RunFrame, CallerOK, RunSteps
<1>4. CASE Resume(r)
  BY <1>4 DEF Resume, Goes, still, goesOn, readerVars, RunFrame, CallerOK, RunSteps
<1>5. CASE CallSet(r)
  <2>1. Group(r) \in Groups
    BY DEF Group, First, Groups
  <2> QED
    BY <1>5, <2>1 DEF CallSet, Goes, still, readerVars, RunFrame, CallerOK, SetKey, Keys, SetKeys
<1> QED
  BY <1>1, <1>2, <1>3, <1>4, <1>5

LEMMA SetFrame ==
  ASSUME NEW r \in Runs, CallerOK, IntentOK, RunOK, AtOK,
         SetAnswer(r) \/ ReadSet(r) \/ ConfirmSet(r)
  PROVE  RunFrame(r)
<1> r \in Callers
  BY DEF Callers
<1>1. CASE SetAnswer(r)
  BY <1>1 DEF SetAnswer, Ends, Goes, still, goesOn, readerVars, RunFrame, CallerOK, RunSteps
<1>2. CASE ReadSet(r)
  BY <1>2 DEF ReadSet, Unproven, Ends, Goes, still, goesOn, readerVars, RunFrame, CallerOK, RunSteps, AtOK
<1>3. CASE ConfirmSet(r)
  <2>1. at[r] \in SetKeys
    BY <1>3 DEF ConfirmSet, AtOK
  <2>2. pc' = [pc EXCEPT ![r] = pc'[r]] /\ at' = [at EXCEPT ![r] = at'[r]] /\ got' = [got EXCEPT ![r] = got'[r]]
        /\ pc'[r] \in {"scan", "call", "ended"} /\ at'[r] \in {at[r], <<"none">>}
    BY <1>3 DEF ConfirmSet, Owned, GroupDone, Unproven, Ends, Goes, goesOn, CallerOK, FirstStep
  <2>3. \/ status' = status
        \/ status[at[r]] = "submitted" /\ status' = [status EXCEPT ![at[r]] = "confirmed"]
    BY <1>3 DEF ConfirmSet
  <2> QED
    BY <1>3, <2>1, <2>2, <2>3 DEF ConfirmSet, still, readerVars, RunFrame, RunSteps
<1> QED
  BY <1>1, <1>2, <1>3

LEMMA CancelFrame ==
  ASSUME NEW r \in Runs, CallerOK, RunOK, AtOK,
         Scan(r) \/ CancelNext(r) \/ CancelAnswer(r) \/ ProveGone(r) \/ Retire(r)
  PROVE  RunFrame(r)
<1> r \in Callers
  BY DEF Callers
<1>1. CASE Scan(r)
  BY <1>1 DEF Scan, FailsIncomplete, Ends, Goes, still, goesOn, readerVars, RunFrame, CallerOK, RunSteps
<1>2. CASE CancelNext(r)
  <2>1. PICK o \in Orders :
          \/ /\ at' = [at EXCEPT ![r] = <<"cancel", o>>]
             /\ Goes(r, "reserve")
          \/ Ends(r, "incomplete")
    BY <1>2 DEF CancelNext, FailsIncomplete, RunOK
  <2>2. <<"cancel", o>> \in CancelKeys /\ <<"cancel", o>> \in Keys
    BY DEF CancelKeys, Keys
  <2> QED
    BY <1>2, <2>1, <2>2 DEF CancelNext, Ends, Goes, still, readerVars, RunFrame, CallerOK
<1>3. CASE CancelAnswer(r)
  BY <1>3 DEF CancelAnswer, FailsIncomplete, Ends, Goes, still, goesOn, readerVars, RunFrame, CallerOK, RunSteps
<1>4. CASE ProveGone(r)
  BY <1>4 DEF ProveGone, FailsIncomplete, Ends, Goes, still, goesOn, readerVars, RunFrame, CallerOK, RunSteps
<1>5. CASE Retire(r)
  BY <1>5 DEF Retire, GroupDone, Ends, Goes, still, goesOn, readerVars, RunFrame, CallerOK, FirstStep, RunSteps
<1> QED
  BY <1>1, <1>2, <1>3, <1>4, <1>5

LEMMA RunStepFrame ==
  ASSUME NEW r \in Runs, TypeOK, AtOK, RunStep(r)
  PROVE  RunFrame(r)
BY StartFrame, SetFrame, CancelFrame DEF RunStep, TypeOK

-----------------------------------------------------------------------------
(* Types.                                                                  *)

\* A caller's step of a call, seen from the runs.
CallFrame(c) ==
  /\ pc[c] \in CallSteps \ {"answered"} /\ pc'[c] \in CallSteps
  /\ pc' = [pc EXCEPT ![c] = pc'[c]]
  /\ got' = [got EXCEPT ![c] = got'[c]]
  /\ got'[c] \in Answers
  /\ pc'[c] = "record" =>
       got'[c] \in {"submitted", "rejected", "recovery_required"}
  /\ UNCHANGED <<ledger, ask, at, readerVars, lock, fills, crashes>>
  /\ faults' \in 0..MaxFaults

LEMMA CallStepFrame ==
  ASSUME NEW c \in Callers, TypeOK, AtOK, CallStep(c)
  PROVE  CallFrame(c)
<1> USE DEF CallFrame, TypeOK, CallerOK, CallSteps, budgets
<1>0. /\ pc[c] \in CallSteps => at[c] \in Keys
      /\ status[at[c]] \in Answers \/ at[c] \notin Keys
      /\ {"blocked", "refused", "submitted", "rejected", "recovery_required"}
           \subseteq Answers
      /\ pc[c] = "record" =>
           got[c] \in {"submitted", "rejected", "recovery_required"}
  BY DEF AtOK, IntentOK, Answers, Statuses, Unresolved, InDoubt
<1>1. CASE Reserve(c)
  BY <1>0, <1>1 DEF Reserve, Answered, Goes, AfterReserve
<1>2. CASE CheckOthers(c)
  BY <1>0, <1>2 DEF CheckOthers, Moved, Answered, Goes
<1>3. CASE Authorize(c)
  BY <1>0, <1>3, BoundsAssumption DEF Authorize, Moved, Answered, Goes, Spend
<1>4. CASE Write(c)
  BY <1>0, <1>4, BoundsAssumption DEF Write, Spend
<1>5. CASE Record(c)
  BY <1>0, <1>5 DEF Record, Moved, Answered
<1> QED
  BY <1>1, <1>2, <1>3, <1>4, <1>5 DEF CallStep

LEMMA AtInit ==
  ASSUME Init
  PROVE  AtOK
BY KeysApart DEF Init, AtOK, CallSteps

LEMMA AtCall ==
  ASSUME NEW c \in Callers, TypeOK, AtOK, CallStep(c)
  PROVE  AtOK'
<1>1. CallFrame(c)
  BY CallStepFrame
<1>2. DOMAIN pc = Callers /\ DOMAIN got = Callers
  BY DEF TypeOK, CallerOK
<1>3. \A d \in Callers : at'[d] = at[d]
                         /\ (d # c => pc'[d] = pc[d] /\ got'[d] = got[d])
  BY <1>1, <1>2 DEF CallFrame
<1>4. at[c] \in Keys /\ pc'[c] \notin {"readback", "confirm"}
  BY <1>1 DEF CallFrame, AtOK, CallSteps
<1>5. pc'[c] = "record" =>
        got'[c] \in {"submitted", "rejected", "recovery_required"}
  BY <1>1 DEF CallFrame
<1> QED
  BY <1>3, <1>4, <1>5 DEF AtOK

LEMMA AtRun ==
  ASSUME NEW r \in Runs, TypeOK, AtOK, RunStep(r)
  PROVE  AtOK'
<1>1. RunFrame(r)
  BY RunStepFrame
<1>2. DOMAIN pc = Callers /\ DOMAIN got = Callers /\ DOMAIN at = Callers
      /\ r \in Callers
  BY DEF TypeOK, CallerOK, Callers
<1>3. \A c \in Callers : c # r =>
        pc'[c] = pc[c] /\ at'[c] = at[c] /\ got'[c] = got[c]
  BY <1>1, <1>2 DEF RunFrame
<1>4. /\ pc'[r] \in {"reserve", "ended"} \cup RunSteps
      /\ pc'[r] = "reserve" => at'[r] \in Keys
      /\ pc'[r] \in {"readback", "confirm"} => at'[r] \in SetKeys
  BY <1>1 DEF RunFrame
<1>5. at'[r] \in Keys =>
        \/ at'[r] \in CancelKeys
        \/ \E g \in Groups : at'[r] = <<"set", r, g>>
  <2>1. r \notin Closers
    BY BoundsAssumption
  <2>2. \/ at'[r] \in {at[r], <<"none">>} \cup CancelKeys
        \/ \E g \in Groups : at'[r] = <<"set", r, g>>
    BY <1>1 DEF RunFrame
  <2> QED
    BY <1>2, <2>1, <2>2, KeysApart DEF AtOK
<1> QED
  BY <1>2, <1>3, <1>4, <1>5 DEF AtOK, CallSteps, RunSteps

LEMMA AtEnv ==
  ASSUME TypeOK, AtOK,
         \/ \E c \in Closers : StartClose(c)
         \/ \E k \in late : Lands(k)
         \/ TakeSnapshot \/ Reconcile \/ Fill \/ PositionEnds \/ Dies
         \/ UNCHANGED vars
  PROVE  AtOK'
<1>1. ASSUME NEW c \in Closers, StartClose(c) PROVE AtOK'
  <2>1. c \in Callers /\ <<"close", CloseKey[c]>> \in CloseKeys
        /\ <<"close", CloseKey[c]>> \in Keys
    BY DEF Callers, CloseKeys, Keys
  <2> QED
    BY <1>1, <2>1 DEF StartClose, Goes, AtOK, TypeOK, CallerOK, CallSteps
<1>2. CASE UNCHANGED <<pc, at, got>>
  BY <1>2 DEF AtOK
<1>3. CASE Dies
  BY <1>3, KeysApart DEF Dies, Crash, AtOK, CallSteps
<1> QED
  BY <1>1, <1>2, <1>3
     DEF Lands, TakeSnapshot, Reconcile, Fill, PositionEnds, vars

\* What an effect of a write makes of the exchange.
Grown ==
  /\ VenueOK'
  /\ placed <= placed'

LEMMA PlaceGrows ==
  ASSUME VenueOK, IntentOK, NEW k \in SetKeys, NEW lives \in BOOLEAN,
         Place(k, lives), UNCHANGED <<open, version, filled>>,
         sends' \in [Keys -> Nat], late' \subseteq Keys
  PROVE  Grown
<1>1. PICK r \in Runs, g \in Groups : k = <<"set", r, g>>
  BY SetKeyParts
<1>2. k[3] \in Groups \cup {"none"} /\ ask[k] \in Prices \cup {0}
  BY <1>1 DEF IntentOK
<1>3. /\ placed' = placed + 1 /\ placed' \in Orders
      /\ grp' = [grp EXCEPT ![placed'] = k[3]]
      /\ px' = [px EXCEPT ![placed'] = ask[k]]
      /\ live' \subseteq live \cup {placed'}
      /\ made' = [made EXCEPT ![k] = placed']
  BY DEF Place
<1>4. placed \in Nat /\ \A m \in 0..placed : m \in 0..placed'
  BY <1>3, BoundsAssumption DEF VenueOK, Orders
<1>5. grp' \in [Orders -> Groups \cup {"none"}]
  BY <1>2, <1>3 DEF VenueOK
<1>6. px' \in [Orders -> Prices \cup {0}]
  BY <1>2, <1>3 DEF VenueOK
<1>7. made' \in [SetKeys -> 0..placed']
  BY <1>3, <1>4 DEF VenueOK
<1>8. live' \subseteq 1..placed'
  BY <1>3, <1>4 DEF VenueOK
<1> QED
  BY <1>3, <1>4, <1>5, <1>6, <1>7, <1>8 DEF Grown, VenueOK

LEMMA EffectGrows ==
  ASSUME VenueOK, IntentOK, NEW k \in Keys, TakesEffect(k), UNCHANGED open,
         sends' \in [Keys -> Nat], late' \subseteq Keys
  PROVE  Grown
<1>1. CASE k \in SetKeys /\ Place(k, TRUE) /\ UNCHANGED <<version, filled>>
  BY <1>1, PlaceGrows
<1>2. CASE UNCHANGED <<version, filled, placed, grp, px, made>> /\ live' \subseteq live
  BY <1>2 DEF VenueOK, Grown, Orders
<1>3. CASE /\ k \in CloseKeys /\ filled' = filled \cup {k}
           /\ version' = version + 1 /\ UNCHANGED bookVars
  BY <1>3 DEF VenueOK, Grown, bookVars, Orders
<1> QED
  BY <1>1, <1>2, <1>3 DEF TakesEffect

LEMMA NoEffectGrows ==
  ASSUME VenueOK, IntentOK, NEW k \in Keys, NEW accepted \in BOOLEAN,
         HasNoEffect(k, accepted), UNCHANGED open,
         sends' \in [Keys -> Nat], late' \subseteq Keys
  PROVE  Grown
<1>1. CASE k \in SetKeys /\ Place(k, FALSE)
  BY <1>1, PlaceGrows DEF HasNoEffect
<1>2. CASE UNCHANGED bookVars
  BY <1>2 DEF VenueOK, Grown, bookVars, Orders, HasNoEffect
<1> QED
  BY <1>1, <1>2 DEF HasNoEffect

\* The numbers of orders only grow, so what names one goes on naming one.
LEMMA GrowsOn ==
  ASSUME TypeOK, Grown
  PROVE  /\ order \in [SetKeys -> 0..placed'] /\ made \in [SetKeys -> 0..placed']
         /\ snap \subseteq 1..placed' /\ old \in [Runs -> SUBSET (1..placed')]
         /\ live \subseteq 1..placed'
<1>1. placed \in Nat /\ placed' \in Nat /\ placed <= placed'
  BY BoundsAssumption DEF TypeOK, VenueOK, Grown, Orders
<1>2. 0..placed \subseteq 0..placed' /\ 1..placed \subseteq 1..placed'
  BY <1>1
<1> QED
  BY <1>2 DEF TypeOK, VenueOK, IntentOK, CallerOK, RunOK

LEMMA TypeInit ==
  ASSUME Init
  PROVE  TypeOK
<1> USE BoundsAssumption, RunsAssumption
<1>1. 2 \in Orders /\ 1 \in Orders
  BY DEF Orders
<1>2. VenueOK
  BY <1>1 DEF Init, VenueOK, Groups
<1>3. IntentOK
  BY DEF Init, IntentOK, Statuses, Unresolved, InDoubt
<1>4. CallerOK
  <2>1. /\ pc \in [Callers -> {"idle"}] /\ got \in [Callers -> {"none"}]
        /\ at \in [Callers -> {<<"none">>}]
        /\ snap = {} /\ reading = FALSE /\ lock = {}
        /\ fills = 0 /\ crashes = 0 /\ faults = 0
    BY DEF Init
  <2>2. fills \in 0..MaxFills /\ crashes \in 0..MaxCrashes /\ faults \in 0..MaxFaults
    BY <2>1
  <2> QED
    BY <2>1, <2>2 DEF CallerOK, Answers
<1>5. RunOK
  BY DEF Init, RunOK, Results
<1> QED
  BY <1>2, <1>3, <1>4, <1>5 DEF TypeOK

\* What a step of a call makes of the intents.
LEMMA CallIntents ==
  ASSUME NEW c \in Callers, TypeOK, AtOK, CallStep(c)
  PROVE  /\ status' \in [Keys -> Statuses] /\ basis' \in [Keys -> Nat]
         /\ order' \in [SetKeys -> 0..placed]
         /\ Write(c) \/ UNCHANGED venueVars
<1> USE DEF TypeOK
<1>0. {"reserved", "blocked", "submitting", "submitted", "rejected",
       "recovery_required"} \subseteq Statuses
  BY DEF Statuses, Unresolved, InDoubt
<1>1. CASE Reserve(c)
  BY <1>0, <1>1 DEF Reserve, IntentOK, VenueOK
<1>2. CASE CheckOthers(c)
  BY <1>0, <1>2 DEF CheckOthers, Moved, IntentOK
<1>3. CASE Authorize(c)
  BY <1>0, <1>3 DEF Authorize, Moved, IntentOK
<1>4. CASE Write(c)
  BY <1>4 DEF Write, intentVars, IntentOK
<1>5. CASE Record(c)
  <2>1. got[c] \in Statuses
    BY <1>0, <1>5 DEF Record, AtOK
  <2>2. status' \in [Keys -> Statuses]
    BY <1>5, <2>1 DEF Record, Moved, IntentOK
  <2>3. order' \in [SetKeys -> 0..placed]
    BY <1>5 DEF Record, IntentOK, VenueOK
  <2> QED
    BY <1>5, <2>2, <2>3 DEF Record, IntentOK
<1> QED
  BY <1>1, <1>2, <1>3, <1>4, <1>5 DEF CallStep

LEMMA WriteGrows ==
  ASSUME NEW c \in Callers, TypeOK, AtOK, Write(c)
  PROVE  Grown
<1>1. at[c] \in Keys
  BY DEF Write, AtOK, CallSteps
<1>2. sends' \in [Keys -> Nat]
  <2>1. sends' = [sends EXCEPT ![at[c]] = @ + 1]
    BY DEF Write
  <2> QED
    BY <1>1, <2>1 DEF TypeOK, VenueOK
<1>3. late' \subseteq Keys
  <2>1. late' \in {late, late \cup {at[c]}}
    BY DEF Write
  <2> QED
    BY <1>1, <2>1 DEF TypeOK, VenueOK
<1>4. UNCHANGED open
  BY DEF Write
<1>5. TakesEffect(at[c]) \/ \E accepted \in BOOLEAN : HasNoEffect(at[c], accepted)
  BY DEF Write
<1> QED
  BY <1>1, <1>2, <1>3, <1>4, <1>5, EffectGrows, NoEffectGrows DEF TypeOK

LEMMA TypeCall ==
  ASSUME NEW c \in Callers, TypeOK, AtOK, CallStep(c), UNCHANGED runVars
  PROVE  TypeOK'
<1>1. CallFrame(c)
  BY CallStepFrame
<1>2. Grown
  <2>1. CASE Write(c)
    BY <2>1, WriteGrows
  <2>2. CASE UNCHANGED venueVars
    BY <2>2, BoundsAssumption
       DEF Grown, TypeOK, VenueOK, venueVars, bookVars, Orders
  <2> QED
    BY <2>1, <2>2, CallIntents
<1>3. IntentOK'
  <2>1. order' \in [SetKeys -> 0..placed']
    <3>1. placed \in Nat /\ placed' \in Nat /\ placed <= placed'
      BY <1>2, BoundsAssumption DEF TypeOK, VenueOK, Grown, Orders
    <3>2. 0..placed \subseteq 0..placed'
      BY <3>1
    <3> QED
      BY <3>2, CallIntents
  <2> QED
    BY <1>1, <2>1, CallIntents DEF IntentOK, TypeOK, CallFrame
<1>4. CallerOK'
  <2>1. c \in Callers /\ pc'[c] \in CallSteps /\ got'[c] \in Answers
    BY <1>1 DEF CallFrame
  <2> QED
    BY <1>1, <1>2, <2>1, GrowsOn DEF TypeOK, CallerOK, CallFrame, readerVars
<1>5. RunOK'
  BY <1>2, GrowsOn DEF TypeOK, RunOK, runVars
<1> QED
  BY <1>2, <1>3, <1>4, <1>5 DEF TypeOK, Grown

\* What a run's own step makes of what only the runs write.
LEMMA RunParts ==
  ASSUME NEW r \in Runs, TypeOK, AtOK, RunStep(r)
  PROVE  /\ ledger' \in [Orders -> {"absent", "verified", "cancelled"}]
         /\ ask' \in [SetKeys -> Prices \cup {0}]
         /\ lock' \subseteq Adjusting /\ faults' \in 0..MaxFaults
         /\ RunOK'
<1>0. SUFFICES /\ ledger' \in [Orders -> {"absent", "verified", "cancelled"}]
               /\ ask' \in [SetKeys -> Prices \cup {0}]
               /\ lock' \subseteq Adjusting /\ faults' \in 0..MaxFaults
               /\ old' \in [Runs -> SUBSET (1..placed)]
               /\ work' \in [Runs -> SUBSET Groups]
               /\ seen' \in [Runs -> SUBSET Orders]
               /\ todo' \in [Runs -> SUBSET Orders]
               /\ result' \in [Runs -> Results]
  BY RunStepFrame DEF RunFrame, RunOK, venueVars, bookVars
<1> USE DEF TypeOK, IntentOK, CallerOK, RunOK
<1>1. {"none", "declined", "succeeded", "rejected", "unknown", "incomplete"}
        \subseteq Results /\ "stop" \in Groups /\ live \subseteq 1..placed
      /\ live \subseteq Orders
  BY BoundsAssumption DEF Results, Groups, VenueOK, Orders
<1>2. CASE Adjust(r)
  <2>1. NeededGroups(r) \subseteq Groups
    BY RunsAssumption DEF NeededGroups
  <2>2. r \in Adjusting
    BY <1>2 DEF Adjust
  <2>3. ledger' \in [Orders -> {"absent", "verified", "cancelled"}]
    BY <1>2 DEF Adjust
  <2>4. ask' \in [SetKeys -> Prices \cup {0}]
    BY <1>2, SMTT(60) DEF Adjust
  <2>5. old' \in [Runs -> SUBSET (1..placed)]
    BY <1>1, <1>2, ZenonT(60) DEF Adjust
  <2>6. work' \in [Runs -> SUBSET Groups] /\ seen' \in [Runs -> SUBSET Orders]
    BY <1>1, <1>2, <2>1, ZenonT(60) DEF Adjust, Ends
  <2>7. todo' \in [Runs -> SUBSET Orders] /\ result' \in [Runs -> Results]
    BY <1>1, <1>2 DEF Adjust, Ends
  <2>8. lock' \subseteq Adjusting /\ faults' \in 0..MaxFaults
    BY <1>2, <2>2 DEF Adjust, Ends
  <2> QED
    BY <2>3, <2>4, <2>5, <2>6, <2>7, <2>8
<1>3. CASE Decide(r)
  <2>1. Entry \in Prices /\ r \notin Adjusting
    BY <1>3, RunsAssumption DEF Decide, Adjusting
  <2>2. ask' \in [SetKeys -> Prices \cup {0}]
    BY <1>3, <2>1, ZenonT(60) DEF Decide
  <2>3. old' \in [Runs -> SUBSET (1..placed)]
    <3>1. UNCHANGED old \/ \E stops \in SUBSET live : old' = [old EXCEPT ![r] = stops]
      BY <1>3 DEF Decide
    <3> QED
      BY <1>1, <3>1
  <2>4. work' \in [Runs -> SUBSET Groups]
    BY <1>1, <1>3, SMTT(60) DEF Decide, Ends
  <2> QED
    BY <1>1, <1>3, <2>2, <2>3, <2>4, SMTT(60) DEF Decide, Ends, goesOn
<1>4. CASE Resolve(r)
  BY <1>1, <1>4 DEF Resolve, goesOn
<1>5. CASE Resume(r)
  BY <1>1, <1>5 DEF Resume, goesOn
<1>6. CASE CallSet(r)
  BY <1>6 DEF CallSet, runVars
<1>7. CASE SetAnswer(r)
  BY <1>1, <1>7, SMTT(60) DEF SetAnswer, Ends, goesOn
<1>8. CASE ReadSet(r)
  BY <1>1, <1>8, BoundsAssumption, SMTT(60) DEF ReadSet, Unproven, Ends, goesOn, Spend
<1>9. CASE ConfirmSet(r)
  BY <1>1, <1>9, SMTT(60) DEF ConfirmSet, Owned, GroupDone, Unproven, Ends, goesOn
<1>10. CASE Scan(r)
  <2>1. OldOf(r) \subseteq Orders
    BY BoundsAssumption DEF OldOf, Of, VenueOK, Orders
  <2>2. faults' \in 0..MaxFaults
    BY <1>10, BoundsAssumption DEF Scan, Spend
  <2>3. ledger' \in [Orders -> {"absent", "verified", "cancelled"}]
    BY <1>10 DEF Scan, FailsIncomplete
  <2>4. ask' \in [SetKeys -> Prices \cup {0}] /\ lock' \subseteq Adjusting
        /\ old' \in [Runs -> SUBSET (1..placed)]
    BY <1>10 DEF Scan, FailsIncomplete, Ends, goesOn
  <2>5. work' \in [Runs -> SUBSET Groups] /\ result' \in [Runs -> Results]
    <3>1. \/ UNCHANGED <<work, result>>
          \/ /\ work' = [work EXCEPT ![r] = {}]
             /\ result' = [result EXCEPT ![r] = "incomplete"]
      BY <1>10 DEF Scan, FailsIncomplete, Ends, goesOn
    <3> QED
      BY <1>1, <3>1, SMTT(60)
  <2>6. seen' \in [Runs -> SUBSET Orders] /\ todo' \in [Runs -> SUBSET Orders]
    BY <1>10, <2>1, ZenonT(60) DEF Scan, FailsIncomplete, Ends
  <2> QED
    BY <2>2, <2>3, <2>4, <2>5, <2>6
<1>11. CASE CancelNext(r)
  BY <1>1, <1>11, SMTT(60) DEF CancelNext, FailsIncomplete, Ends, goesOn
<1>12. CASE CancelAnswer(r)
  BY <1>1, <1>12, SMTT(60) DEF CancelAnswer, FailsIncomplete, Ends, goesOn
<1>13. CASE ProveGone(r)
  <2>1. faults' \in 0..MaxFaults
    BY <1>13, BoundsAssumption DEF ProveGone, Spend
  <2>2. ledger' \in [Orders -> {"absent", "verified", "cancelled"}]
    BY <1>13 DEF ProveGone, FailsIncomplete
  <2> QED
    BY <1>1, <1>13, <2>1, <2>2, SMTT(60) DEF ProveGone, FailsIncomplete, Ends, goesOn
<1>14. CASE Retire(r)
  BY <1>1, <1>14, SMTT(60) DEF Retire, GroupDone, Ends, goesOn
<1> QED
  BY <1>2, <1>3, <1>4, <1>5, <1>6, <1>7, <1>8, <1>9, <1>10, <1>11, <1>12,
     <1>13, <1>14 DEF RunStep

LEMMA TypeRun ==
  ASSUME NEW r \in Runs, TypeOK, AtOK, RunStep(r)
  PROVE  TypeOK'
<1>1. RunFrame(r)
  BY RunStepFrame
<1>2. UNCHANGED <<placed, open, version, grp, px, live, made, filled, late, sends,
                  basis, order, snap, reading, fills, crashes>>
  BY <1>1 DEF RunFrame, venueVars, bookVars
<1>3. VenueOK'
  BY <1>2 DEF TypeOK, VenueOK
<1>4. IntentOK'
  <2>1. status' \in [Keys -> Statuses]
    <3>1. "confirmed" \in Statuses
      BY DEF Statuses
    <3>2. \/ status' = status
          \/ \E k \in Keys : status' = [status EXCEPT ![k] = "confirmed"]
      BY <1>1 DEF RunFrame, Keys
    <3> QED
      BY <3>1, <3>2 DEF TypeOK, IntentOK
  <2> QED
    BY <1>2, <2>1, RunParts DEF TypeOK, IntentOK
<1>5. CallerOK'
  <2>1. r \in Callers /\ pc'[r] \in {"reserve", "ended"} \cup RunSteps
    BY <1>1 DEF RunFrame, Callers
  <2>2. at'[r] \in Keys \cup {<<"none">>}
    <3>1. \/ at'[r] \in {at[r], <<"none">>} \cup CancelKeys
          \/ \E g \in Groups : at'[r] = <<"set", r, g>>
      BY <1>1 DEF RunFrame
    <3>2. at[r] \in Keys \cup {<<"none">>}
      BY <2>1 DEF TypeOK, CallerOK
    <3>3. CancelKeys \subseteq Keys /\ SetKeys \subseteq Keys
      BY DEF Keys
    <3> QED
      BY <3>1, <3>2, <3>3, SetKeyFacts, SMTT(60)
  <2>3. got'[r] \in Answers
    <3>1. got'[r] \in {got[r], "none"}
      BY DEF RunStep, Adjust, Decide, Resolve, Resume, CallSet, SetAnswer, ReadSet,
             ConfirmSet, Owned, GroupDone, Unproven, Scan, CancelNext,
             CancelAnswer, ProveGone, Retire, FailsIncomplete, Ends, Goes,
             TypeOK, CallerOK, Callers
    <3> QED
      BY <2>1, <3>1 DEF TypeOK, CallerOK, Answers
  <2>4. pc' \in [Callers -> {"idle", "down", "ended"} \cup RunSteps \cup CallSteps]
    BY <1>1, <2>1 DEF RunFrame, TypeOK, CallerOK, CallSteps
  <2>5. at' \in [Callers -> Keys \cup {<<"none">>}]
    BY <1>1, <2>2 DEF RunFrame, TypeOK, CallerOK
  <2>6. got' \in [Callers -> Answers]
    BY <1>1, <2>3 DEF RunFrame, TypeOK, CallerOK
  <2> QED
    BY <1>2, <2>4, <2>5, <2>6, RunParts DEF TypeOK, CallerOK
<1> QED
  BY <1>3, <1>4, <1>5, RunParts DEF TypeOK

\* Steps of nobody's call.
EnvStep ==
  /\ \/ \E c \in Closers : StartClose(c)
     \/ \E k \in late : Lands(k)
     \/ TakeSnapshot \/ Reconcile \/ Fill \/ PositionEnds
  /\ UNCHANGED runVars

LEMMA NextCases ==
  ASSUME [Next]_vars
  PROVE  \/ \E r \in Runs : RunStep(r)
         \/ \E c \in Callers : CallStep(c) /\ UNCHANGED runVars
         \/ EnvStep \/ Dies \/ UNCHANGED vars
BY DEF Next, EnvStep

LEMMA ReconcileType ==
  ASSUME TypeOK, Reconcile
  PROVE  IntentOK'
<1>1. {"confirmed", "rejected"} \subseteq Statuses
  BY DEF Statuses
<1>2. status' \in [Keys -> Statuses]
  <2>1. \A k \in Keys : status'[k] \in {"confirmed", "rejected", status[k]}
    BY DEF Reconcile
  <2>2. status' = [k \in Keys |-> status'[k]]
    BY DEF Reconcile
  <2> QED
    BY <1>1, <2>1, <2>2 DEF TypeOK, IntentOK
<1>3. order' \in [SetKeys -> 0..placed]
  <2>1. order' = [k \in SetKeys |->
          IF SetProven(k) THEN CHOOSE o \in Orders : o \in Readback(k) ELSE order[k]]
    BY DEF Reconcile
  <2>2. ASSUME NEW k \in SetKeys PROVE order'[k] \in 0..placed
    <3>1. CASE SetProven(k)
      <4>1. Readback(k) # {} /\ Readback(k) \subseteq snap
        BY <3>1 DEF SetProven, Readback
      <4>2. snap \subseteq 1..placed /\ placed \in Nat /\ placed <= MaxOrders
        BY BoundsAssumption DEF TypeOK, CallerOK, VenueOK, Orders
      <4>3. 1..placed \subseteq Orders /\ 1..placed \subseteq 0..placed
        BY <4>2, BoundsAssumption DEF Orders
      <4> QED
        BY <2>1, <3>1, <4>1, <4>2, <4>3
    <3>2. CASE ~SetProven(k)
      BY <2>1, <3>2 DEF TypeOK, IntentOK
    <3> QED
      BY <3>1, <3>2
  <2> QED
    BY <2>1, <2>2
<1>4. ledger' \in [Orders -> {"absent", "verified", "cancelled"}]
  <2>1. \A o \in Orders : ledger'[o] \in {"verified", "cancelled", ledger[o]}
    BY DEF Reconcile
  <2>2. ledger' = [o \in Orders |-> ledger'[o]]
    BY DEF Reconcile
  <2> QED
    BY <2>1, <2>2 DEF TypeOK, IntentOK
<1>5. UNCHANGED <<basis, ask, placed>>
  BY DEF Reconcile, venueVars, bookVars
<1> QED
  BY <1>2, <1>3, <1>4, <1>5 DEF TypeOK, IntentOK

LEMMA TypeEnv ==
  ASSUME TypeOK, AtOK, EnvStep
  PROVE  TypeOK'
<1> USE DEF TypeOK, budgets, readerVars, intentVars, runVars
<1>0. RunOK' \/ ~UNCHANGED placed
  BY DEF EnvStep, RunOK
<1>1. ASSUME NEW c \in Closers, StartClose(c) PROVE TypeOK'
  <2>1. c \in Callers /\ <<"close", CloseKey[c]>> \in Keys
    BY DEF Callers, CloseKeys, Keys
  <2>2. CallerOK'
    BY <1>1, <2>1 DEF StartClose, Goes, CallerOK, CallSteps, venueVars, bookVars
  <2>3. VenueOK' /\ IntentOK'
    BY <1>1 DEF StartClose, VenueOK, IntentOK, venueVars, bookVars
  <2> QED
    BY <1>0, <1>1, <2>2, <2>3 DEF StartClose, venueVars, bookVars
<1>2. ASSUME NEW k \in late, Lands(k) PROVE TypeOK'
  <2>1. k \in Keys /\ sends' \in [Keys -> Nat] /\ late' \subseteq Keys
    BY <1>2 DEF Lands, VenueOK
  <2>2. TakesEffect(k) /\ UNCHANGED open
    BY <1>2 DEF Lands
  <2>3. Grown
    BY <2>1, <2>2, EffectGrows
  <2>4. UNCHANGED <<status, basis, order, ledger, ask, pc, at, got, snap, reading,
                    lock, fills, crashes, faults>>
    BY <1>2 DEF Lands
  <2>5. UNCHANGED <<old, work, seen, todo, result>>
    BY DEF EnvStep
  <2>6. IntentOK'
    BY <2>3, <2>4, GrowsOn DEF IntentOK
  <2>7. CallerOK'
    BY <2>3, <2>4, GrowsOn DEF CallerOK
  <2>8. RunOK'
    BY <2>3, <2>5, GrowsOn DEF RunOK
  <2> QED
    BY <2>3, <2>6, <2>7, <2>8 DEF Grown
<1>3. CASE TakeSnapshot
  <2>1. VenueOK' /\ IntentOK'
    BY <1>3 DEF TakeSnapshot, VenueOK, IntentOK, venueVars, bookVars
  <2>2. CallerOK'
    BY <1>3 DEF TakeSnapshot, CallerOK, VenueOK, venueVars, bookVars
  <2> QED
    BY <1>0, <1>3, <2>1, <2>2 DEF TakeSnapshot, venueVars, bookVars
<1>4. CASE Reconcile
  <2>1. VenueOK' /\ CallerOK'
    BY <1>4 DEF Reconcile, VenueOK, CallerOK, venueVars, bookVars
  <2> QED
    BY <1>0, <1>4, <2>1, ReconcileType DEF Reconcile, venueVars, bookVars
<1>5. CASE Fill
  <2>1. fills' \in 0..MaxFills
    BY <1>5, BoundsAssumption DEF Fill, CallerOK
  <2>2. VenueOK' /\ IntentOK'
    BY <1>5 DEF Fill, VenueOK, IntentOK, bookVars
  <2>3. CallerOK'
    BY <1>5, <2>1 DEF Fill, CallerOK, bookVars
  <2> QED
    BY <1>0, <1>5, <2>2, <2>3 DEF Fill, bookVars
<1>6. CASE PositionEnds
  <2>1. VenueOK' /\ IntentOK'
    BY <1>6 DEF PositionEnds, VenueOK, IntentOK
  <2>2. CallerOK'
    BY <1>6 DEF PositionEnds, CallerOK
  <2> QED
    BY <1>0, <1>6, <2>1, <2>2 DEF PositionEnds
<1> QED
  BY <1>1, <1>2, <1>3, <1>4, <1>5, <1>6 DEF EnvStep

LEMMA TypeCrash ==
  ASSUME TypeOK, Dies
  PROVE  TypeOK'
<1>1. VenueOK' /\ IntentOK' /\ RunOK'
  BY DEF Dies, Crash, TypeOK, VenueOK, IntentOK, RunOK, venueVars, bookVars,
         intentVars
<1>2. crashes' \in 0..MaxCrashes
  BY BoundsAssumption DEF Dies, Crash, TypeOK, CallerOK
<1>3. CallerOK'
  BY <1>2 DEF Dies, Crash, TypeOK, CallerOK, venueVars, bookVars, Answers
<1> QED
  BY <1>1, <1>3 DEF TypeOK

LEMMA TypeNext ==
  ASSUME TypeOK, AtOK, [Next]_vars
  PROVE  TypeOK' /\ AtOK'
<1>1. CASE \E r \in Runs : RunStep(r)
  BY <1>1, TypeRun, AtRun
<1>2. CASE \E c \in Callers : CallStep(c) /\ UNCHANGED runVars
  BY <1>2, TypeCall, AtCall
<1>3. CASE EnvStep
  BY <1>3, TypeEnv, AtEnv DEF EnvStep
<1>4. CASE Dies
  BY <1>4, TypeCrash, AtEnv
<1>5. CASE UNCHANGED vars
  <2>1. TypeOK'
    BY <1>5 DEF vars, TypeOK, VenueOK, IntentOK, CallerOK, RunOK, venueVars,
                bookVars, readerVars, budgets, runVars, intentVars
  <2> QED
    BY <1>5, <2>1, AtEnv
<1> QED
  BY <1>1, <1>2, <1>3, <1>4, <1>5, NextCases

\* Every variable keeps its type, and every caller works on a key of its own
\* kind.
THEOREM TypeCorrect == Spec => [](TypeOK /\ AtOK)
<1>1. Init => TypeOK /\ AtOK
  BY TypeInit, AtInit
<1>2. TypeOK /\ AtOK /\ [Next]_vars => TypeOK' /\ AtOK'
  BY TypeNext
<1> QED
  BY <1>1, <1>2, PTL DEF Spec

THEOREM TypeTheorem == Spec => []TypeOK
BY TypeCorrect, PTL

-----------------------------------------------------------------------------
(* Writes are sent once.                                                   *)

Unsent == {"absent", "reserved", "blocked"}

\* An intent goes forward: reserved, then sent or blocked, then settled.
StatusMoves ==
  \A k \in Keys :
    \/ status'[k] = status[k]
    \/ status[k] = "absent" /\ status'[k] = "reserved"
    \/ status[k] = "reserved" /\ status'[k] = "blocked"
    \/ /\ status[k] = "reserved" /\ status'[k] = "submitting"
       /\ \E c \in Callers : Authorize(c) /\ at[c] = k
    \/ status[k] \in InDoubt /\ status'[k] \notin Unsent \cup {"submitting"}

LEMMA CallStatus ==
  ASSUME NEW c \in Callers, TypeOK, AtOK, CallStep(c)
  PROVE  /\ StatusMoves
         /\ \A k \in Keys : k # at[c] => status'[k] = status[k]
<1> USE DEF TypeOK, IntentOK
<1>0. at[c] \in Keys
  BY CallStepFrame DEF CallFrame, AtOK
<1>1. CASE Reserve(c)
  BY <1>0, <1>1 DEF Reserve, StatusMoves
<1>2. CASE CheckOthers(c)
  BY <1>0, <1>2 DEF CheckOthers, Moved, StatusMoves
<1>3. CASE Authorize(c)
  <2>1. \/ status' = status
        \/ /\ status[at[c]] = "reserved"
           /\ \/ status' = [status EXCEPT ![at[c]] = "submitting"]
              \/ status' = [status EXCEPT ![at[c]] = "blocked"]
    BY <1>3 DEF Authorize, Moved
  <2> QED
    BY <1>0, <1>3, <2>1 DEF StatusMoves
<1>4. CASE Write(c)
  BY <1>4 DEF Write, intentVars, StatusMoves
<1>5. CASE Record(c)
  <2>1. got[c] \in {"submitted", "rejected", "recovery_required"}
    BY <1>5 DEF Record, AtOK
  <2>2. \/ status' = status
        \/ /\ status[at[c]] = "submitting"
           /\ status' = [status EXCEPT ![at[c]] = got[c]]
    BY <1>5 DEF Record, Moved
  <2> QED
    BY <1>0, <2>1, <2>2 DEF StatusMoves, Unsent, InDoubt
<1> QED
  BY <1>1, <1>2, <1>3, <1>4, <1>5 DEF CallStep

LEMMA StatusSteps ==
  ASSUME TypeOK, AtOK, [Next]_vars
  PROVE  StatusMoves
<1>1. ASSUME NEW r \in Runs, RunStep(r) PROVE StatusMoves
  BY <1>1, RunStepFrame DEF RunFrame, StatusMoves, TypeOK, IntentOK, InDoubt, Unsent, Keys
<1>2. CASE \E c \in Callers : CallStep(c) /\ UNCHANGED runVars
  BY <1>2, CallStatus
<1>3. CASE Reconcile
  BY <1>3 DEF Reconcile, StatusMoves, SetProven, CancelProven, CloseEnded, Unsent
<1>4. CASE UNCHANGED status
  BY <1>4 DEF StatusMoves
<1>5. EnvStep => Reconcile \/ UNCHANGED status
  BY DEF EnvStep, StartClose, Lands, TakeSnapshot, Fill, PositionEnds, intentVars
<1>6. Dies \/ UNCHANGED vars => UNCHANGED status
  BY DEF Dies, Crash, intentVars, vars
<1> QED
  BY <1>1, <1>2, <1>3, <1>4, <1>5, <1>6, NextCases

SendInv ==
  /\ \A k \in Keys : sends[k] \in {0, 1} /\ (status[k] \in Unsent => sends[k] = 0)
  /\ \A c \in Callers :
       pc[c] = "write" => sends[at[c]] = 0 /\ status[at[c]] \notin Unsent
  /\ \A c, d \in Callers :
       pc[c] = "write" /\ pc[d] = "write" /\ at[c] = at[d] => c = d

\* Nobody but Authorize takes a caller to the write.
LEMMA WriteFrom ==
  ASSUME TypeOK, AtOK, [Next]_vars, NEW c \in Callers, pc'[c] = "write"
  PROVE  /\ at'[c] = at[c]
         /\ \/ pc[c] = "write"
            \/ /\ Authorize(c)
               /\ status[at[c]] = "reserved" /\ status'[at[c]] = "submitting"
<1> DOMAIN pc = Callers /\ DOMAIN at = Callers
  BY DEF TypeOK, CallerOK
<1>1. ASSUME NEW r \in Runs, RunStep(r) PROVE pc'[c] = pc[c] /\ at'[c] = at[c]
  BY <1>1, RunStepFrame DEF RunFrame, RunSteps
<1>2. ASSUME NEW d \in Callers, CallStep(d)
      PROVE  /\ at'[c] = at[c]
             /\ pc[c] = "write" \/ (d = c /\ Authorize(c) /\ status[at[c]] = "reserved"
                                          /\ status'[at[c]] = "submitting")
  <2>0. CallFrame(d)
    BY <1>2, CallStepFrame
  <2>1. CASE d # c
    BY <2>0, <2>1 DEF CallFrame
  <2>2. CASE d = c
    <3>1. ~Reserve(c) /\ ~CheckOthers(c) /\ ~Write(c) /\ ~Record(c)
      BY DEF Reserve, CheckOthers, Write, Record, Answered, Moved, Goes, AfterReserve
    <3>2. Authorize(c)
      BY <1>2, <2>2, <3>1 DEF CallStep
    <3>3. at[c] \in Keys /\ DOMAIN status = Keys
      BY <2>0, <2>2 DEF CallFrame, AtOK, TypeOK, IntentOK
    <3>4. status[at[c]] = "reserved" /\ status' = [status EXCEPT ![at[c]] = "submitting"]
      BY <3>2 DEF Authorize, Moved, Answered, Goes
    <3> QED
      BY <2>0, <2>2, <3>2, <3>3, <3>4 DEF CallFrame
  <2> QED
    BY <2>1, <2>2
<1>3. EnvStep \/ Dies \/ UNCHANGED vars => pc'[c] = pc[c] /\ at'[c] = at[c]
  BY DEF EnvStep, StartClose, Goes, Lands, TakeSnapshot, Reconcile, Fill,
         PositionEnds, Dies, Crash, vars
<1> QED
  BY <1>1, <1>2, <1>3, NextCases

LEMMA SendsFrom ==
  ASSUME TypeOK, AtOK, [Next]_vars
  PROVE  \/ UNCHANGED sends
         \/ \E c \in Callers :
              /\ Write(c) /\ at[c] \in Keys /\ pc[c] = "write" /\ pc'[c] = "record"
              /\ sends' = [sends EXCEPT ![at[c]] = @ + 1]
              /\ UNCHANGED <<status, at, basis, order>>
              /\ \A d \in Callers : d # c => pc'[d] = pc[d]
<1>1. ASSUME NEW r \in Runs, RunStep(r) PROVE UNCHANGED sends
  BY <1>1, RunStepFrame DEF RunFrame, venueVars
<1>2. ASSUME NEW c \in Callers, Write(c)
      PROVE  /\ at[c] \in Keys /\ pc[c] = "write" /\ pc'[c] = "record"
             /\ sends' = [sends EXCEPT ![at[c]] = @ + 1]
             /\ UNCHANGED <<status, at, basis, order>>
             /\ \A d \in Callers : d # c => pc'[d] = pc[d]
  BY <1>2 DEF Write, AtOK, CallSteps, TypeOK, CallerOK, intentVars
<1>3. ASSUME NEW c \in Callers, CallStep(c) PROVE Write(c) \/ UNCHANGED sends
  BY <1>3, CallIntents DEF venueVars
<1>4. EnvStep \/ Dies \/ UNCHANGED vars => UNCHANGED sends
  BY DEF EnvStep, StartClose, Lands, TakeSnapshot, Reconcile, Fill, PositionEnds,
         Dies, Crash, vars, venueVars
<1> QED
  BY <1>1, <1>2, <1>3, <1>4, NextCases

LEMMA SendStep ==
  ASSUME TypeOK, AtOK, SendInv, [Next]_vars
  PROVE  SendInv'
<1>0. /\ DOMAIN sends = Keys /\ DOMAIN pc = Callers
      /\ \A c \in Callers : pc[c] \in {"write", "authorize"} => at[c] \in Keys
  BY DEF TypeOK, VenueOK, CallerOK, AtOK, CallSteps
<1>1. \A k \in Keys : status'[k] \in Unsent => status[k] \in Unsent
  BY StatusSteps DEF StatusMoves, Unsent, InDoubt
<1>2. ASSUME NEW c \in Callers, pc'[c] = "write"
      PROVE  /\ at'[c] = at[c] /\ at[c] \in Keys /\ sends[at[c]] = 0
             /\ status'[at[c]] \notin Unsent
             /\ \A d \in Callers : at[d] = at[c] /\ pc[d] = "write" => d = c
    <2>1. CASE pc[c] = "write"
      BY <1>0, <1>1, <1>2, <2>1, WriteFrom DEF SendInv
    <2>2. CASE pc[c] # "write"
      <3>1. /\ at'[c] = at[c] /\ Authorize(c)
            /\ status[at[c]] = "reserved" /\ status'[at[c]] = "submitting"
        BY <1>2, <2>2, WriteFrom
      <3>2. pc[c] = "authorize"
        BY <3>1 DEF Authorize
      <3> QED
        BY <1>0, <3>1, <3>2 DEF SendInv, Unsent
    <2> QED
      BY <2>1, <2>2
<1>3. \A c, d \in Callers :
        pc'[c] = "write" /\ pc'[d] = "write" /\ at'[c] = at'[d] => c = d
  <2> SUFFICES ASSUME NEW c \in Callers, NEW d \in Callers, pc'[c] = "write",
                      pc'[d] = "write", at'[c] = at'[d], c # d
               PROVE  FALSE
    OBVIOUS
  <2>1. pc[c] # "write" /\ pc[d] # "write"
    BY <1>2
  <2>2. Authorize(c) /\ Authorize(d)
    BY <2>1, WriteFrom
  <2> QED
    BY <1>0, <2>2 DEF Authorize, Answered, Goes, Moved
<1>4. CASE UNCHANGED sends
  BY <1>1, <1>2, <1>3, <1>4 DEF SendInv
<1>5. ASSUME NEW c \in Callers,
             at[c] \in Keys, pc[c] = "write", pc'[c] = "record",
             sends' = [sends EXCEPT ![at[c]] = @ + 1],
             UNCHANGED <<status, at>>
      PROVE  SendInv'
  <2>1. sends[at[c]] = 0 /\ status[at[c]] \notin Unsent
    BY <1>5 DEF SendInv
  <2>2. \A k \in Keys : sends'[k] \in {0, 1} /\ (status'[k] \in Unsent => sends'[k] = 0)
    BY <1>0, <1>5, <2>1 DEF SendInv
  <2>3. ASSUME NEW d \in Callers, pc'[d] = "write"
        PROVE  sends'[at'[d]] = 0 /\ status'[at'[d]] \notin Unsent
    <3>1. at'[d] = at[d] /\ at[d] \in Keys /\ sends[at[d]] = 0
          /\ status'[at[d]] \notin Unsent /\ at[d] # at[c]
      BY <1>2, <1>5, <2>3
    <3> QED
      BY <1>0, <1>5, <3>1
  <2> QED
    BY <1>3, <2>2, <2>3 DEF SendInv
<1> QED
  BY <1>4, <1>5, SendsFrom

LEMMA SendInit ==
  ASSUME Init
  PROVE  SendInv
BY DEF Init, SendInv

\* The exchange receives the write of an intent at most once.
THEOREM WriteOnceTheorem == Spec => []WriteOnce
<1>1. Init => TypeOK /\ AtOK /\ SendInv
  BY TypeInit, AtInit, SendInit
<1>2. TypeOK /\ AtOK /\ SendInv /\ [Next]_vars => (TypeOK /\ AtOK /\ SendInv)'
  BY TypeNext, SendStep
<1>3. SendInv => WriteOnce
  BY DEF SendInv, WriteOnce
<1> QED
  BY <1>1, <1>2, <1>3, PTL DEF Spec

-----------------------------------------------------------------------------
(* What the database calls refused has no effect.                          *)

NoEffect(k) == k \notin late \cup filled /\ (k \in SetKeys => made[k] = 0)

EffectInv ==
  /\ \A k \in Keys : sends[k] = 0 => NoEffect(k)
  /\ \A c \in Callers : pc[c] = "record" =>
       sends[at[c]] = 1 /\ (got[c] = "rejected" => NoEffect(at[c]))
  /\ \A k \in Keys : status[k] = "rejected" => sends[k] = 1 /\ NoEffect(k)

\* An effect is the effect of its own write.
LEMMA EffectOfOne ==
  ASSUME TypeOK, NEW j \in Keys,
         TakesEffect(j) \/ \E accepted \in BOOLEAN : HasNoEffect(j, accepted),
         late' \subseteq late \cup {j},
         NEW k \in Keys, k # j, NoEffect(k)
  PROVE  NoEffect(k)'
<1>1. k \notin filled' \cup late'
  <2>1. filled' \subseteq filled \cup {j}
    BY DEF TakesEffect, HasNoEffect
  <2> QED
    BY <2>1 DEF NoEffect
<1>2. k \in SetKeys => made'[k] = made[k]
  BY DEF TakesEffect, HasNoEffect, Place, bookVars, TypeOK, VenueOK
<1> QED
  BY <1>1, <1>2 DEF NoEffect

\* A record is reached from a write only, with its answer.
LEMMA RecordFrom ==
  ASSUME TypeOK, AtOK, [Next]_vars, NEW c \in Callers, pc'[c] = "record"
  PROVE  at'[c] = at[c] /\ ((pc[c] = "record" /\ got'[c] = got[c]) \/ Write(c))
<1> DOMAIN pc = Callers /\ DOMAIN at = Callers /\ DOMAIN got = Callers
  BY DEF TypeOK, CallerOK
<1>1. ASSUME NEW r \in Runs, RunStep(r)
      PROVE pc'[c] = pc[c] /\ at'[c] = at[c] /\ got'[c] = got[c]
  BY <1>1, RunStepFrame DEF RunFrame, RunSteps
<1>2. ASSUME NEW d \in Callers, CallStep(d)
      PROVE  at'[c] = at[c] /\ ((pc[c] = "record" /\ got'[c] = got[c]) \/ Write(c))
  <2>0. CallFrame(d)
    BY <1>2, CallStepFrame
  <2>1. CASE d # c
    BY <2>0, <2>1 DEF CallFrame
  <2>2. CASE d = c
    <3>1. ~Reserve(c) /\ ~CheckOthers(c) /\ ~Authorize(c) /\ ~Record(c)
      BY DEF Reserve, CheckOthers, Authorize, Record, Answered, Moved, Goes, AfterReserve
    <3> QED
      BY <1>2, <2>0, <2>2, <3>1 DEF CallStep, CallFrame
  <2> QED
    BY <2>1, <2>2
<1>3. EnvStep \/ Dies \/ UNCHANGED vars
        => pc'[c] = pc[c] /\ at'[c] = at[c] /\ got'[c] = got[c]
  BY DEF EnvStep, StartClose, Goes, Lands, TakeSnapshot, Reconcile, Fill,
         PositionEnds, Dies, Crash, vars
<1> QED
  BY <1>1, <1>2, <1>3, NextCases

\* Nothing changes the exchange but a write, one that lands, and the end of the
\* position.
LEMMA EffectsFrom ==
  ASSUME TypeOK, AtOK, [Next]_vars
  PROVE  \/ \E c \in Callers : Write(c)
         \/ \E k \in late : Lands(k)
         \/ UNCHANGED <<late, filled, placed, grp, px, made>> /\ live' \subseteq live
<1>1. ASSUME NEW r \in Runs, RunStep(r)
      PROVE  UNCHANGED <<late, filled, placed, grp, px, made>> /\ live' \subseteq live
  BY <1>1, RunStepFrame DEF RunFrame, venueVars, bookVars
<1>2. ASSUME NEW c \in Callers, CallStep(c)
      PROVE  Write(c) \/ (UNCHANGED <<late, filled, placed, grp, px, made>>
                          /\ live' \subseteq live)
  BY <1>2, CallIntents DEF venueVars, bookVars
<1>3. EnvStep \/ Dies \/ UNCHANGED vars =>
         \/ \E k \in late : Lands(k)
         \/ UNCHANGED <<late, filled, placed, grp, px, made>> /\ live' \subseteq live
  BY DEF EnvStep, StartClose, TakeSnapshot, Reconcile, Fill, PositionEnds,
         Dies, Crash, vars, venueVars, bookVars
<1> QED
  BY <1>1, <1>2, <1>3, NextCases

LEMMA EffectStep ==
  ASSUME TypeOK, AtOK, SendInv, EffectInv, [Next]_vars
  PROVE  EffectInv'
<1>0. /\ DOMAIN sends = Keys /\ DOMAIN got = Callers
      /\ \A c \in Callers : pc[c] \in CallSteps => at[c] \in Keys
      /\ late \subseteq Keys
  BY DEF TypeOK, VenueOK, CallerOK, AtOK
<1>1. ASSUME NEW k \in Keys, NoEffect(k)
      PROVE  NoEffect(k)' \/ \E c \in Callers : Write(c) /\ at[c] = k
  <2>1. ASSUME NEW c \in Callers, Write(c), at[c] # k PROVE NoEffect(k)'
    <3>1. late' \subseteq late \cup {at[c]} /\ at[c] \in Keys
      BY <1>0, <2>1 DEF Write, CallSteps
    <3>2. TakesEffect(at[c]) \/ \E accepted \in BOOLEAN : HasNoEffect(at[c], accepted)
      BY <2>1 DEF Write
    <3> QED
      BY <1>1, <2>1, <3>1, <3>2, EffectOfOne
  <2>2. ASSUME NEW j \in late, Lands(j) PROVE NoEffect(k)'
    <3>1. j # k /\ j \in Keys
      BY <1>0, <1>1, <2>2 DEF NoEffect
    <3>2. TakesEffect(j) /\ late' \subseteq late \cup {j}
      BY <2>2 DEF Lands
    <3> QED
      BY <1>1, <3>1, <3>2, EffectOfOne
  <2>3. UNCHANGED <<late, filled, made>> => NoEffect(k)'
    BY <1>1 DEF NoEffect
  <2> QED
    BY <2>1, <2>2, <2>3, EffectsFrom
<1>2. ASSUME NEW c \in Callers, Write(c)
      PROVE  /\ at[c] \in Keys /\ sends[at[c]] = 0 /\ sends'[at[c]] = 1
             /\ pc[c] = "write" /\ status'[at[c]] # "rejected"
             /\ \A k \in Keys : k # at[c] => sends'[k] = sends[k]
             /\ UNCHANGED status
  <2>1. /\ pc[c] = "write" /\ sends' = [sends EXCEPT ![at[c]] = @ + 1]
        /\ UNCHANGED status
    BY <1>2 DEF Write, intentVars
  <2>2. at[c] \in Keys /\ sends[at[c]] = 0
    BY <1>0, <2>1 DEF SendInv, CallSteps
  <2> QED
    BY <1>0, <2>1, <2>2 DEF EffectInv
<1>3. ASSUME NEW k \in Keys, sends'[k] = 0 PROVE NoEffect(k)'
  <2>1. sends[k] = 0
    <3>1. sends[k] \in {0, 1}
      BY DEF SendInv
    <3> QED
      BY <1>0, <1>2, <1>3, <3>1, SendsFrom
  <2> QED
    BY <1>1, <1>2, <1>3, <2>1 DEF EffectInv
<1>4. ASSUME NEW k \in Keys, status'[k] = "rejected"
      PROVE  sends'[k] = 1 /\ NoEffect(k)'
  <2>0. ~ \E c \in Callers : Write(c) /\ at[c] = k
    BY <1>2, <1>4
  <2>1. sends'[k] = sends[k]
    BY <1>0, <1>2, <2>0, SendsFrom
  <2>2. sends[k] = 1 /\ NoEffect(k)
    <3>1. CASE status[k] = "rejected"
      BY <3>1 DEF EffectInv
    <3>2. ASSUME NEW c \in Callers, CallStep(c), status[k] # "rejected"
          PROVE  sends[k] = 1 /\ NoEffect(k)
      <4>1. at[c] = k
        BY <1>4, <3>2, CallStatus
      <4>2. ~Reserve(c) /\ ~CheckOthers(c) /\ ~Authorize(c) /\ ~Write(c)
        BY <1>4, <3>2, <4>1
           DEF Reserve, CheckOthers, Authorize, Write, Moved, intentVars, TypeOK, IntentOK
      <4>3. pc[c] = "record" /\ status'[k] \in {status[k], got[c]}
        BY <3>2, <4>1, <4>2 DEF CallStep, Record, Moved, TypeOK, IntentOK
      <4> QED
        BY <1>4, <3>2, <4>1, <4>3 DEF EffectInv
    <3>3. CASE Reconcile /\ status[k] # "rejected"
      <4>1. CloseEnded(k) /\ k \notin filled
        BY <1>4, <3>3 DEF Reconcile
      <4>2. k \notin SetKeys /\ sends[k] = 1
        BY <4>1, KeysApart DEF CloseEnded, SendInv
      <4> QED
        BY <4>1, <4>2 DEF CloseEnded, NoEffect
    <3>4. ASSUME NEW r \in Runs, RunStep(r) PROVE status'[k] \in {status[k], "confirmed"}
      BY <3>4, RunStepFrame DEF RunFrame, TypeOK, IntentOK
    <3>5. EnvStep \/ Dies \/ UNCHANGED vars => Reconcile \/ UNCHANGED status
      BY DEF EnvStep, StartClose, Lands, TakeSnapshot, Fill, PositionEnds,
             intentVars, Dies, Crash, vars
    <3> QED
      BY <1>4, <3>1, <3>2, <3>3, <3>4, <3>5, NextCases
  <2> QED
    BY <1>1, <2>0, <2>1, <2>2
<1>5. ASSUME NEW c \in Callers, pc'[c] = "record"
      PROVE  sends'[at'[c]] = 1 /\ (got'[c] = "rejected" => NoEffect(at[c])')
  <2>1. CASE Write(c)
    <3>1. at'[c] = at[c]
      BY <1>5, RecordFrom
    <3>2. ASSUME got'[c] = "rejected" PROVE NoEffect(at[c])'
      <4>1. NoEffect(at[c])
        BY <1>2, <2>1 DEF EffectInv
      <4>2. got' = [got EXCEPT ![c] = got'[c]] /\ UNCHANGED <<late, filled, made>>
        <5>1. PICK reply \in {"submitted", "rejected", "recovery_required"} :
                \E fate \in Fates(reply) :
                  /\ got' = [got EXCEPT ![c] = reply]
                  /\ IF fate = "now" THEN TakesEffect(at[c])
                     ELSE HasNoEffect(at[c], reply = "submitted")
                  /\ late' = IF fate = "later" THEN late \cup {at[c]} ELSE late
          BY <2>1 DEF Write
        <5>2. reply = "rejected"
          BY <1>0, <3>2, <5>1
        <5> QED
          BY <5>1, <5>2 DEF Fates, HasNoEffect, bookVars
      <4> QED
        BY <3>1, <4>1, <4>2 DEF NoEffect
    <3> QED
      BY <1>2, <2>1, <3>1, <3>2
  <2>2. CASE ~Write(c)
    <3>1. at'[c] = at[c] /\ pc[c] = "record" /\ got'[c] = got[c]
      BY <1>5, <2>2, RecordFrom
    <3>2. sends[at[c]] = 1 /\ at[c] \in Keys
      BY <1>0, <3>1 DEF EffectInv, CallSteps
    <3>3. ~ \E d \in Callers : Write(d) /\ at[d] = at[c]
      BY <1>2, <3>2
    <3>4. sends'[at[c]] = sends[at[c]]
      BY <1>0, <1>2, <3>2, <3>3, SendsFrom
    <3> QED
      BY <1>1, <3>1, <3>2, <3>3, <3>4 DEF EffectInv
  <2> QED
    BY <2>1, <2>2
<1> QED
  BY <1>3, <1>4, <1>5 DEF EffectInv

LEMMA EffectInit ==
  ASSUME Init
  PROVE  EffectInv
BY DEF Init, EffectInv, NoEffect

LEMMA EffectImplies ==
  ASSUME SendInv, EffectInv
  PROVE  RefusedMeansNoEffect
BY DEF SendInv, EffectInv, NoEffect, Unsent, RefusedMeansNoEffect

GatewayInv == TypeOK /\ AtOK /\ SendInv /\ EffectInv

LEMMA GatewayStep ==
  ASSUME GatewayInv, [Next]_vars
  PROVE  GatewayInv'
BY TypeNext, SendStep, EffectStep DEF GatewayInv

LEMMA GatewayCorrect == Spec => []GatewayInv
<1>1. Init => GatewayInv
  BY TypeInit, AtInit, SendInit, EffectInit DEF GatewayInv
<1> QED
  BY <1>1, GatewayStep, PTL DEF Spec

\* A write the database calls reserved, blocked or rejected has had no effect
\* and will have none.
THEOREM RefusedTheorem == Spec => []RefusedMeansNoEffect
<1>1. GatewayInv => RefusedMeansNoEffect
  BY EffectImplies DEF GatewayInv
<1> QED
  BY <1>1, GatewayCorrect, PTL

-----------------------------------------------------------------------------
(* Two closes authorized by the same position.                             *)

\* A close past the look for others: at most one is.
Cleared(k) ==
  \/ status[k] \in InDoubt
  \/ status[k] = "reserved" /\ \E c \in Callers : pc[c] = "authorize" /\ at[c] = k

\* A close that may still fill.
Loose(k) == k \in late \/ \E c \in Callers : pc[c] = "write" /\ at[c] = k

CloseInv ==
  /\ \A k, l \in CloseKeys : Cleared(k) /\ Cleared(l) => k = l
  /\ \A k \in CloseKeys : k \in late => status[k] \in InDoubt
  /\ \A c \in Callers :
       /\ pc[c] = "write" /\ at[c] \in CloseKeys => status[at[c]] = "submitting"
       /\ pc[c] \in {"check", "authorize"} => status[at[c]] # "absent"
  /\ \A k \in Keys : basis[k] <= version
  /\ \A k \in filled : basis[k] < version
  /\ \A k \in filled, l \in CloseKeys : Loose(l) /\ l # k => basis[l] # basis[k]
  /\ CloseOnce

LEMMA CloseInit ==
  ASSUME Init
  PROVE  CloseInv
<1>1. \A k \in Keys : status[k] = "absent" /\ basis[k] = 0
  BY DEF Init
<1>2. late = {} /\ filled = {} /\ version = 1 /\ \A c \in Callers : pc[c] = "idle"
  BY DEF Init
<1>3. \A k \in CloseKeys : ~Cleared(k)
  BY <1>1 DEF Cleared, InDoubt, Keys
<1> QED
  BY <1>1, <1>2, <1>3 DEF CloseInv, CloseOnce

\* A step after which no close is nearer to its fill.
CloseQuiet ==
  /\ UNCHANGED <<basis, filled>>
  /\ late' \subseteq late /\ version' \in Nat /\ version <= version'
  /\ \A k \in Keys : status'[k] # "absent" \/ status[k] = "absent"
  /\ \A k \in CloseKeys : Cleared(k)' => Cleared(k)
  /\ \A k \in CloseKeys : k \in late' => status'[k] \in InDoubt
  /\ \A c \in Callers : pc'[c] \in {"write", "check", "authorize"} => at'[c] \in Keys
  /\ \A c \in Callers : pc'[c] = "write" => pc[c] = "write" /\ at'[c] = at[c]
                                            /\ (at[c] \in CloseKeys => status'[at[c]] = status[at[c]])
  /\ \A c \in Callers :
       pc'[c] \in {"check", "authorize"} => pc[c] = pc'[c] /\ at'[c] = at[c]

LEMMA CloseQuietStep ==
  ASSUME TypeOK, CloseInv, CloseQuiet
  PROVE  CloseInv'
<1>0. filled \subseteq Keys /\ version \in Nat /\ basis \in [Keys -> Nat]
      /\ CloseKeys \subseteq Keys
  BY DEF TypeOK, VenueOK, IntentOK, Keys
<1>1. \A k, l \in CloseKeys : Cleared(k)' /\ Cleared(l)' => k = l
  BY DEF CloseInv, CloseQuiet
<1>2. \A k \in Keys : basis'[k] <= version'
  BY <1>0 DEF CloseInv, CloseQuiet
<1>3. \A k \in filled' : basis'[k] < version'
  BY <1>0 DEF CloseInv, CloseQuiet
<1>4. \A l : Loose(l)' => Loose(l)
  BY DEF CloseQuiet, Loose
<1>5. \A k \in filled', l \in CloseKeys : Loose(l)' /\ l # k => basis'[l] # basis'[k]
  BY <1>4 DEF CloseInv, CloseQuiet
<1>6. CloseOnce'
  BY DEF CloseInv, CloseQuiet, CloseOnce
<1>7. \A c \in Callers :
       /\ pc'[c] = "write" /\ at'[c] \in CloseKeys => status'[at'[c]] = "submitting"
       /\ pc'[c] \in {"check", "authorize"} => status'[at'[c]] # "absent"
  BY DEF CloseInv, CloseQuiet
<1>8. \A k \in CloseKeys : k \in late' => status'[k] \in InDoubt
  BY DEF CloseQuiet
<1> QED
  BY <1>1, <1>2, <1>3, <1>5, <1>6, <1>7, <1>8 DEF CloseInv

LEMMA CloseQuietRuns ==
  ASSUME GatewayInv, CloseInv, NEW r \in Runs, RunStep(r)
  PROVE  CloseQuiet
<1> USE DEF GatewayInv
<1>1. /\ UNCHANGED <<basis, filled, late, version>>
      /\ \/ status' = status
         \/ \E k \in SetKeys :
              status[k] = "submitted" /\ status' = [status EXCEPT ![k] = "confirmed"]
  BY RunStepFrame DEF RunFrame, venueVars
<1>2. \A c \in Callers : pc'[c] \in {"write", "check", "authorize"} =>
        pc'[c] = pc[c] /\ at'[c] = at[c]
  BY RunStepFrame DEF RunFrame, RunSteps, TypeOK, CallerOK
<1>3. \A k \in CloseKeys : k \in Keys /\ status'[k] = status[k]
  BY <1>1, KeysApart DEF TypeOK, IntentOK, Keys
<1>4. \A k \in Keys : status'[k] # "absent" \/ status[k] = "absent"
  BY <1>1 DEF TypeOK, IntentOK
<1>5. \A k \in CloseKeys : Cleared(k)' => Cleared(k)
  BY <1>2, <1>3 DEF Cleared
<1>6. version \in Nat /\ \A c \in Callers : pc[c] \in {"write", "check", "authorize"} => at[c] \in Keys
  BY DEF TypeOK, VenueOK, AtOK, CallSteps
<1>7. \A k \in CloseKeys : k \in late' => status'[k] \in InDoubt
  BY <1>1, <1>3 DEF CloseInv
<1> QED
  BY <1>1, <1>2, <1>3, <1>4, <1>5, <1>6, <1>7 DEF CloseQuiet

LEMMA CloseQuietRecord ==
  ASSUME GatewayInv, CloseInv, NEW c \in Callers, Record(c)
  PROVE  CloseQuiet
<1> USE DEF GatewayInv
<1>1. /\ UNCHANGED <<basis, filled, late, version, at>>
      /\ pc[c] = "record" /\ pc' = [pc EXCEPT ![c] = "answered"]
      /\ \/ status' = status
         \/ /\ status[at[c]] = "submitting"
            /\ status' = [status EXCEPT ![at[c]] = got[c]]
  BY DEF Record, Moved, Answered, venueVars
<1>2. at[c] \in Keys /\ sends[at[c]] = 1 /\ version \in Nat
      /\ got[c] \in {"submitted", "rejected", "recovery_required"}
      /\ (got[c] = "rejected" => at[c] \notin late)
  BY <1>1 DEF AtOK, CallSteps, EffectInv, NoEffect, TypeOK, VenueOK
<1>3. \A d \in Callers : pc'[d] \in {"write", "check", "authorize"} =>
        pc'[d] = pc[d] /\ at'[d] = at[d]
  BY <1>1 DEF TypeOK, CallerOK
<1>4. \A d \in Callers : pc[d] = "write" => at[d] # at[c]
  BY <1>2 DEF SendInv
<1>5. \A k \in Keys : k # at[c] => status'[k] = status[k]
  BY <1>1, <1>2 DEF TypeOK, IntentOK
<1>6. \/ status'[at[c]] = status[at[c]]
      \/ /\ status[at[c]] = "submitting"
         /\ status'[at[c]] \in {"submitted", "rejected", "recovery_required"}
         /\ status'[at[c]] = "rejected" => at[c] \notin late
  BY <1>1, <1>2 DEF TypeOK, IntentOK
<1>7. \A k \in CloseKeys : Cleared(k)' => Cleared(k)
  BY <1>1, <1>3, <1>5, <1>6 DEF Cleared, InDoubt, Keys
<1>8. \A k \in CloseKeys : k \in late' => status'[k] \in InDoubt
  BY <1>1, <1>5, <1>6 DEF CloseInv, Keys, InDoubt
<1>9. \A k \in Keys : status'[k] # "absent" \/ status[k] = "absent"
  BY <1>5, <1>6
<1>10. \A d \in Callers : pc[d] \in {"write", "check", "authorize"} => at[d] \in Keys
  BY DEF AtOK, CallSteps
<1> QED
  BY <1>1, <1>2, <1>3, <1>4, <1>5, <1>7, <1>8, <1>9, <1>10 DEF CloseQuiet

LEMMA CloseQuietReconcile ==
  ASSUME GatewayInv, CloseInv, Reconcile
  PROVE  CloseQuiet
<1> USE DEF GatewayInv
<1>1. UNCHANGED <<basis, filled, late, version, at, pc>>
  BY DEF Reconcile, venueVars
<1>2. \A k \in CloseKeys : ~SetProven(k) /\ ~CancelProven(k)
  BY KeysApart DEF SetProven, CancelProven, CancelKeys
<1>3. \A k \in CloseKeys : k \in Keys /\
        \/ status'[k] = status[k]
        \/ CloseEnded(k) /\ status'[k] \in {"confirmed", "rejected"}
  BY <1>2 DEF Reconcile, Keys
<1>4. \A k \in Keys : status'[k] \in {"confirmed", "rejected", status[k]}
  BY DEF Reconcile
<1>5. \A k \in CloseKeys : Cleared(k)' => Cleared(k)
  BY <1>1, <1>3 DEF Cleared, InDoubt
<1>6. \A k \in CloseKeys : k \in late' => status'[k] \in InDoubt
  BY <1>1, <1>3 DEF CloseInv, CloseEnded
<1>7. ASSUME NEW d \in Callers, pc[d] = "write", at[d] \in CloseKeys
      PROVE  status'[at[d]] = status[at[d]]
  <2>1. sends[at[d]] = 0
    BY <1>7 DEF SendInv
  <2> QED
    BY <1>3, <1>7, <2>1 DEF CloseEnded
<1>8. version \in Nat /\ \A c \in Callers : pc[c] \in {"write", "check", "authorize"} => at[c] \in Keys
  BY DEF TypeOK, VenueOK, AtOK, CallSteps
<1> QED
  BY <1>1, <1>4, <1>5, <1>6, <1>7, <1>8 DEF CloseQuiet

LEMMA CloseQuietRest ==
  ASSUME GatewayInv, CloseInv,
         \/ \E c \in Closers : StartClose(c)
         \/ TakeSnapshot \/ Fill \/ PositionEnds \/ Dies \/ UNCHANGED vars
  PROVE  CloseQuiet
<1> USE DEF GatewayInv
<1>1. UNCHANGED <<basis, filled, late, status>>
  BY DEF StartClose, TakeSnapshot, Fill, PositionEnds, Dies, Crash, vars,
         venueVars, intentVars
<1>2. version \in Nat /\ version' \in Nat /\ version <= version'
  BY DEF StartClose, TakeSnapshot, Fill, PositionEnds, Dies, Crash, vars,
         venueVars, intentVars, TypeOK, VenueOK
<1>3. \A c \in Callers : pc'[c] \in {"write", "check", "authorize"} =>
        pc'[c] = pc[c] /\ at'[c] = at[c]
  <2> DOMAIN pc = Callers /\ DOMAIN at = Callers
    BY DEF TypeOK, CallerOK
  <2>1. ASSUME NEW d \in Closers, StartClose(d), NEW c \in Callers,
               pc'[c] \in {"write", "check", "authorize"}
        PROVE  pc'[c] = pc[c] /\ at'[c] = at[c]
    BY <2>1 DEF StartClose, Goes
  <2> QED
    BY <2>1 DEF TakeSnapshot, Fill, PositionEnds, Dies, Crash, vars
<1>4. \A c \in Callers : pc[c] \in {"write", "check", "authorize"} => at[c] \in Keys
  BY DEF AtOK, CallSteps
<1>5. \A k \in CloseKeys : Cleared(k)' => Cleared(k)
  BY <1>1, <1>3 DEF Cleared
<1>6. \A k \in CloseKeys : k \in late' => status'[k] \in InDoubt
  BY <1>1 DEF CloseInv
<1> QED
  BY <1>1, <1>2, <1>3, <1>4, <1>5, <1>6 DEF CloseQuiet

LEMMA CloseReserve ==
  ASSUME GatewayInv, CloseInv, NEW c \in Callers, Reserve(c)
  PROVE  CloseInv'
<1> USE DEF GatewayInv
<1> DEFINE k0 == at[c]
<1>0. k0 \in Keys /\ CloseKeys \subseteq Keys /\ version \in Nat
      /\ DOMAIN status = Keys /\ basis \in [Keys -> Nat] /\ DOMAIN pc = Callers
      /\ filled \subseteq Keys
      /\ \A d \in Callers : pc[d] \in {"write", "check", "authorize"} => at[d] \in Keys
  BY DEF Reserve, AtOK, CallSteps, TypeOK, IntentOK, VenueOK, CallerOK, Keys
<1>1. /\ UNCHANGED <<filled, late, version, at>>
      /\ pc[c] = "reserve"
      /\ pc' = [pc EXCEPT ![c] = pc'[c]]
      /\ pc'[c] \in {"answered", AfterReserve(k0)}
  BY <1>0 DEF Reserve, Answered, Goes, venueVars
<1>2. \/ UNCHANGED <<status, basis>>
      \/ /\ status[k0] = "absent"
         /\ status' = [status EXCEPT ![k0] = "reserved"]
         /\ basis' = [basis EXCEPT ![k0] = version]
  BY DEF Reserve
<1>3. pc'[c] = "authorize" => k0 \notin CloseKeys
  BY <1>1 DEF AfterReserve
<1>4. \A k \in CloseKeys : Cleared(k)' => Cleared(k)
  <2> SUFFICES ASSUME NEW k \in CloseKeys, Cleared(k)' PROVE Cleared(k)
    OBVIOUS
  <2>1. \/ status'[k] = status[k]
        \/ k = k0 /\ status[k] = "absent" /\ status'[k] = "reserved"
    <3>1. k \in Keys
      BY <1>0
    <3>2. CASE k = k0
      BY <1>0, <1>2, <3>1, <3>2
    <3>3. CASE k # k0
      BY <1>0, <1>2, <3>1, <3>3
    <3> QED
      BY <3>2, <3>3
  <2>2. CASE status'[k] \in InDoubt
    BY <2>1, <2>2 DEF Cleared, InDoubt
  <2>3. CASE status'[k] = "reserved" /\ \E d \in Callers : pc'[d] = "authorize" /\ at'[d] = k
    <3>1. PICK d \in Callers : pc'[d] = "authorize" /\ at'[d] = k
      BY <2>3
    <3>2. d # c
      BY <1>1, <1>3, <3>1
    <3>3. pc[d] = "authorize" /\ at[d] = k
      BY <1>0, <1>1, <3>1, <3>2
    <3>4. status[k] # "absent"
      BY <3>3 DEF CloseInv
    <3> QED
      BY <2>1, <2>3, <3>3, <3>4 DEF Cleared
  <2> QED
    BY <2>2, <2>3 DEF Cleared
<1>5. ASSUME status[k0] = "absent"
      PROVE  /\ k0 \notin filled /\ k0 \notin late /\ ~Loose(k0)
             /\ \A d \in Callers : pc[d] \in {"write", "check", "authorize"} => at[d] # k0
  <2>1. sends[k0] = 0 /\ NoEffect(k0)
    BY <1>0, <1>5 DEF SendInv, EffectInv, Unsent
  <2>2. \A d \in Callers : pc[d] \in {"write", "check", "authorize"} => at[d] # k0
    BY <1>0, <1>5 DEF SendInv, CloseInv, Unsent
  <2> QED
    BY <2>1, <2>2 DEF NoEffect, Loose
<1>6. \A k \in Keys : basis'[k] \in {basis[k], version}
                      /\ (status[k] # "absent" => basis'[k] = basis[k])
  BY <1>0, <1>2
<1>7. \A k \in Keys : basis'[k] <= version'
  BY <1>0, <1>1, <1>6 DEF CloseInv
<1>8. \A k \in filled : basis'[k] = basis[k]
  BY <1>0, <1>2, <1>5
<1>9. \A l \in CloseKeys : Loose(l)' => Loose(l) /\ basis'[l] = basis[l]
  <2> SUFFICES ASSUME NEW l \in CloseKeys, Loose(l)' PROVE Loose(l) /\ basis'[l] = basis[l]
    OBVIOUS
  <2>1. Loose(l)
    BY <1>0, <1>1 DEF Loose, AfterReserve
  <2>2. basis'[l] = basis[l]
    BY <1>0, <1>2, <1>5, <2>1
  <2> QED
    BY <2>1, <2>2
<1>10. \A d \in Callers :
       /\ pc'[d] = "write" /\ at'[d] \in CloseKeys => status'[at'[d]] = "submitting"
       /\ pc'[d] \in {"check", "authorize"} => status'[at'[d]] # "absent"
  <2> SUFFICES ASSUME NEW d \in Callers
               PROVE  /\ pc'[d] = "write" /\ at[d] \in CloseKeys => status'[at[d]] = "submitting"
                      /\ pc'[d] \in {"check", "authorize"} => status'[at[d]] # "absent"
    BY <1>1
  <2>1. CASE d # c
    BY <1>0, <1>1, <1>2, <1>5, <2>1 DEF CloseInv
  <2>2. CASE d = c
    <3>1. pc'[c] # "write"
      BY <1>1 DEF AfterReserve
    <3>2. pc'[c] \in {"check", "authorize"} => status'[k0] # "absent"
      BY <1>0 DEF Reserve, Answered, Goes
    <3> QED
      BY <2>2, <3>1, <3>2
  <2> QED
    BY <2>1, <2>2
<1>11. \A k \in CloseKeys : k \in late' => status'[k] \in InDoubt
  BY <1>0, <1>1, <1>2, <1>5 DEF CloseInv
<1>12. \A k \in filled' : basis'[k] < version'
  BY <1>1, <1>8 DEF CloseInv
<1>13. \A k \in filled', l \in CloseKeys : Loose(l)' /\ l # k => basis'[l] # basis'[k]
  BY <1>1, <1>8, <1>9 DEF CloseInv
<1>14. CloseOnce'
  BY <1>1, <1>8 DEF CloseInv, CloseOnce
<1> QED
  BY <1>4, <1>7, <1>10, <1>11, <1>12, <1>13, <1>14 DEF CloseInv

LEMMA CloseCheck ==
  ASSUME GatewayInv, CloseInv, NEW c \in Callers, CheckOthers(c)
  PROVE  CloseInv'
<1> USE DEF GatewayInv
<1>0. /\ at[c] \in Keys /\ CloseKeys \subseteq Keys
      /\ DOMAIN status = Keys /\ DOMAIN pc = Callers
      /\ \A d \in Callers : pc[d] \in {"write", "check", "authorize"} => at[d] \in Keys
  BY DEF CheckOthers, AtOK, CallSteps, TypeOK, IntentOK, CallerOK, Keys
<1>1. /\ UNCHANGED <<filled, late, version, at, basis>> /\ pc[c] = "check"
      /\ \/ /\ OtherClose(at[c]) /\ pc' = [pc EXCEPT ![c] = "answered"]
            /\ \/ UNCHANGED status
               \/ status[at[c]] = "reserved" /\ status' = [status EXCEPT ![at[c]] = "blocked"]
         \/ /\ ~OtherClose(at[c]) /\ pc' = [pc EXCEPT ![c] = "authorize"]
            /\ UNCHANGED status
  BY DEF CheckOthers, Moved, Answered, Goes, venueVars
<1>2. CASE OtherClose(at[c])
  <2>1. \A k \in Keys : status'[k] = status[k] \/ (k = at[c] /\ status[k] = "reserved"
                                                    /\ status'[k] = "blocked")
    BY <1>0, <1>1, <1>2
  <2>2. \A d \in Callers : pc'[d] \in {"write", "check", "authorize"} => pc'[d] = pc[d]
    BY <1>0, <1>1, <1>2
  <2>3. \A k \in CloseKeys : Cleared(k)' => Cleared(k)
    BY <1>0, <1>1, <2>1, <2>2 DEF Cleared, InDoubt
  <2>4. \A d \in Callers : pc[d] = "write" /\ at[d] \in CloseKeys => status'[at[d]] = status[at[d]]
    BY <1>0, <2>1 DEF CloseInv
  <2>5. \A k \in CloseKeys : k \in late => status'[k] \in InDoubt
    BY <1>0, <2>1 DEF CloseInv, InDoubt
  <2>6. CloseQuiet
    BY <1>0, <1>1, <2>1, <2>2, <2>3, <2>4, <2>5 DEF CloseQuiet, TypeOK, VenueOK
  <2> QED
    BY <2>6, CloseQuietStep
<1>3. CASE ~OtherClose(at[c])
  <2>1. \A d \in Callers : d # c => pc'[d] = pc[d]
    BY <1>0, <1>1
  <2>2. UNCHANGED <<status, filled, late, version, at, basis>> /\ pc'[c] = "authorize"
    BY <1>0, <1>1, <1>3
  <2>3. \A k \in CloseKeys : Cleared(k)' => Cleared(k) \/ k = at[c]
    BY <2>1, <2>2 DEF Cleared
  <2>4. \A l \in CloseKeys : l # at[c] => ~Cleared(l)
    BY <1>3 DEF OtherClose, Cleared, Unresolved
  <2>5. \A k, l \in CloseKeys : Cleared(k)' /\ Cleared(l)' => k = l
    BY <2>3, <2>4 DEF CloseInv
  <2>6. ASSUME at[c] \in Keys, status[at[c]] = "absent" PROVE FALSE
    BY <1>1, <2>6 DEF CloseInv
  <2>7. \A l : Loose(l)' => Loose(l)
    BY <2>1, <2>2 DEF Loose
  <2> QED
    BY <1>0, <2>1, <2>2, <2>5, <2>6, <2>7 DEF CloseInv, CloseOnce
<1> QED
  BY <1>2, <1>3

LEMMA CloseAuthorize ==
  ASSUME GatewayInv, CloseInv, NEW c \in Callers, Authorize(c)
  PROVE  CloseInv'
<1> USE DEF GatewayInv
<1>0. /\ at[c] \in Keys /\ CloseKeys \subseteq Keys /\ pc[c] = "authorize"
      /\ DOMAIN status = Keys /\ DOMAIN pc = Callers
      /\ basis \in [Keys -> Nat] /\ filled \subseteq CloseKeys
      /\ \A d \in Callers : pc[d] \in {"write", "check", "authorize"} => at[d] \in Keys
  BY DEF Authorize, AtOK, CallSteps, TypeOK, IntentOK, CallerOK, VenueOK, Keys
<1>1. UNCHANGED <<filled, late, version, at, basis>>
  BY DEF Authorize, venueVars
<1>2. \/ /\ StillAuthorized(at[c]) /\ status[at[c]] = "reserved"
         /\ status' = [status EXCEPT ![at[c]] = "submitting"]
         /\ pc' = [pc EXCEPT ![c] = "write"]
      \/ /\ pc' = [pc EXCEPT ![c] = "answered"]
         /\ \/ UNCHANGED status
            \/ status[at[c]] = "reserved" /\ status' = [status EXCEPT ![at[c]] = "blocked"]
  BY DEF Authorize, Moved, Answered, Goes
<1>3. CASE /\ pc' = [pc EXCEPT ![c] = "answered"]
           /\ \/ UNCHANGED status
              \/ status[at[c]] = "reserved" /\ status' = [status EXCEPT ![at[c]] = "blocked"]
  <2>1. \A k \in Keys : status'[k] = status[k] \/ (k = at[c] /\ status[k] = "reserved"
                                                    /\ status'[k] = "blocked")
    BY <1>0, <1>3
  <2>2. \A d \in Callers : pc'[d] \in {"write", "check", "authorize"} => pc'[d] = pc[d]
    BY <1>0, <1>3
  <2>3. \A k \in CloseKeys : Cleared(k)' => Cleared(k)
    BY <1>0, <1>1, <2>1, <2>2 DEF Cleared, InDoubt
  <2>4. \A d \in Callers : pc[d] = "write" /\ at[d] \in CloseKeys => status'[at[d]] = status[at[d]]
    BY <1>0, <2>1 DEF CloseInv
  <2>5. \A k \in CloseKeys : k \in late => status'[k] \in InDoubt
    BY <1>0, <2>1 DEF CloseInv, InDoubt
  <2>6. CloseQuiet
    BY <1>0, <1>1, <2>1, <2>2, <2>3, <2>4, <2>5 DEF CloseQuiet, TypeOK, VenueOK
  <2> QED
    BY <2>6, CloseQuietStep
<1>4. CASE /\ StillAuthorized(at[c]) /\ status[at[c]] = "reserved"
           /\ status' = [status EXCEPT ![at[c]] = "submitting"]
           /\ pc' = [pc EXCEPT ![c] = "write"]
  <2>1. version = basis[at[c]]
    BY <1>4 DEF StillAuthorized
  <2>2. \A k \in Keys : k # at[c] => status'[k] = status[k]
    BY <1>0, <1>4
  <2>3. status'[at[c]] = "submitting" /\ pc'[c] = "write"
        /\ \A d \in Callers : d # c => pc'[d] = pc[d]
    BY <1>0, <1>4
  <2>4. \A k \in CloseKeys : Cleared(k)' => Cleared(k)
    BY <1>0, <1>1, <1>4, <2>2, <2>3 DEF Cleared, InDoubt
  <2>5. \A k, l \in CloseKeys : Cleared(k)' /\ Cleared(l)' => k = l
    BY <2>4 DEF CloseInv
  <2>6. \A k \in CloseKeys : k \in late' => status'[k] \in InDoubt
    BY <1>0, <1>1, <2>2, <2>3 DEF CloseInv, InDoubt
  <2>7. \A d \in Callers :
          /\ pc'[d] = "write" /\ at'[d] \in CloseKeys => status'[at'[d]] = "submitting"
          /\ pc'[d] \in {"check", "authorize"} => status'[at'[d]] # "absent"
    BY <1>0, <1>1, <2>2, <2>3 DEF CloseInv
  <2>8. \A l : Loose(l)' => Loose(l) \/ l = at[c]
    BY <1>1, <2>3 DEF Loose
  <2>9. \A k \in filled : basis[k] # basis[at[c]]
    BY <1>0, <2>1 DEF CloseInv, Keys
  <2>10. \A k \in filled', l \in CloseKeys : Loose(l)' /\ l # k => basis'[l] # basis'[k]
    BY <1>1, <2>8, <2>9 DEF CloseInv
  <2> QED
    BY <1>0, <1>1, <2>5, <2>6, <2>7, <2>10 DEF CloseInv, CloseOnce
<1> QED
  BY <1>2, <1>3, <1>4

\* What a fill of one close does to the others: it is the only cleared one.
LEMMA CloseFills ==
  ASSUME GatewayInv, CloseInv, NEW k0 \in Keys,
         Loose(k0), TakesEffect(k0), UNCHANGED <<status, basis, at>>,
         late' \subseteq late,
         \A c \in Callers : pc'[c] \in {"write", "check", "authorize"} => pc'[c] = pc[c]
  PROVE  CloseInv'
<1> USE DEF GatewayInv
<1>0. /\ CloseKeys \subseteq Keys /\ version \in Nat /\ basis \in [Keys -> Nat]
      /\ filled \subseteq CloseKeys
      /\ \A c \in Callers : pc[c] \in {"write", "check", "authorize"} => at[c] \in Keys
  BY DEF TypeOK, VenueOK, IntentOK, Keys, AtOK, CallSteps
<1>1. \A k \in CloseKeys : Cleared(k)' => Cleared(k)
  BY DEF Cleared
<1>2. \A k \in CloseKeys : k \in late' => status'[k] \in InDoubt
  BY DEF CloseInv
<1>3. \A c \in Callers :
        /\ pc'[c] = "write" /\ at'[c] \in CloseKeys => status'[at'[c]] = "submitting"
        /\ pc'[c] \in {"check", "authorize"} => status'[at'[c]] # "absent"
  BY DEF CloseInv
<1>4. \A l : Loose(l)' => Loose(l)
  BY DEF Loose
<1>5. CASE filled' = filled /\ version' = version
  <2>1. CloseQuiet
    BY <1>0, <1>1, <1>2, <1>5 DEF CloseQuiet
  <2> QED
    BY <2>1, CloseQuietStep
<1>6. CASE k0 \in CloseKeys /\ filled' = filled \cup {k0} /\ version' = version + 1
  <2>1. \A l \in CloseKeys : Loose(l) => Cleared(l)
    BY DEF Loose, Cleared, CloseInv, InDoubt
  <2>2. \A l \in CloseKeys : Loose(l) => l = k0
    BY <1>6, <2>1 DEF CloseInv
  <2>3. \A k \in filled : k # k0 => basis[k] # basis[k0]
    BY <1>6 DEF CloseInv
  <2>4. CloseOnce'
    BY <1>6, <2>3 DEF CloseInv, CloseOnce
  <2>5. \A k \in Keys : basis'[k] <= version'
    BY <1>0, <1>6 DEF CloseInv
  <2>6. \A k \in filled' : basis'[k] < version'
    BY <1>0, <1>6 DEF CloseInv
  <2>7. \A k \in filled', l \in CloseKeys : Loose(l)' /\ l # k => basis'[l] # basis'[k]
    BY <1>0, <1>4, <1>6, <2>2, <2>3
  <2> QED
    BY <1>1, <1>2, <1>3, <2>4, <2>5, <2>6, <2>7 DEF CloseInv
<1> QED
  BY <1>5, <1>6 DEF TakesEffect

LEMMA CloseWrite ==
  ASSUME GatewayInv, CloseInv, NEW c \in Callers, Write(c)
  PROVE  CloseInv'
<1> USE DEF GatewayInv
<1>0. /\ at[c] \in Keys /\ CloseKeys \subseteq Keys /\ pc[c] = "write"
      /\ DOMAIN pc = Callers
      /\ \A d \in Callers : pc[d] \in {"write", "check", "authorize"} => at[d] \in Keys
  BY DEF Write, AtOK, CallSteps, TypeOK, CallerOK, Keys
<1>1. /\ UNCHANGED <<status, basis, at>> /\ pc' = [pc EXCEPT ![c] = "record"]
      /\ \/ TakesEffect(at[c]) /\ late' = late
         \/ /\ UNCHANGED <<version, filled>>
            /\ late' \subseteq late \cup {at[c]}
  BY DEF Write, intentVars, HasNoEffect, Fates
<1>2. \A d \in Callers : pc'[d] \in {"write", "check", "authorize"} => pc'[d] = pc[d]
  BY <1>0, <1>1
<1>3. CASE TakesEffect(at[c]) /\ late' = late
  <2>1. Loose(at[c])
    BY <1>0 DEF Loose
  <2> QED
    BY <1>0, <1>1, <1>2, <1>3, <2>1, CloseFills
<1>4. CASE /\ UNCHANGED <<version, filled>>
           /\ late' \subseteq late \cup {at[c]}
  <2>1. \A k \in CloseKeys : Cleared(k)' => Cleared(k)
    BY <1>1, <1>2 DEF Cleared
  <2>2. \A k \in CloseKeys : k \in late' => status'[k] \in InDoubt
    BY <1>0, <1>1, <1>4 DEF CloseInv, InDoubt
  <2>3. \A d \in Callers :
          /\ pc'[d] = "write" /\ at'[d] \in CloseKeys => status'[at'[d]] = "submitting"
          /\ pc'[d] \in {"check", "authorize"} => status'[at'[d]] # "absent"
    BY <1>1, <1>2 DEF CloseInv
  <2>4. \A l : Loose(l)' => Loose(l)
    BY <1>0, <1>1, <1>2, <1>4 DEF Loose
  <2>5. \A k, l \in CloseKeys : Cleared(k)' /\ Cleared(l)' => k = l
    BY <2>1 DEF CloseInv
  <2> QED
    BY <1>1, <1>4, <2>2, <2>3, <2>4, <2>5 DEF CloseInv, CloseOnce
<1> QED
  BY <1>1, <1>3, <1>4

LEMMA CloseLands ==
  ASSUME GatewayInv, CloseInv, NEW k \in late, Lands(k)
  PROVE  CloseInv'
<1>1. /\ k \in Keys /\ Loose(k) /\ TakesEffect(k)
      /\ UNCHANGED <<status, basis, at, pc>> /\ late' \subseteq late
  BY DEF Lands, Loose, intentVars, GatewayInv, TypeOK, VenueOK
<1> QED
  BY <1>1, CloseFills

LEMMA CloseStep ==
  ASSUME GatewayInv, CloseInv, [Next]_vars
  PROVE  CloseInv'
<1> USE DEF GatewayInv
<1>1. CASE \E r \in Runs : RunStep(r)
  BY <1>1, CloseQuietRuns, CloseQuietStep
<1>2. ASSUME NEW c \in Callers, CallStep(c) PROVE CloseInv'
  BY <1>2, CloseReserve, CloseCheck, CloseAuthorize, CloseWrite, CloseQuietRecord,
     CloseQuietStep DEF CallStep
<1>3. CASE EnvStep
  BY <1>3, CloseLands, CloseQuietReconcile, CloseQuietRest, CloseQuietStep DEF EnvStep
<1>4. CASE Dies \/ UNCHANGED vars
  BY <1>4, CloseQuietRest, CloseQuietStep
<1> QED
  BY <1>1, <1>2, <1>3, <1>4, NextCases

\* Two closes authorized by the same position never both fill.
THEOREM CloseOnceTheorem == Spec => []CloseOnce
<1>1. Init => CloseInv
  BY CloseInit
<1>2. GatewayInv /\ CloseInv /\ [Next]_vars => CloseInv'
  BY CloseStep
<1>3. CloseInv => CloseOnce
  BY DEF CloseInv
<1> QED
  BY <1>1, <1>2, <1>3, GatewayCorrect, PTL DEF Spec

-----------------------------------------------------------------------------
(* Orders.                                                                 *)

\* One step, seen from the orders there are: only their cancel or the end of the
\* position removes one, and a new one has a new number and a group.
BookStep ==
  /\ placed \in Nat /\ placed' \in Nat /\ placed <= placed' /\ (open' => open)
  /\ \A o \in 1..placed : grp'[o] = grp[o] /\ (o \in live' => o \in live)
  /\ live' \subseteq 1..placed'
  /\ \A k \in SetKeys :
       \/ made'[k] = made[k]
       \/ made'[k] = placed + 1 /\ grp'[placed + 1] = k[3]
  /\ \A o \in live : open' => \/ o \in live' \/ <<"cancel", o>> \in late
                              \/ \E c \in Callers : at[c] = <<"cancel", o>>
  /\ open' => \E x : live \ {x} \subseteq live'

LEMMA BookPlace ==
  ASSUME TypeOK, NEW k \in SetKeys, NEW lives \in BOOLEAN, Place(k, lives),
         UNCHANGED open
  PROVE  /\ BookStep /\ live \subseteq live'
         /\ \A l \in SetKeys : l # k => made'[l] = made[l]
<1>1. /\ placed' = placed + 1 /\ placed' \in Orders
      /\ grp' = [grp EXCEPT ![placed'] = k[3]]
      /\ live' \subseteq live \cup {placed'} /\ live \subseteq live'
      /\ made' = [made EXCEPT ![k] = placed']
  BY DEF Place
<1>2. /\ placed \in Nat /\ placed' \in Nat /\ placed < placed'
      /\ live \subseteq 1..placed /\ DOMAIN grp = Orders /\ DOMAIN made = SetKeys
      /\ 1..placed \subseteq Orders
  BY <1>1, BoundsAssumption DEF TypeOK, VenueOK, Orders
<1>3. \A o \in 1..placed : o # placed'
  BY <1>1, <1>2
<1>4. 1..placed \subseteq 1..placed' /\ placed' \in 1..placed'
  BY <1>1, <1>2
<1>5. \A o \in 1..placed : grp'[o] = grp[o] /\ (o \in live' => o \in live)
  BY <1>1, <1>2, <1>3
<1>6. live' \subseteq 1..placed'
  BY <1>1, <1>2, <1>4
<1>7. \A l \in SetKeys : made'[l] = made[l] \/ (l = k /\ made'[l] = placed'
                                                /\ grp'[placed'] = l[3])
  BY <1>1, <1>2
<1>8. \A l \in SetKeys : l # k => made'[l] = made[l]
  BY <1>1, <1>2
<1>9. \E x : live \ {x} \subseteq live'
  <2>1. live \ {0} \subseteq live'
    BY <1>1
  <2> QED
    BY <2>1
<1>10. BookStep
  BY <1>1, <1>2, <1>5, <1>6, <1>7, <1>9 DEF BookStep
<1> QED
  BY <1>1, <1>8, <1>10

LEMMA BookEffect ==
  ASSUME TypeOK, NEW k \in Keys, UNCHANGED open,
         TakesEffect(k) \/ \E accepted \in BOOLEAN : HasNoEffect(k, accepted),
         k \in late \/ \E c \in Callers : at[c] = k
  PROVE  BookStep
<1>0. /\ placed \in Nat /\ live \subseteq 1..placed
  BY BoundsAssumption DEF TypeOK, VenueOK, Orders
<1>1. CASE k \in SetKeys /\ \E lives \in BOOLEAN : Place(k, lives)
  BY <1>1, BookPlace
<1>2. CASE UNCHANGED bookVars
  BY <1>0, <1>2 DEF bookVars, BookStep
<1>3. ASSUME NEW o \in Orders, k = <<"cancel", o>>, live' = live \ {o},
             UNCHANGED <<placed, grp, px, made>>
      PROVE  BookStep
  <2>1. <<"cancel", o>> \in late \/ \E c \in Callers : at[c] = <<"cancel", o>>
    BY <1>3
  <2>2. \A q \in live : \/ q \in live' \/ <<"cancel", q>> \in late
                        \/ \E c \in Callers : at[c] = <<"cancel", q>>
    BY <1>3, <2>1
  <2>3. live' \subseteq live
    BY <1>3
  <2> QED
    <3>1. \A q \in 1..placed : grp'[q] = grp[q] /\ (q \in live' => q \in live)
      BY <1>3, <2>3
    <3>2. live' \subseteq 1..placed' /\ placed' = placed /\ made' = made
      BY <1>0, <1>3, <2>3
    <3> QED
      <4>1. live \ {o} \subseteq live'
        BY <1>3
      <4> QED
        BY <1>0, <2>2, <3>1, <3>2, <4>1 DEF BookStep
<1> QED
  BY <1>1, <1>2, <1>3 DEF TakesEffect, HasNoEffect

LEMMA BookSteps ==
  ASSUME TypeOK, AtOK, [Next]_vars
  PROVE  BookStep
<1>0. /\ placed \in Nat /\ live \subseteq 1..placed /\ late \subseteq Keys
  BY BoundsAssumption DEF TypeOK, VenueOK, Orders
<1>1. CASE UNCHANGED <<open, bookVars>>
  BY <1>0, <1>1 DEF bookVars, BookStep
<1>2. ASSUME NEW r \in Runs, RunStep(r) PROVE UNCHANGED <<open, bookVars>>
  BY <1>2, RunStepFrame DEF RunFrame, venueVars
<1>3. ASSUME NEW c \in Callers, CallStep(c) PROVE BookStep
  <2>1. CASE Write(c)
    <3>1. at[c] \in Keys /\ UNCHANGED open
      BY <2>1 DEF Write, AtOK, CallSteps
    <3>2. TakesEffect(at[c]) \/ \E accepted \in BOOLEAN : HasNoEffect(at[c], accepted)
      BY <2>1 DEF Write
    <3> QED
      BY <3>1, <3>2, BookEffect
  <2>2. CASE UNCHANGED venueVars
    BY <1>1, <2>2 DEF venueVars
  <2> QED
    BY <1>3, <2>1, <2>2, CallIntents
<1>4. ASSUME NEW k \in late, Lands(k) PROVE BookStep
  BY <1>0, <1>4, BookEffect DEF Lands
<1>5. CASE PositionEnds
  BY <1>0, <1>5 DEF PositionEnds, BookStep
<1>6. EnvStep \/ Dies \/ UNCHANGED vars =>
        (\E k \in late : Lands(k)) \/ PositionEnds \/ UNCHANGED <<open, bookVars>>
  BY DEF EnvStep, StartClose, TakeSnapshot, Reconcile, Fill, Dies, Crash, vars, venueVars
<1> QED
  BY <1>1, <1>2, <1>3, <1>4, <1>5, <1>6, NextCases

\* What a run replaces is fixed once it has started.
LEMMA OldFixed ==
  ASSUME TypeOK, AtOK, [Next]_vars, NEW r \in Runs
  PROVE  \/ old'[r] = old[r]
         \/ /\ pc[r] = "idle" /\ (Adjust(r) \/ Decide(r))
            /\ old'[r] \subseteq live
<1>0. DOMAIN old = Runs
  BY DEF TypeOK, RunOK
<1>1. ASSUME NEW q \in Runs, RunStep(q)
      PROVE  \/ UNCHANGED old
             \/ /\ pc[q] = "idle" /\ (Adjust(q) \/ Decide(q))
                /\ \E s \in SUBSET live : old' = [old EXCEPT ![q] = s]
  <2>1. CASE Adjust(q)
    BY <2>1 DEF Adjust
  <2>2. CASE Decide(q)
    BY <2>2, SMTT(60) DEF Decide
  <2>3. CASE ~Adjust(q) /\ ~Decide(q)
    BY <1>1, <2>3 DEF RunStep, Resolve, Resume, CallSet, SetAnswer, ReadSet,
       ConfirmSet, Scan, CancelNext, CancelAnswer, ProveGone, Retire, runVars
  <2> QED
    BY <2>1, <2>2, <2>3
<1>2. EnvStep \/ Dies \/ UNCHANGED vars \/ UNCHANGED runVars => UNCHANGED old
  BY DEF EnvStep, Dies, vars, runVars
<1> QED
  BY <1>0, <1>1, <1>2, NextCases

\* Statuses of order names.
OrderInv ==
  \A k \in SetKeys : order[k] # 0 => status[k] \in {"submitted", "confirmed"}

\* An order id, once there, stays.
LEMMA OrderMoves ==
  ASSUME TypeOK, AtOK, OrderInv, [Next]_vars, NEW k \in SetKeys
  PROVE  \/ order'[k] = order[k]
         \/ order[k] = 0 /\ status'[k] \in {"submitted", "confirmed"}
<1> USE DEF TypeOK, IntentOK
<1>1. ASSUME NEW r \in Runs, RunStep(r) PROVE UNCHANGED order
  BY <1>1, RunStepFrame DEF RunFrame
<1>2. ASSUME NEW c \in Callers, CallStep(c)
      PROVE  \/ order'[k] = order[k]
             \/ order[k] = 0 /\ status'[k] \in {"submitted", "confirmed"}
  <2>1. CASE Record(c)
    <3>1. \/ UNCHANGED order
          \/ /\ got[c] = "submitted" /\ status[at[c]] = "submitting"
             /\ status' = [status EXCEPT ![at[c]] = got[c]]
             /\ order' = [order EXCEPT ![at[c]] = made[at[c]]]
             /\ at[c] \in Keys
      BY <2>1 DEF Record, Moved, Keys
    <3> QED
      BY <3>1 DEF OrderInv, Keys
  <2>2. CASE ~Record(c)
    BY <1>2, <2>2 DEF CallStep, Reserve, CheckOthers, Authorize, Write, intentVars
  <2> QED
    BY <2>1, <2>2
<1>3. CASE Reconcile
  <2>0. k \in Keys
    BY DEF Keys
  <2>1. CASE SetProven(k)
    <3>1. status'[k] = "confirmed"
      BY <1>3, <2>0, <2>1 DEF Reconcile
    <3>2. ASSUME order[k] # 0 PROVE order'[k] = order[k]
      <4>1. Readback(k) = {order[k]}
        BY <2>1, <3>2 DEF SetProven, Readback
      <4>2. order'[k] = CHOOSE o \in Orders : o \in Readback(k)
        BY <1>3, <2>1 DEF Reconcile
      <4>3. order[k] \in Orders
        <5>1. order[k] \in snap
          BY <2>1, <3>2 DEF SetProven, Readback
        <5>2. snap \subseteq 1..placed /\ placed \in 1..MaxOrders
          BY DEF CallerOK, VenueOK, Orders
        <5> QED
          BY <5>1, <5>2, BoundsAssumption DEF Orders
      <4> QED
        BY <4>1, <4>2, <4>3
    <3> QED
      BY <3>1, <3>2
  <2>2. CASE ~SetProven(k)
    BY <1>3, <2>2 DEF Reconcile
  <2> QED
    BY <2>1, <2>2
<1>4. EnvStep \/ Dies \/ UNCHANGED vars => Reconcile \/ UNCHANGED order
  BY DEF EnvStep, StartClose, Lands, TakeSnapshot, Fill, PositionEnds, Dies, Crash,
         vars, intentVars
<1> QED
  BY <1>1, <1>2, <1>3, <1>4, NextCases

LEMMA SetSettles ==
  ASSUME TypeOK, AtOK, [Next]_vars, NEW k \in SetKeys,
         status[k] \in {"submitted", "confirmed"}
  PROVE  status'[k] \in {"submitted", "confirmed"}
<1>0. k \in Keys /\ k \notin CloseKeys /\ DOMAIN status = Keys
  BY KeysApart DEF Keys, TypeOK, IntentOK
<1>1. ASSUME NEW r \in Runs, RunStep(r)
      PROVE status'[k] \in {status[k], "confirmed"}
  BY <1>0, <1>1, RunStepFrame DEF RunFrame
<1>2. ASSUME NEW c \in Callers, CallStep(c) PROVE status'[k] = status[k]
  <2>1. CASE at[c] # k
    BY <1>0, <1>2, <2>1, CallStatus
  <2>2. CASE at[c] = k
    BY <1>2, <2>2 DEF CallStep, Reserve, CheckOthers, Authorize, Write, Record,
       Moved, intentVars
  <2> QED
    BY <2>1, <2>2
<1>3. Reconcile => status'[k] \in {status[k], "confirmed"}
  BY <1>0 DEF Reconcile, CloseEnded
<1>4. EnvStep \/ Dies \/ UNCHANGED vars => Reconcile \/ UNCHANGED status
  BY DEF EnvStep, StartClose, Lands, TakeSnapshot, Fill, PositionEnds, Dies, Crash,
         vars, intentVars
<1> QED
  BY <1>1, <1>2, <1>3, <1>4, NextCases

LEMMA OrderStep ==
  ASSUME TypeOK, AtOK, OrderInv, [Next]_vars
  PROVE  OrderInv'
BY SetSettles, OrderMoves DEF OrderInv

-----------------------------------------------------------------------------
(* Runs.                                                                   *)

\* A run's step leaves the other runs alone.
Apart(r) ==
  \A q \in Runs : q # r =>
    /\ pc'[q] = pc[q] /\ at'[q] = at[q] /\ got'[q] = got[q]
    /\ old'[q] = old[q] /\ work'[q] = work[q] /\ seen'[q] = seen[q]
    /\ todo'[q] = todo[q] /\ result'[q] = result[q]

LEMMA RunApart ==
  ASSUME NEW r \in Runs, TypeOK, AtOK, RunStep(r)
  PROVE  Apart(r)
<1>0. DOMAIN old = Runs /\ DOMAIN work = Runs /\ DOMAIN seen = Runs
      /\ DOMAIN todo = Runs /\ DOMAIN result = Runs /\ Runs \subseteq Callers
      /\ DOMAIN pc = Callers /\ DOMAIN at = Callers /\ DOMAIN got = Callers
  BY DEF TypeOK, RunOK, CallerOK, Callers
<1>1. \A q \in Runs : q # r => pc'[q] = pc[q] /\ at'[q] = at[q] /\ got'[q] = got[q]
  BY <1>0, RunStepFrame DEF RunFrame
<1> USE <1>0, <1>1 DEF Apart
<1>2. CASE Adjust(r)
  BY <1>2 DEF Adjust, Ends
<1>3. CASE Decide(r)
  BY <1>3 DEF Decide, Ends, goesOn
<1>4. CASE Resolve(r)
  BY <1>4 DEF Resolve, goesOn
<1>5. CASE Resume(r)
  BY <1>5 DEF Resume, goesOn
<1>6. CASE CallSet(r)
  BY <1>6 DEF CallSet, runVars
<1>7. CASE SetAnswer(r)
  BY <1>7 DEF SetAnswer, Ends, goesOn
<1>8. CASE ReadSet(r)
  BY <1>8 DEF ReadSet, Unproven, Ends, goesOn
<1>9. CASE ConfirmSet(r)
  BY <1>9 DEF ConfirmSet, Owned, GroupDone, Unproven, Ends, goesOn
<1>10. CASE Scan(r)
  BY <1>10, ZenonT(60) DEF Scan, FailsIncomplete, Ends, goesOn
<1>11. CASE CancelNext(r)
  BY <1>11 DEF CancelNext, FailsIncomplete, Ends, goesOn
<1>12. CASE CancelAnswer(r)
  BY <1>12 DEF CancelAnswer, FailsIncomplete, Ends, goesOn
<1>13. CASE ProveGone(r)
  BY <1>13 DEF ProveGone, FailsIncomplete, Ends, goesOn
<1>14. CASE Retire(r)
  BY <1>14 DEF Retire, GroupDone, Ends, goesOn
<1> QED
  BY <1>2, <1>3, <1>4, <1>5, <1>6, <1>7, <1>8, <1>9, <1>10, <1>11, <1>12,
     <1>13, <1>14 DEF RunStep

\* The same of everybody else's steps, seen from a run.
LEMMA OthersApart ==
  ASSUME TypeOK, AtOK, [Next]_vars, NEW q \in Runs
  PROVE  \/ RunStep(q)
         \/ /\ UNCHANGED <<old[q], work[q], seen[q], todo[q], result[q]>>
            /\ at'[q] = at[q]
            /\ \/ CallStep(q) /\ pc[q] \in CallSteps /\ pc'[q] \in CallSteps
               \/ pc'[q] = pc[q] /\ got'[q] = got[q]
         \/ Dies
<1>0. DOMAIN pc = Callers /\ DOMAIN at = Callers /\ DOMAIN got = Callers /\ q \in Callers
      /\ q \notin Closers
  BY BoundsAssumption DEF TypeOK, CallerOK, Callers
<1>1. ASSUME NEW r \in Runs, RunStep(r), r # q
      PROVE /\ UNCHANGED <<old[q], work[q], seen[q], todo[q], result[q]>>
            /\ at'[q] = at[q] /\ pc'[q] = pc[q] /\ got'[q] = got[q]
  BY <1>1, RunApart DEF Apart
<1>2. ASSUME NEW c \in Callers, CallStep(c), UNCHANGED runVars
      PROVE /\ UNCHANGED <<old[q], work[q], seen[q], todo[q], result[q]>>
            /\ at'[q] = at[q]
            /\ \/ CallStep(q) /\ pc[q] \in CallSteps /\ pc'[q] \in CallSteps
               \/ pc'[q] = pc[q] /\ got'[q] = got[q]
  BY <1>0, <1>2, CallStepFrame DEF CallFrame, runVars
<1>3. EnvStep \/ UNCHANGED vars =>
            /\ UNCHANGED <<old[q], work[q], seen[q], todo[q], result[q]>>
            /\ at'[q] = at[q] /\ pc'[q] = pc[q] /\ got'[q] = got[q]
  BY <1>0 DEF EnvStep, StartClose, Goes, Lands, TakeSnapshot, Reconcile, Fill,
         PositionEnds, vars, runVars
<1> QED
  BY <1>1, <1>2, <1>3, NextCases

\* A run's own step, seen from the run.
Ended(r) ==
  /\ pc'[r] = "ended" /\ at'[r] = <<"none">> /\ work'[r] = {} /\ todo'[r] = {}
  /\ result'[r] # "none"
  /\ result'[r] = "succeeded" =>
       /\ old'[r] = old[r] /\ work[r] \ {Group(r)} = {}
       /\ \/ pc[r] = "retire" /\ Group(r) = "stop"
          \/ pc[r] = "confirm" /\ Group(r) = "tp" /\ status'[at[r]] = "confirmed"

Starts(r) ==
  /\ at'[r] = at[r] /\ todo'[r] = todo[r] /\ result'[r] = result[r]
  /\ \/ /\ pc[r] = "idle" /\ work'[r] = NeededGroups(r) /\ work'[r] # {}
        /\ old'[r] = live /\ pc'[r] = FirstStep(First(work'[r]))
     \/ /\ pc[r] = "idle" /\ r \in BreakEven /\ pc'[r] = "resolve"
        /\ work'[r] = {"stop"}
     \/ /\ pc[r] = "down" /\ r \in BreakEven /\ pc'[r] = "resolve"
        /\ work'[r] = {"stop"} /\ old'[r] = old[r]

Same(r) == old'[r] = old[r] /\ work'[r] = work[r] /\ result'[r] = result[r]

GoesAlong(r) ==
  /\ todo'[r] = todo[r]
  /\ \/ pc[r] = "resolve" /\ pc'[r] = "call" /\ at'[r] = at[r]
     \/ pc[r] = "call" /\ pc'[r] = "reserve" /\ at'[r] = SetKey(r)
     \/ /\ pc[r] = "answered" /\ pc'[r] = "readback" /\ at'[r] = at[r]
        /\ at[r] \in SetKeys
     \/ /\ pc[r] = "readback" /\ pc'[r] = "confirm" /\ at'[r] = at[r]
        /\ order[at[r]] \in live
     \/ /\ pc[r] = "confirm" /\ pc'[r] = "scan" /\ at'[r] = at[r]
        /\ Group(r) = "stop" /\ status'[at[r]] = "confirmed"
     \/ /\ pc[r] = "prove" /\ pc'[r] = "retire" /\ at'[r] = at[r]
        /\ OldOf(r) \cap live = {}
     \/ /\ pc[r] = "retire" /\ pc'[r] = "call" /\ at'[r] = at[r]
        /\ Group(r) = "tp"

Cancelling(r) ==
  /\ todo'[r] \subseteq OldOf(r) /\ at'[r] = at[r]
  /\ \/ pc[r] = "scan" /\ pc'[r] = "next"
     \/ pc[r] = "scan" /\ pc'[r] = "retire" /\ OldOf(r) = {}
     \/ pc[r] = "answered" /\ at[r] \in CancelKeys /\ pc'[r] \in {"next", "prove"}

Picks(r) ==
  /\ pc[r] = "next" /\ pc'[r] = "reserve" /\ todo'[r] = todo[r]
  /\ \E o \in todo[r] : at'[r] = <<"cancel", o>>

NextGroup(r) ==
  /\ (pc[r] = "confirm" /\ Group(r) = "tp") \/ (pc[r] = "retire" /\ Group(r) = "stop")
  /\ work'[r] = work[r] \ {Group(r)} /\ work'[r] # {} /\ todo'[r] = {}
  /\ at'[r] = at[r] /\ old'[r] = old[r] /\ result'[r] = result[r]
  /\ pc'[r] = FirstStep(First(work'[r]))

Outline(r) ==
  \/ Ended(r) \/ Starts(r) \/ NextGroup(r)
  \/ Same(r) /\ (GoesAlong(r) \/ Cancelling(r) \/ Picks(r))

WorkOf(r) ==
  /\ pc[r] \in RunSteps \cup CallSteps => work[r] # {}
  /\ pc[r] = "resolve" => work[r] = {"stop"}
  /\ \/ pc[r] \in CallSteps /\ at[r] \in SetKeys
     \/ pc[r] \in {"readback", "confirm"}
     => at[r] = SetKey(r)
  /\ todo[r] \subseteq old[r]
  /\ todo[r] # {} =>
       pc[r] \in RunSteps \cup CallSteps /\ todo[r] \subseteq Of(Group(r), Orders)

WorkInv == \A r \in Runs : WorkOf(r)

\* An answer that says confirmed is still true when it is used.
GotInv ==
  \A c \in Callers :
    pc[c] \in {"answered", "readback", "confirm"} /\ got[c] = "confirmed"
      => status[at[c]] = "confirmed"

LEMMA ReadbackFrom ==
  ASSUME NEW r \in Runs, TypeOK, RunStep(r), pc'[r] \in {"answered", "readback", "confirm"}
  PROVE  /\ pc[r] \in {"answered", "readback"} /\ at'[r] = at[r] /\ got'[r] = got[r]
         /\ SetAnswer(r) \/ ReadSet(r)
<1>0. DOMAIN pc = Callers /\ DOMAIN at = Callers /\ DOMAIN got = Callers /\ r \in Callers
  BY SMTT(60) DEF TypeOK, CallerOK, Callers
<1>1. SetAnswer(r) \/ ReadSet(r)
  BY <1>0 DEF RunStep, Adjust, Decide, Resolve, Resume, CallSet, ConfirmSet, Owned,
     GroupDone, Unproven, Scan, CancelNext, CancelAnswer, ProveGone, Retire,
     FailsIncomplete, Ends, Goes, FirstStep
<1> QED
  BY <1>0, <1>1 DEF SetAnswer, ReadSet, Unproven, Ends, Goes

LEMMA GotStep ==
  ASSUME TypeOK, AtOK, GotInv, [Next]_vars
  PROVE  GotInv'
<1>0. /\ DOMAIN pc = Callers /\ DOMAIN at = Callers /\ DOMAIN got = Callers
      /\ \A c \in Callers : pc[c] \in {"answered", "readback", "confirm"} => at[c] \in Keys
  BY DEF TypeOK, CallerOK, AtOK, CallSteps, Keys
<1>1. \A k \in Keys : status[k] = "confirmed" => status'[k] = "confirmed"
  BY StatusSteps DEF StatusMoves, InDoubt
<1> SUFFICES ASSUME NEW c \in Callers, pc'[c] \in {"answered", "readback", "confirm"},
                    got'[c] = "confirmed"
             PROVE  status'[at'[c]] = "confirmed"
  BY DEF GotInv
<1>2. CASE pc[c] \in {"answered", "readback", "confirm"} /\ got'[c] = got[c] /\ at'[c] = at[c]
  BY <1>0, <1>1, <1>2 DEF GotInv
<1>3. ASSUME NEW r \in Runs, RunStep(r) PROVE status'[at'[c]] = "confirmed"
  <2>1. CASE r = c
    BY <1>2, <1>3, <2>1, ReadbackFrom
  <2>2. CASE r # c
    BY <1>0, <1>2, <1>3, <2>2, RunStepFrame DEF RunFrame
  <2> QED
    BY <2>1, <2>2
<1>4. ASSUME NEW d \in Callers, CallStep(d) PROVE status'[at'[c]] = "confirmed"
  <2>1. CASE d # c
    BY <1>0, <1>2, <1>4, <2>1, CallStepFrame DEF CallFrame
  <2>2. CASE d = c
    <3>1. at'[c] = at[c] /\ at[c] \in Keys /\ pc'[c] = "answered"
      BY <1>4, <2>2, CallStepFrame DEF CallFrame, AtOK, CallSteps
    <3>2. status'[at[c]] = got'[c]
      <4>1. DOMAIN status = Keys
        BY DEF TypeOK, IntentOK
      <4> QED
        BY <1>0, <1>4, <2>2, <3>1, <4>1 DEF CallStep, Reserve, CheckOthers, Authorize,
           Write, Record, Moved, Answered, Goes, AfterReserve
    <3> QED
      BY <3>1, <3>2
  <2> QED
    BY <2>1, <2>2
<1>5. EnvStep \/ Dies \/ UNCHANGED vars => pc'[c] = pc[c] /\ at'[c] = at[c] /\ got'[c] = got[c]
  BY <1>0 DEF EnvStep, StartClose, Goes, Lands, TakeSnapshot, Reconcile, Fill,
         PositionEnds, Dies, Crash, vars
<1> QED
  BY <1>2, <1>3, <1>4, <1>5, NextCases

LEMMA OutlineStart ==
  ASSUME NEW r \in Runs, TypeOK, Adjust(r) \/ Decide(r) \/ Resolve(r) \/ Resume(r) \/ CallSet(r)
  PROVE  Outline(r)
<1>0. /\ DOMAIN pc = Callers /\ DOMAIN at = Callers /\ r \in Callers
      /\ DOMAIN old = Runs /\ DOMAIN work = Runs /\ DOMAIN todo = Runs
      /\ DOMAIN result = Runs
  BY DEF TypeOK, CallerOK, RunOK, Callers
<1>1. CASE Adjust(r)
  BY <1>0, <1>1 DEF Adjust, Goes, Ends, Outline, Ended, Starts
<1>2. CASE Decide(r)
  BY <1>0, <1>2 DEF Decide, Goes, Ends, goesOn, Outline, Ended, Starts
<1>3. CASE Resolve(r)
  BY <1>0, <1>3 DEF Resolve, Goes, goesOn, Outline, Same, GoesAlong
<1>4. CASE Resume(r)
  BY <1>0, <1>4 DEF Resume, Goes, goesOn, Outline, Starts
<1>5. CASE CallSet(r)
  BY <1>0, <1>5 DEF CallSet, Goes, runVars, Outline, Same, GoesAlong
<1> QED
  BY <1>1, <1>2, <1>3, <1>4, <1>5

LEMMA OutlineSet ==
  ASSUME NEW r \in Runs, TypeOK, AtOK, GotInv, WorkOf(r),
         SetAnswer(r) \/ ReadSet(r) \/ ConfirmSet(r)
  PROVE  Outline(r)
<1>0. /\ DOMAIN pc = Callers /\ DOMAIN at = Callers /\ r \in Callers
      /\ DOMAIN old = Runs /\ DOMAIN work = Runs /\ DOMAIN todo = Runs
      /\ DOMAIN result = Runs
  BY DEF TypeOK, CallerOK, RunOK, Callers
<1>1. CASE SetAnswer(r)
  BY <1>0, <1>1 DEF SetAnswer, Goes, Ends, goesOn, Outline, Ended, Same, GoesAlong
<1>2. CASE ReadSet(r)
  BY <1>0, <1>2 DEF ReadSet, Unproven, Goes, Ends, goesOn, Outline, Ended, Same, GoesAlong
<1>3. CASE ConfirmSet(r)
  <2>1. CASE Unproven(r)
    BY <1>0, <2>1 DEF Unproven, Ends, Outline, Ended
  <2>2. CASE Owned(r) /\ ~Unproven(r)
    <3>1. pc[r] = "confirm" /\ UNCHANGED old
      BY <1>3 DEF ConfirmSet
    <3>2. status'[at[r]] = "confirmed"
      <4>1. at[r] \in Keys /\ DOMAIN status = Keys
        BY <1>0, <3>1 DEF AtOK, TypeOK, IntentOK, Keys
      <4>2. \/ got[r] = "confirmed" /\ UNCHANGED status
            \/ status' = [status EXCEPT ![at[r]] = "confirmed"]
        BY <1>3, <2>2 DEF ConfirmSet
      <4> QED
        BY <1>0, <3>1, <4>1, <4>2 DEF GotInv
    <3>3. CASE Group(r) = "stop"
      BY <1>0, <2>2, <3>1, <3>2, <3>3 DEF Owned, Goes, goesOn, Outline, Same, GoesAlong
    <3>4. CASE Group(r) # "stop"
      <4>1. Group(r) = "tp"
        BY <3>4 DEF Group, First
      <4>2. GroupDone(r)
        BY <2>2, <3>4 DEF Owned
      <4>3. CASE work[r] \ {Group(r)} = {}
        <5>1. Ends(r, "succeeded")
          BY <4>2, <4>3 DEF GroupDone
        <5>2. Ended(r)
          BY <1>0, <3>1, <3>2, <4>1, <4>3, <5>1 DEF Ends, Ended
        <5> QED
          BY <5>2 DEF Outline
      <4>4. CASE work[r] \ {Group(r)} # {}
        <5>1. /\ work' = [work EXCEPT ![r] = work[r] \ {Group(r)}]
              /\ todo' = [todo EXCEPT ![r] = {}]
              /\ pc' = [pc EXCEPT ![r] = FirstStep(First(work[r] \ {Group(r)}))]
              /\ UNCHANGED <<at, result>>
          BY <4>2, <4>4 DEF GroupDone, Goes, goesOn
        <5>2. work'[r] = work[r] \ {Group(r)} /\ todo'[r] = {}
          BY <1>0, <5>1
        <5>3. pc'[r] = FirstStep(First(work'[r])) /\ work'[r] # {}
          BY <1>0, <4>4, <5>1, <5>2
        <5>4. NextGroup(r)
          BY <3>1, <4>1, <5>1, <5>2, <5>3 DEF NextGroup
        <5> QED
          BY <5>4 DEF Outline
      <4> QED
        BY <4>3, <4>4
    <3> QED
      BY <3>3, <3>4
  <2> QED
    BY <1>3, <2>1, <2>2 DEF ConfirmSet
<1> QED
  BY <1>1, <1>2, <1>3

LEMMA OutlineCancel ==
  ASSUME NEW r \in Runs, TypeOK, WorkOf(r),
         Scan(r) \/ CancelNext(r) \/ CancelAnswer(r) \/ ProveGone(r) \/ Retire(r)
  PROVE  Outline(r)
<1>0. /\ DOMAIN pc = Callers /\ DOMAIN at = Callers /\ r \in Callers
      /\ DOMAIN old = Runs /\ DOMAIN work = Runs /\ DOMAIN todo = Runs
      /\ DOMAIN result = Runs
  BY DEF TypeOK, CallerOK, RunOK, Callers
<1>1. CASE FailsIncomplete(r)
  BY <1>0, <1>1 DEF FailsIncomplete, Ends, Outline, Ended
<1>2. CASE Scan(r)
  BY <1>0, <1>1, <1>2 DEF Scan, Goes, goesOn, Outline, Same, Cancelling
<1>3. CASE CancelNext(r)
  BY <1>0, <1>1, <1>3 DEF CancelNext, Goes, goesOn, Outline, Same, Picks
<1>4. CASE CancelAnswer(r)
  <2>1. todo[r] \subseteq OldOf(r)
    BY DEF WorkOf, OldOf, Of
  <2> QED
    BY <1>0, <1>1, <1>4, <2>1 DEF CancelAnswer, Goes, goesOn, Outline, Same, Cancelling
<1>5. CASE ProveGone(r)
  BY <1>0, <1>1, <1>5 DEF ProveGone, Goes, goesOn, Outline, Same, GoesAlong
<1>6. CASE Retire(r)
  BY <1>0, <1>6 DEF Retire, GroupDone, Ends, Goes, goesOn, Outline, Same, GoesAlong,
     NextGroup, Ended
<1> QED
  BY <1>2, <1>3, <1>4, <1>5, <1>6

LEMMA RunOutline ==
  ASSUME NEW r \in Runs, TypeOK, AtOK, GotInv, WorkInv, RunStep(r)
  PROVE  Outline(r)
BY OutlineStart, OutlineSet, OutlineCancel DEF RunStep, WorkInv

LEMMA WorkStep ==
  ASSUME TypeOK, AtOK, GotInv, WorkInv, [Next]_vars
  PROVE  WorkInv'
<1> SUFFICES ASSUME NEW q \in Runs PROVE WorkOf(q)'
  BY DEF WorkInv
<1>0. WorkOf(q)
  BY DEF WorkInv
<1>1. BookStep /\ old[q] \subseteq 1..placed /\ todo[q] \subseteq Orders
      /\ todo[q] \subseteq 1..placed
  BY <1>0, BookSteps DEF TypeOK, RunOK, WorkOf
<1>2. \A g : todo[q] \subseteq Of(g, Orders) => todo[q] \subseteq Of(g, Orders)'
  BY <1>1 DEF Of, BookStep
<1>3. CASE /\ UNCHANGED <<old[q], work[q], todo[q]>> /\ at'[q] = at[q]
           /\ \/ pc[q] \in CallSteps /\ pc'[q] \in CallSteps
              \/ pc'[q] = pc[q]
  <2>1. Group(q)' = Group(q) /\ SetKey(q)' = SetKey(q)
    BY <1>3 DEF Group, SetKey, First
  <2>2. pc[q] \in CallSteps /\ pc'[q] \in CallSteps =>
          pc[q] \notin {"readback", "confirm"}
          /\ pc'[q] \notin {"readback", "confirm", "resolve"}
    BY DEF CallSteps
  <2> QED
    BY <1>0, <1>2, <1>3, <2>1, <2>2 DEF WorkOf
<1>4. CASE Dies
  BY <1>4 DEF Dies, Crash, WorkOf, RunSteps, CallSteps, Callers, SetKeys
<1>5. CASE RunStep(q)
  <2>1. Outline(q) /\ UNCHANGED grp
    BY <1>5, RunOutline, RunStepFrame DEF RunFrame, venueVars, bookVars
  <2> USE DEF Outline, WorkOf, RunSteps, CallSteps
  <2>2. CASE Ended(q)
    BY <1>0, <2>2 DEF Ended
  <2>3. CASE Starts(q)
    BY <1>0, <2>3 DEF Starts, FirstStep
  <2>4. CASE Same(q) /\ GoesAlong(q)
    <3>1. Group(q)' = Group(q) /\ SetKey(q)' = SetKey(q)
          /\ Of(Group(q), Orders)' = Of(Group(q), Orders)
      BY <2>1, <2>4 DEF Same, Group, SetKey, First, Of
    <3>2. \A k \in CancelKeys : k \notin SetKeys
      BY KeysApart
    <3> QED
      BY <1>0, <2>4, <3>1, <3>2 DEF Same, GoesAlong
  <2>5. CASE Same(q) /\ Cancelling(q)
    <3>1. OldOf(q) \subseteq old[q] /\ OldOf(q) \subseteq Of(Group(q), Orders)
      <4>1. 1..placed \subseteq Orders
        BY BoundsAssumption DEF TypeOK, VenueOK, Orders
      <4> QED
        BY <1>1, <4>1 DEF OldOf, Of
    <3>2. Of(Group(q), Orders)' = Of(Group(q), Orders)
      BY <2>1, <2>5 DEF Same, Group, First, Of
    <3>3. \A k \in CancelKeys : k \notin SetKeys
      BY KeysApart
    <3> QED
      BY <1>0, <2>5, <3>1, <3>2, <3>3 DEF Same, Cancelling
  <2>6. CASE Same(q) /\ Picks(q)
    <3>1. Of(Group(q), Orders)' = Of(Group(q), Orders)
      BY <2>1, <2>6 DEF Same, Group, First, Of
    <3>2. at'[q] \notin SetKeys
      BY <2>6 DEF Picks, SetKeys
    <3> QED
      BY <1>0, <2>6, <3>1, <3>2 DEF Same, Picks
  <2>7. CASE NextGroup(q)
    BY <1>0, <2>7 DEF NextGroup, FirstStep
  <2> QED
    BY <2>1, <2>2, <2>3, <2>4, <2>5, <2>6, <2>7
<1> QED
  BY <1>3, <1>4, <1>5, OthersApart

\* An intent comes to be by a reservation only.
LEMMA AbsentStays ==
  ASSUME TypeOK, AtOK, [Next]_vars, NEW k \in Keys,
         status[k] = "absent", status'[k] # "absent"
  PROVE  \E c \in Callers : Reserve(c) /\ at[c] = k
<1>1. ASSUME NEW r \in Runs, RunStep(r) PROVE status'[k] = status[k]
  BY <1>1, RunStepFrame DEF RunFrame, TypeOK, IntentOK
<1>2. ASSUME NEW c \in Callers, CallStep(c), ~Reserve(c) \/ at[c] # k
      PROVE  status'[k] = status[k]
  <2>1. CASE at[c] # k
    BY <1>2, <2>1, CallStatus
  <2>2. CASE at[c] = k
    BY <1>2, <2>2 DEF CallStep, CheckOthers, Authorize, Write, Record, Moved, intentVars
  <2> QED
    BY <2>1, <2>2
<1>3. Reconcile => status'[k] = status[k]
  BY DEF Reconcile, SetProven, CancelProven, CloseEnded, InDoubt
<1>4. EnvStep \/ Dies \/ UNCHANGED vars => Reconcile \/ UNCHANGED status
  BY DEF EnvStep, StartClose, Lands, TakeSnapshot, Fill, PositionEnds, Dies, Crash,
         vars, intentVars
<1> QED
  BY <1>1, <1>2, <1>3, <1>4, NextCases

\* A run that has not started has written nothing, and what it places is newer
\* than what it replaces.
MadeOf(r) ==
  /\ pc[r] = "idle" => \A g \in Groups : status[<<"set", r, g>>] = "absent"
  /\ \A g \in Groups : made[<<"set", r, g>>] # 0 =>
       /\ grp[made[<<"set", r, g>>]] = g
       /\ \A o \in old[r] : o < made[<<"set", r, g>>]

MadeInv == \A r \in Runs : MadeOf(r)

LEMMA IdleFrom ==
  ASSUME TypeOK, AtOK, [Next]_vars, NEW q \in Runs, pc'[q] = "idle"
  PROVE  pc[q] = "idle"
<1>1. ~RunStep(q)
  BY RunStepFrame DEF RunFrame, RunSteps
<1>2. Dies => pc[q] = "idle"
  BY DEF Dies, Crash, Callers
<1> QED
  BY <1>1, <1>2, OthersApart DEF CallSteps

LEMMA MadeStep ==
  ASSUME GatewayInv, MadeInv, [Next]_vars
  PROVE  MadeInv'
<1> USE DEF GatewayInv
<1> SUFFICES ASSUME NEW q \in Runs PROVE MadeOf(q)'
  BY DEF MadeInv
<1>0. MadeOf(q) /\ BookStep
  BY BookSteps DEF MadeInv
<1>1. ASSUME pc'[q] = "idle", NEW g \in Groups PROVE status'[<<"set", q, g>>] = "absent"
  <2>1. pc[q] = "idle" /\ status[<<"set", q, g>>] = "absent"
    BY <1>0, <1>1, IdleFrom DEF MadeOf
  <2>2. <<"set", q, g>> \in Keys /\ <<"set", q, g>> \notin CloseKeys
        /\ <<"set", q, g>> \notin CancelKeys
    BY SetKeyFacts, KeysApart DEF Keys
  <2>3. ASSUME NEW c \in Callers, Reserve(c), at[c] = <<"set", q, g>> PROVE FALSE
    <3>1. c = q
      BY <2>2, <2>3, SetKeyFacts DEF AtOK
    <3> QED
      BY <2>1, <2>3, <3>1 DEF Reserve
  <2> QED
    BY <2>1, <2>2, <2>3, AbsentStays
<1>2. ASSUME NEW g \in Groups, made'[<<"set", q, g>>] # 0
      PROVE  /\ grp'[made'[<<"set", q, g>>]] = g
             /\ \A o \in old'[q] : o < made'[<<"set", q, g>>]
  <2> DEFINE k == <<"set", q, g>>
  <2>0. /\ k \in SetKeys /\ k[3] = g /\ k \in Keys /\ old[q] \subseteq 1..placed
        /\ made[k] \in 0..placed /\ placed \in Nat /\ live \subseteq 1..placed
    BY SetKeyFacts DEF Keys, TypeOK, VenueOK, RunOK, BookStep, Orders
  <2>1. \/ made'[k] = made[k]
        \/ made'[k] = placed + 1 /\ grp'[placed + 1] = g
    BY <1>0, <2>0 DEF BookStep
  <2>2. old'[q] = old[q] \/ (made[k] = 0 /\ old'[q] \subseteq live)
    <3>1. CASE pc[q] = "idle"
      <4>1. sends[k] = 0
        BY <1>0, <2>0, <3>1 DEF MadeOf, SendInv, Unsent
      <4>2. made[k] = 0
        BY <2>0, <4>1 DEF EffectInv, NoEffect
      <4> QED
        BY <4>2, OldFixed
    <3> QED
      BY <3>1, OldFixed
  <2>3. CASE made'[k] = made[k]
    <3>1. made[k] \in 1..placed /\ old'[q] = old[q]
      BY <1>2, <2>0, <2>2, <2>3
    <3>2. grp'[made[k]] = grp[made[k]]
      BY <1>0, <3>1 DEF BookStep
    <3> QED
      BY <1>0, <1>2, <2>3, <3>1, <3>2 DEF MadeOf
  <2>4. CASE made'[k] = placed + 1 /\ grp'[placed + 1] = g
    <3>1. old'[q] \subseteq 1..placed
      BY <2>0, <2>2
    <3> QED
      BY <2>0, <2>4, <3>1
  <2> QED
    BY <2>1, <2>3, <2>4
<1> QED
  BY <1>1, <1>2 DEF MadeOf

\* What the runs are known to be doing, all together.
RunsInv == GatewayInv /\ OrderInv /\ GotInv /\ WorkInv /\ MadeInv

LEMMA RunsStep ==
  ASSUME RunsInv, [Next]_vars
  PROVE  RunsInv'
BY GatewayStep, OrderStep, GotStep, WorkStep, MadeStep DEF RunsInv, GatewayInv

LEMMA RunsInit ==
  ASSUME Init
  PROVE  RunsInv
<1>1. GatewayInv
  BY TypeInit, AtInit, SendInit, EffectInit DEF GatewayInv
<1>2. OrderInv /\ GotInv
  BY DEF Init, OrderInv, GotInv
<1>3. \A r \in Runs : pc[r] = "idle" /\ todo[r] = {}
  BY DEF Init, Callers
<1>4. WorkInv
  BY <1>3 DEF WorkInv, WorkOf, RunSteps, CallSteps
<1>5. MadeInv
  BY SetKeyFacts DEF Init, MadeInv, MadeOf, Keys
<1> QED
  BY <1>1, <1>2, <1>4, <1>5 DEF RunsInv

LEMMA RunsCorrect == Spec => []RunsInv
BY RunsInit, RunsStep, PTL DEF Spec

-----------------------------------------------------------------------------
(* An open position keeps a stop.                                          *)

\* There is a newer stop.
Above(o) == open => \E p \in Of("stop", live) : p > o

\* Somebody has asked, or is about to ask, for the cancel of an order.
Asked(o) ==
  \/ status[<<"cancel", o>>] # "absent"
  \/ \E c \in Callers : at[c] = <<"cancel", o>>

\* The run has read its new stop back.
Past(r) ==
  /\ work[r] # {} /\ Group(r) = "stop"
  /\ \/ pc[r] \in {"confirm", "scan", "next", "prove", "retire"}
     \/ pc[r] \in CallSteps /\ at[r] \in CancelKeys

StopInv ==
  /\ Above(0)
  /\ \A o \in Orders : Asked(o) => o \in 1..placed /\ (grp[o] = "stop" => Above(o))
  /\ \A r \in Runs : Past(r) => \A o \in Of("stop", old[r]) : Above(o)

LEMMA BorrowedStays ==
  ASSUME RunsInv, [Next]_vars, Borrowed
  PROVE  Borrowed'
<1>1. PICK k \in SetKeys : order[k] \notin {0, made[k]}
  BY DEF Borrowed
<1>2. order'[k] = order[k]
  BY <1>1, OrderMoves DEF RunsInv, GatewayInv
<1>3. BookStep /\ order[k] \in 0..placed
  BY BookSteps DEF RunsInv, GatewayInv, TypeOK, IntentOK
<1>4. made'[k] \in {made[k], placed + 1} /\ placed \in Nat
  BY <1>3 DEF BookStep
<1>5. order[k] # placed + 1
  BY <1>3, <1>4
<1> QED
  BY <1>1, <1>2, <1>4, <1>5 DEF Borrowed

LEMMA AskedOfLate ==
  ASSUME GatewayInv, NEW o \in Orders, <<"cancel", o>> \in late
  PROVE  Asked(o)
BY CancelKeyFacts DEF GatewayInv, SendInv, EffectInv, NoEffect, Unsent, Keys, Asked

LEMMA AboveStays ==
  ASSUME RunsInv, StopInv, [Next]_vars, NEW o \in Nat, Above(o)
  PROVE  Above(o)'
<1> USE DEF RunsInv, GatewayInv
<1>0. BookStep /\ live \subseteq 1..placed /\ 1..placed \subseteq Orders
  BY BookSteps, BoundsAssumption DEF TypeOK, VenueOK, Orders
<1> SUFFICES ASSUME open' PROVE \E p \in Of("stop", live)' : p > o
  BY DEF Above
<1>1. PICK p \in Of("stop", live) : p > o
  BY <1>0 DEF Above, BookStep
<1>2. p \in live /\ grp[p] = "stop" /\ p \in Orders /\ p \in 1..placed
  BY <1>0, <1>1 DEF Of
<1>3. \A q \in live : grp'[q] = grp[q]
  BY <1>0 DEF BookStep
<1>4. CASE p \in live'
  BY <1>1, <1>2, <1>3, <1>4 DEF Of
<1>5. CASE p \notin live'
  <2>1. Asked(p)
    BY <1>0, <1>2, <1>5, AskedOfLate DEF BookStep, Asked
  <2>2. PICK q \in Of("stop", live) : q > p
    BY <1>0, <1>2, <2>1 DEF StopInv, Above, BookStep
  <2>3. q \in live /\ grp[q] = "stop" /\ q # p /\ q \in 1..placed
    BY <1>0, <1>2, <2>2 DEF Of
  <2>4. PICK x : live \ {x} \subseteq live'
    BY <1>0 DEF BookStep
  <2>5. q \in live'
    BY <1>2, <1>5, <2>3, <2>4
  <2>6. q > o
    BY <1>0, <1>1, <1>2, <2>2, <2>3 DEF BookStep
  <2> QED
    BY <1>3, <2>3, <2>5, <2>6 DEF Of
<1> QED
  BY <1>4, <1>5

LEMMA AskedFrom ==
  ASSUME RunsInv, [Next]_vars, NEW o \in Orders, Asked(o)'
  PROVE  Asked(o) \/ \E r \in Runs : RunStep(r) /\ Picks(r) /\ o \in todo[r]
<1> USE DEF RunsInv, GatewayInv
<1>0. <<"cancel", o>> \in Keys
  BY CancelKeyFacts DEF Keys
<1>1. CASE status'[<<"cancel", o>>] # "absent"
  BY <1>0, <1>1, AbsentStays DEF Asked
<1>2. ASSUME NEW c \in Callers, at'[c] = <<"cancel", o>>
      PROVE  at[c] = <<"cancel", o>> \/ \E r \in Runs : RunStep(r) /\ Picks(r) /\ o \in todo[r]
  <2>0. AtOK'
    BY TypeNext
  <2>1. c \in Runs
    BY <1>0, <1>2, <2>0, CancelKeyFacts, KeysApart DEF AtOK
  <2>2. ~Dies
    BY <1>0, <1>2, KeysApart DEF Dies, Crash
  <2>3. CASE RunStep(c)
    <3>1. Outline(c)
      BY <2>1, <2>3, RunOutline
    <3>2. at'[c] # <<"none">> /\ at'[c] \notin SetKeys
      BY <1>0, <1>2, KeysApart, CancelKeyFacts
    <3>3. SetKey(c) \in SetKeys
      BY <2>1, SetKeyFacts DEF SetKey, Group, First, Groups
    <3>4. Picks(c) \/ at'[c] = at[c]
      BY <3>1, <3>2, <3>3 DEF Outline, Ended, Starts, NextGroup, GoesAlong, Cancelling
    <3>5. Picks(c) => o \in todo[c]
      <4> SUFFICES ASSUME Picks(c) PROVE o \in todo[c]
        OBVIOUS
      <4>1. PICK q \in todo[c] : at'[c] = <<"cancel", q>>
        BY DEF Picks
      <4> QED
        BY <1>2, <4>1
    <3> QED
      BY <1>2, <2>1, <2>3, <3>4, <3>5
  <2> QED
    BY <1>2, <2>1, <2>2, <2>3, OthersApart
<1> QED
  BY <1>1, <1>2 DEF Asked

LEMMA PastFrom ==
  ASSUME RunsInv, [Next]_vars, NEW r \in Runs, Past(r)'
  PROVE  /\ old'[r] = old[r]
         /\ \/ Past(r)
            \/ /\ pc[r] = "readback" /\ Group(r) = "stop"
               /\ order[at[r]] \in live /\ at[r] = SetKey(r)
<1> USE DEF RunsInv, GatewayInv
<1>0. WorkOf(r)
  BY DEF WorkInv
<1>1. CASE Dies
  BY <1>1 DEF Dies, Past
<1>2. CASE /\ UNCHANGED <<old[r], work[r]>> /\ at'[r] = at[r]
           /\ \/ pc[r] \in CallSteps /\ pc'[r] \in CallSteps
              \/ pc'[r] = pc[r]
  BY <1>2 DEF Past, Group, CallSteps
<1>3. CASE RunStep(r)
  <2>1. Outline(r)
    BY <1>3, RunOutline
  <2>2. ~Ended(r)
    BY DEF Ended, Past
  <2>3. ~Starts(r) /\ ~NextGroup(r)
    BY DEF Starts, NextGroup, Past, FirstStep, Group, CallSteps
  <2>4. SetKey(r) \notin CancelKeys
    BY SetKeyFacts, KeysApart DEF SetKey, Group, First, Groups
  <2>5. Same(r) /\ (GoesAlong(r) \/ Cancelling(r) \/ Picks(r))
    BY <2>1, <2>2, <2>3 DEF Outline
  <2>6. Group(r)' = Group(r) /\ (work[r] # {} /\ Group(r) = "stop")
    BY <2>5 DEF Same, Group, Past
  <2>7. CASE GoesAlong(r)
    <3>1. at[r] \in SetKeys => at[r] \notin CancelKeys
      BY KeysApart
    <3>2. pc'[r] # "reserve" /\ pc'[r] # "call" /\ pc'[r] # "readback"
      <4>1. pc'[r] = "reserve" => at'[r] \notin CancelKeys
        BY <2>4, <2>7 DEF GoesAlong
      <4> QED
        BY <4>1 DEF Past, CallSteps
    <3>3. CASE pc'[r] = "confirm"
      BY <1>0, <2>5, <2>6, <2>7, <3>3 DEF GoesAlong, Same, WorkOf
    <3>4. CASE pc'[r] # "confirm"
      BY <2>5, <2>6, <2>7, <3>2, <3>4 DEF GoesAlong, Same, Past
    <3> QED
      BY <3>3, <3>4
  <2>8. CASE Cancelling(r) \/ Picks(r)
    BY <2>5, <2>6, <2>8 DEF Cancelling, Picks, Same, Past, CallSteps
  <2> QED
    BY <2>5, <2>7, <2>8
<1> QED
  BY <1>1, <1>2, <1>3, OthersApart

LEMMA StopStep ==
  ASSUME RunsInv, StopInv, [Next]_vars, ~Borrowed'
  PROVE  StopInv'
<1> USE DEF RunsInv, GatewayInv
<1>0. /\ BookStep /\ TypeOK'
      /\ Orders \subseteq Nat /\ 1..placed \subseteq Orders /\ 1..placed \subseteq 1..placed'
      /\ ~Borrowed
  <2>1. BookStep /\ TypeOK' /\ ~Borrowed
    BY BookSteps, TypeNext, BorrowedStays
  <2>2. placed \in Orders /\ MaxOrders \in Nat
    BY BoundsAssumption DEF TypeOK, VenueOK
  <2>3. Orders \subseteq Nat /\ 1..placed \subseteq Orders
    BY <2>2 DEF Orders
  <2>4. 1..placed \subseteq 1..placed'
    BY <2>1 DEF BookStep
  <2> QED
    BY <2>1, <2>3, <2>4
<1>1. \A r \in Runs : old[r] \subseteq 1..placed /\ todo[r] \subseteq old[r]
  BY DEF TypeOK, RunOK, WorkInv, WorkOf
<1>2. Above(0)'
  BY AboveStays DEF StopInv
<1>3. ASSUME NEW o \in Orders, Asked(o)'
      PROVE  o \in 1..placed' /\ (grp'[o] = "stop" => Above(o)')
  <2>1. CASE Asked(o)
    <3>1. o \in 1..placed /\ grp'[o] = grp[o]
      BY <1>0, <2>1 DEF StopInv, BookStep
    <3> QED
      BY <1>0, <2>1, <3>1, AboveStays DEF StopInv
  <2>2. ASSUME NEW r \in Runs, Picks(r), o \in todo[r]
        PROVE  o \in 1..placed' /\ (grp'[o] = "stop" => Above(o)')
    <3>1. o \in 1..placed /\ grp'[o] = grp[o] /\ o \in old[r]
      BY <1>0, <1>1, <2>2 DEF BookStep
    <3>2. grp[o] = Group(r) /\ pc[r] = "next" /\ work[r] # {}
      BY <2>2 DEF WorkInv, WorkOf, Picks, Of, RunSteps
    <3>3. ASSUME grp[o] = "stop" PROVE Above(o)
      <4>1. Past(r)
        BY <3>2, <3>3 DEF Past
      <4>2. o \in Of("stop", old[r])
        BY <3>1, <3>3 DEF Of
      <4> QED
        BY <4>1, <4>2 DEF StopInv
    <3> QED
      BY <1>0, <3>1, <3>3, AboveStays
  <2> QED
    BY <1>3, <2>1, <2>2, AskedFrom
<1>4. ASSUME NEW r \in Runs, Past(r)', NEW o \in Of("stop", old[r])'
      PROVE  Above(o)'
  <2>1. old'[r] = old[r] /\ o \in old[r] /\ o \in 1..placed /\ grp[o] = "stop" /\ o \in Nat
    BY <1>0, <1>1, <1>4, PastFrom DEF Of, BookStep
  <2>2. Above(o)
    <3>1. CASE Past(r)
      BY <2>1, <3>1 DEF StopInv, Of
    <3>2. CASE /\ pc[r] = "readback" /\ Group(r) = "stop"
               /\ order[at[r]] \in live /\ at[r] = SetKey(r)
      <4> DEFINE k == <<"set", r, "stop">>
      <4>1. at[r] = k /\ k \in SetKeys /\ "stop" \in Groups
        BY <3>2, SetKeyFacts DEF SetKey, Groups
      <4>2. order[k] \in live /\ order[k] \in 1..placed
        BY <3>2, <4>1 DEF TypeOK, VenueOK
      <4>3. order[k] = made[k] /\ made[k] # 0
        BY <1>0, <4>1, <4>2 DEF Borrowed, BookStep
      <4>4. grp[made[k]] = "stop" /\ o < made[k]
        BY <2>1, <4>1, <4>3 DEF MadeInv, MadeOf
      <4>5. made[k] \in Of("stop", live) /\ made[k] > o
        BY <1>0, <2>1, <4>2, <4>3, <4>4 DEF Of, BookStep
      <4> QED
        BY <4>5 DEF Above
    <3> QED
      BY <1>4, <3>1, <3>2, PastFrom
  <2> QED
    BY <2>1, <2>2, AboveStays
<1> QED
  BY <1>2, <1>3, <1>4 DEF StopInv

LEMMA StopInit ==
  ASSUME Init
  PROVE  StopInv
<1>1. /\ 1 \in Of("stop", live) /\ 1 > 0
  BY BoundsAssumption DEF Init, Of, Orders
<1>2. \A o \in Orders : ~Asked(o)
  BY CancelKeyFacts, KeysApart DEF Init, Asked, Keys
<1>3. \A r \in Runs : ~Past(r)
  BY DEF Init, Past
<1> QED
  BY <1>1, <1>2, <1>3 DEF StopInv, Above

\* Whatever the runs, the crashes and the answers: an open position keeps a stop
\* unless a set intent was confirmed from the order of another write.
THEOREM StopsTheorem == Spec => []StopsKept
<1>1. Init => RunsInv /\ StopInv
  BY RunsInit, StopInit
<1>2. RunsInv /\ (Borrowed \/ StopInv) /\ [Next]_vars => (Borrowed \/ StopInv)'
  BY StopStep, BorrowedStays
<1>3. Borrowed \/ StopInv => StopsKept
  BY DEF StopInv, Above, StopsKept, NeverNaked
<1> QED
  BY <1>1, <1>2, <1>3, RunsCorrect, PTL DEF Spec

-----------------------------------------------------------------------------
(* Take profits, and what a reported success means.                        *)

\* None of the orders of a group that the run replaces is on the exchange.
Gone(r, g) == Of(g, old[r]) \cap live = {}

TpOf(r) ==
  /\ status[<<"set", r, "tp">>] # "absent" => Gone(r, "tp")
  /\ /\ work[r] # {} /\ Group(r) = "tp"
     /\ \/ pc[r] \in {"retire", "call", "readback", "confirm"}
        \/ pc[r] \in CallSteps /\ at[r] \in SetKeys
     => Gone(r, "tp")

TpInv == \A r \in Runs : TpOf(r)

LEMMA GoneStays ==
  ASSUME TypeOK, AtOK, [Next]_vars, NEW r \in Runs, NEW g, old'[r] = old[r], Gone(r, g)
  PROVE  Gone(r, g)'
<1>1. BookStep /\ old[r] \subseteq 1..placed
  BY BookSteps DEF TypeOK, RunOK
<1> QED
  BY <1>1 DEF BookStep, Gone, Of

LEMMA TpStep ==
  ASSUME RunsInv, TpInv, [Next]_vars
  PROVE  TpInv'
<1> USE DEF RunsInv, GatewayInv
<1> SUFFICES ASSUME NEW q \in Runs PROVE TpOf(q)'
  BY DEF TpInv
<1> DEFINE k == <<"set", q, "tp">>
<1>0. /\ TpOf(q) /\ WorkOf(q) /\ k \in SetKeys /\ k \in Keys /\ "tp" \in Groups
      /\ "tp" # "stop"
  BY SetKeyFacts DEF TpInv, WorkInv, Keys, Groups
<1>1. ASSUME status'[k] # "absent" PROVE Gone(q, "tp")'
  <2>1. CASE status[k] # "absent"
    <3>1. pc[q] # "idle"
      BY <1>0, <2>1 DEF MadeInv, MadeOf
    <3> QED
      BY <1>0, <2>1, <3>1, OldFixed, GoneStays DEF TpOf
  <2>2. CASE status[k] = "absent"
    <3>1. PICK c \in Callers : Reserve(c) /\ at[c] = k
      BY <1>0, <1>1, <2>2, AbsentStays
    <3>2. c = q
      BY <1>0, <3>1, SetKeyFacts, KeysApart DEF AtOK
    <3>3. pc[q] = "reserve"
      BY <3>1, <3>2 DEF Reserve
    <3>4. at[q] = SetKey(q) /\ work[q] # {}
      BY <1>0, <3>1, <3>2, <3>3 DEF WorkOf, CallSteps
    <3>5. Group(q) = "tp"
      <4>1. Group(q) \in Groups
        BY DEF Group, First, Groups
      <4> QED
        BY <3>1, <3>2, <3>4, <4>1, <1>0, SetKeyFacts DEF SetKey
    <3> QED
      BY <1>0, <3>1, <3>2, <3>3, <3>4, <3>5, OldFixed, GoneStays DEF TpOf, CallSteps
  <2> QED
    BY <2>1, <2>2
<1>2. ASSUME work'[q] # {}, Group(q)' = "tp",
             \/ pc'[q] \in {"retire", "call", "readback", "confirm"}
             \/ pc'[q] \in CallSteps /\ at'[q] \in SetKeys
      PROVE  Gone(q, "tp")'
  <2>1. CASE Dies
    BY <1>2, <2>1 DEF Dies
  <2>2. CASE /\ UNCHANGED <<old[q], work[q]>> /\ at'[q] = at[q]
             /\ \/ pc[q] \in CallSteps /\ pc'[q] \in CallSteps
                \/ pc'[q] = pc[q]
    <3>1. Gone(q, "tp")
      BY <1>0, <1>2, <2>2 DEF TpOf, Group, CallSteps
    <3> QED
      BY <2>2, <3>1, GoneStays
  <2>3. CASE RunStep(q)
    <3>1. Outline(q)
      BY <2>3, RunOutline
    <3>2. ~Ended(q) /\ ~Starts(q) /\ ~NextGroup(q)
      BY <1>0, <1>2 DEF Ended, Starts, NextGroup, FirstStep, Group, CallSteps
    <3>3. Same(q) /\ Group(q) = "tp" /\ work[q] # {}
      BY <1>2, <3>1, <3>2 DEF Outline, Same, Group
    <3>4. Gone(q, "tp")
      <4>1. CASE pc[q] = "resolve"
        BY <1>0, <3>3, <4>1 DEF WorkOf, Group, First
      <4>2. CASE pc[q] # "resolve" /\ GoesAlong(q)
        BY <1>0, <1>2, <3>3, <4>2 DEF GoesAlong, TpOf, Gone, OldOf, CallSteps
      <4>3. CASE Cancelling(q)
        BY <1>2, <3>3, <4>3 DEF Cancelling, Gone, OldOf, CallSteps
      <4>4. ~Picks(q)
        BY <1>2, KeysApart DEF Picks, SetKeys
      <4> QED
        BY <3>1, <3>2, <4>1, <4>2, <4>3, <4>4 DEF Outline
    <3> QED
      BY <3>3, <3>4, GoneStays DEF Same
  <2> QED
    BY <2>1, <2>2, <2>3, OthersApart
<1> QED
  BY <1>1, <1>2 DEF TpOf

LEMMA TpInit ==
  ASSUME Init
  PROVE  TpInv
<1>1. \A r \in Runs : work[r] = {} /\ status[<<"set", r, "tp">>] = "absent"
  BY SetKeyFacts DEF Init, Keys, Groups
<1> QED
  BY <1>1 DEF TpInv, TpOf

\* A run's new take profit is on the exchange only once its old ones are gone.
THEOREM TakeProfitsTheorem == Spec => []TakeProfitsNeverDouble
<1>1. Init => TpInv
  BY TpInit
<1>2. RunsInv /\ TpInv /\ [Next]_vars => TpInv'
  BY TpStep
<1>3. RunsInv /\ TpInv => TakeProfitsNeverDouble
  <2> SUFFICES ASSUME RunsInv, TpInv, NEW r \in Runs, made[<<"set", r, "tp">>] # 0
               PROVE  Of("tp", old[r]) \cap live = {}
    BY DEF TakeProfitsNeverDouble
  <2>1. <<"set", r, "tp">> \in SetKeys /\ <<"set", r, "tp">> \in Keys
    BY SetKeyFacts DEF Keys, Groups
  <2>2. sends[<<"set", r, "tp">>] # 0
    BY <2>1 DEF RunsInv, GatewayInv, EffectInv, NoEffect
  <2>3. status[<<"set", r, "tp">>] # "absent"
    BY <2>1, <2>2 DEF RunsInv, GatewayInv, SendInv, Unsent
  <2> QED
    BY <2>3 DEF TpInv, TpOf, Gone
<1> QED
  BY <1>1, <1>2, <1>3, RunsCorrect, PTL DEF Spec

\* A group of a run is done: its old orders are gone and the new one is one the
\* database owns.
Done(r, g) ==
  Of(g, old[r]) # {} => Gone(r, g) /\ status[<<"set", r, g>>] = "confirmed"

DoneOf(r) ==
  /\ pc[r] \in RunSteps \cup CallSteps => \A g \in Plan[r] \ work[r] : Done(r, g)
  /\ work[r] # {} /\ pc[r] = "retire" => Gone(r, Group(r))
  /\ /\ work[r] # {} /\ Group(r) = "stop"
     /\ \/ pc[r] \in {"scan", "next", "prove", "retire"}
        \/ pc[r] \in CallSteps /\ at[r] \in CancelKeys
     => status[SetKey(r)] = "confirmed"
  /\ result[r] # "none" => pc[r] = "ended"
  /\ result[r] = "succeeded" => \A g \in Plan[r] : Done(r, g)

DoneInv == \A r \in Runs : DoneOf(r)

LEMMA DoneStays ==
  ASSUME RunsInv, [Next]_vars, NEW r \in Runs, NEW g \in Groups, old'[r] = old[r],
         Done(r, g)
  PROVE  Done(r, g)'
<1>1. Gone(r, g) => Gone(r, g)'
  BY GoneStays DEF RunsInv, GatewayInv
<1>2. status[<<"set", r, g>>] = "confirmed" => status'[<<"set", r, g>>] = "confirmed"
  BY StatusSteps, SetKeyFacts DEF RunsInv, GatewayInv, StatusMoves, InDoubt, Keys
<1>3. Of(g, old[r])' # {} => Of(g, old[r]) # {}
  <2>1. BookStep /\ old[r] \subseteq 1..placed
    BY BookSteps DEF RunsInv, GatewayInv, TypeOK, RunOK
  <2> QED
    BY <2>1 DEF Of, BookStep
<1> QED
  BY <1>1, <1>2, <1>3 DEF Done

LEMMA DoneStep ==
  ASSUME RunsInv, TpInv, DoneInv, [Next]_vars
  PROVE  DoneInv'
<1> USE DEF RunsInv, GatewayInv
<1> SUFFICES ASSUME NEW q \in Runs PROVE DoneOf(q)'
  BY DEF DoneInv
<1>0. /\ DoneOf(q) /\ WorkOf(q) /\ TpOf(q) /\ q \in Callers
      /\ Plan[q] \subseteq Groups /\ Group(q) \in Groups /\ SetKey(q) \in Keys
      /\ SetKey(q) = <<"set", q, Group(q)>>
  BY RunsAssumption, SetKeyFacts, ZenonT(60)
     DEF DoneInv, WorkInv, TpInv, Callers, Group, First, Groups, SetKey, Keys
<1>1. ASSUME old'[q] = old[q] PROVE \A g \in Plan[q] : Done(q, g) => Done(q, g)'
  BY <1>0, <1>1, DoneStays
<1>2. \A k \in Keys : status[k] = "confirmed" => status'[k] = "confirmed"
  BY StatusSteps DEF StatusMoves, InDoubt
<1>3. CASE Dies
  BY <1>0, <1>1, <1>3 DEF Dies, Crash, DoneOf, RunSteps, CallSteps
<1>4. CASE /\ UNCHANGED <<old[q], work[q], result[q]>> /\ at'[q] = at[q]
           /\ \/ pc[q] \in CallSteps /\ pc'[q] \in CallSteps
              \/ pc'[q] = pc[q]
  <2>1. Group(q)' = Group(q) /\ SetKey(q)' = SetKey(q)
    BY <1>4 DEF Group, SetKey, First
  <2>2. Gone(q, Group(q)) => Gone(q, Group(q))'
    BY <1>4, <2>1, GoneStays
  <2>3. \A x \in CallSteps : x \notin RunSteps /\ x # "ended"
    BY DEF RunSteps, CallSteps
  <2>4. pc'[q] \in RunSteps \cup CallSteps => pc[q] \in RunSteps \cup CallSteps
    BY <1>4
  <2>5. pc'[q] \in {"scan", "next", "prove", "retire"} => pc'[q] = pc[q]
    BY <1>4, <2>3 DEF RunSteps
  <2>6. pc'[q] \in CallSteps => pc[q] \in CallSteps
    BY <1>4
  <2>7. result'[q] # "none" => pc'[q] = "ended"
    BY <1>0, <1>4, <2>3 DEF DoneOf
  <2> QED
    BY <1>0, <1>1, <1>2, <1>4, <2>1, <2>2, <2>4, <2>5, <2>6, <2>7 DEF DoneOf
<1>5. CASE RunStep(q)
  <2>1. Outline(q)
    BY <1>5, RunOutline
  <2>2. CASE Ended(q)
    <3>1. ASSUME result'[q] = "succeeded", NEW g \in Plan[q] PROVE Done(q, g)'
      <4>1. old'[q] = old[q] /\ work[q] \ {Group(q)} = {}
            /\ pc[q] \in RunSteps
        BY <2>2, <3>1 DEF Ended, RunSteps
      <4>2. CASE g # Group(q)
        BY <1>0, <1>1, <4>1, <4>2 DEF DoneOf
      <4>3. CASE g = Group(q)
        <5>1. Gone(q, g)
          BY <1>0, <2>2, <3>1, <4>1, <4>3 DEF Ended, DoneOf, TpOf, WorkOf
        <5>2. status'[<<"set", q, g>>] = "confirmed"
          BY <1>0, <1>2, <2>2, <3>1, <4>1, <4>3 DEF Ended, DoneOf, WorkOf
        <5>3. Gone(q, g)'
          BY <4>1, <5>1, GoneStays
        <5> QED
          BY <5>2, <5>3 DEF Done
      <4> QED
        BY <4>2, <4>3
    <3> QED
      BY <2>2, <3>1 DEF Ended, DoneOf, RunSteps, CallSteps
  <2>3. CASE Starts(q)
    <3>1. result'[q] = "none" /\ pc'[q] \in {"resolve", "call", "scan"}
          /\ (pc'[q] = "scan" => Group(q)' = "tp")
      BY <1>0, <2>3 DEF Starts, DoneOf, FirstStep, Group, First
    <3>2. ASSUME NEW g \in Plan[q] \ work'[q] PROVE Done(q, g)'
      <4>1. CASE q \in BreakEven
        BY <2>3, <3>2, <4>1, RunsAssumption DEF Starts, NeededGroups
      <4>2. CASE q \notin BreakEven
        <5>1. Of(g, live) = {} /\ old'[q] = live /\ UNCHANGED grp
          BY <1>5, <2>3, <3>2, <4>2, RunStepFrame
             DEF Starts, NeededGroups, RunFrame, venueVars, bookVars
        <5> QED
          BY <5>1 DEF Done, Of
      <4> QED
        BY <4>1, <4>2
    <3> QED
      BY <3>1, <3>2 DEF DoneOf, RunSteps, CallSteps
  <2>4. CASE Same(q) /\ (GoesAlong(q) \/ Cancelling(q) \/ Picks(q))
    <3>1. Group(q)' = Group(q) /\ SetKey(q)' = SetKey(q) /\ old'[q] = old[q]
          /\ work'[q] = work[q] /\ result'[q] = result[q]
      BY <2>4 DEF Same, Group, SetKey, First
    <3>2. pc[q] \in RunSteps \cup CallSteps /\ pc[q] # "ended"
          /\ pc'[q] \in RunSteps \cup CallSteps
      BY <2>4 DEF GoesAlong, Cancelling, Picks, RunSteps, CallSteps
    <3>3. result[q] = "none" /\ \A g \in Plan[q] \ work[q] : Done(q, g)'
      BY <1>0, <1>1, <3>1, <3>2 DEF DoneOf
    <3>4. pc'[q] = "retire" => Gone(q, Group(q))'
      <4>1. pc'[q] = "retire" => Gone(q, Group(q))
        BY <2>4 DEF GoesAlong, Cancelling, Picks, Gone, OldOf
      <4> QED
        BY <3>1, <4>1, GoneStays
    <3>5. ASSUME Group(q) = "stop",
                 \/ pc'[q] \in {"scan", "next", "prove", "retire"}
                 \/ pc'[q] \in CallSteps /\ at'[q] \in CancelKeys
          PROVE  status'[SetKey(q)] = "confirmed"
      <4>1. SetKey(q) \notin CancelKeys /\ work[q] # {}
        BY <1>0, <3>2, SetKeyFacts, KeysApart DEF WorkOf
      <4>2. CASE pc[q] = "confirm" /\ pc'[q] = "scan"
        BY <1>0, <2>4, <4>2 DEF GoesAlong, Cancelling, Picks, WorkOf
      <4>3. CASE ~(pc[q] = "confirm" /\ pc'[q] = "scan")
        <5>1. \/ pc[q] \in {"scan", "next", "prove", "retire"}
              \/ pc[q] \in CallSteps /\ at[q] \in CancelKeys
          BY <2>4, <3>5, <4>1, <4>3 DEF GoesAlong, Cancelling, Picks, CallSteps
        <5> QED
          BY <1>0, <1>2, <3>5, <4>1, <5>1 DEF DoneOf
      <4> QED
        BY <4>2, <4>3
    <3> QED
      BY <3>1, <3>2, <3>3, <3>4, <3>5 DEF DoneOf
  <2>5. CASE NextGroup(q)
    <3>1. Group(q) = "stop" /\ pc[q] = "retire"
      BY <1>0, <2>5 DEF NextGroup, Group, First, Groups, TypeOK, RunOK
    <3>2. old'[q] = old[q] /\ work'[q] = work[q] \ {"stop"} /\ result'[q] = result[q]
          /\ work[q] # {}
      BY <2>5, <3>1 DEF NextGroup
    <3>3. Gone(q, "stop") /\ status[<<"set", q, "stop">>] = "confirmed"
      BY <1>0, <3>1, <3>2 DEF DoneOf
    <3>4. Done(q, "stop")
      BY <3>3 DEF Done
    <3>5. \A g \in Plan[q] \ work'[q] : Done(q, g)'
      BY <1>0, <1>1, <3>1, <3>2, <3>4 DEF DoneOf, RunSteps
    <3>6. Group(q)' = "tp" /\ pc'[q] = "scan"
      BY <2>5, <3>1, <3>2 DEF NextGroup, Group, First, FirstStep
    <3>7. result'[q] = "none"
      BY <1>0, <3>1, <3>2 DEF DoneOf
    <3> QED
      BY <3>5, <3>6, <3>7 DEF DoneOf, CallSteps
  <2> QED
    BY <2>1, <2>2, <2>3, <2>4, <2>5 DEF Outline
<1> QED
  BY <1>3, <1>4, <1>5, OthersApart

LEMMA DoneInit ==
  ASSUME Init
  PROVE  DoneInv
<1>1. \A r \in Runs : pc[r] = "idle" /\ work[r] = {} /\ result[r] = "none"
  BY DEF Init, Callers
<1> QED
  BY <1>1 DEF DoneInv, DoneOf, RunSteps, CallSteps

\* A replacement that reports success left none of the orders it replaced, and
\* the database owns each new one.
THEOREM SuccessTheorem == Spec => []SuccessMeansReplaced
<1>1. Init => RunsInv /\ TpInv /\ DoneInv
  BY RunsInit, TpInit, DoneInit
<1>2. RunsInv /\ TpInv /\ DoneInv /\ [Next]_vars => (RunsInv /\ TpInv /\ DoneInv)'
  BY RunsStep, TpStep, DoneStep
<1>3. DoneInv => SuccessMeansReplaced
  <2> SUFFICES ASSUME DoneInv, NEW r \in Runs, result[r] = "succeeded",
                      NEW o \in old[r], grp[o] \in Plan[r]
               PROVE  o \notin live /\ status[<<"set", r, grp[o]>>] = "confirmed"
    BY DEF SuccessMeansReplaced
  <2>1. Done(r, grp[o]) /\ o \in Of(grp[o], old[r])
    BY DEF DoneInv, DoneOf, Of
  <2> QED
    BY <2>1 DEF Done, Gone
<1> QED
  BY <1>1, <1>2, <1>3, PTL DEF Spec

-----------------------------------------------------------------------------
(* The promise of FiledCall.                                               *)

Filed == {k \in Keys : status[k] \in InDoubt \cup {"confirmed"}}
Effects == filled \cup {k \in SetKeys : made[k] # 0}
Confirmed == {k \in CloseKeys : status[k] = "confirmed"}
Denied == {k \in Keys : status[k] \in {"rejected", "blocked"}}

\* A close is confirmed only when it has filled.
SettledInv == \A k \in CloseKeys : status[k] = "confirmed" => k \in filled

\* A write has its own effect or none.
LEMMA EffectsOf ==
  ASSUME TypeOK, NEW j \in Keys,
         TakesEffect(j) \/ \E accepted \in BOOLEAN : HasNoEffect(j, accepted)
  PROVE  Effects' \in {Effects, Effects \cup {j}} /\ filled \subseteq filled'
<1>1. CASE UNCHANGED <<filled, made>>
  BY <1>1 DEF Effects
<1>2. CASE j \in CloseKeys /\ filled' = filled \cup {j} /\ UNCHANGED made
  BY <1>2 DEF Effects
<1>3. CASE j \in SetKeys /\ UNCHANGED filled /\ \E lives \in BOOLEAN : Place(j, lives)
  <2>1. made' = [made EXCEPT ![j] = placed + 1] /\ placed + 1 # 0 /\ DOMAIN made = SetKeys
    BY <1>3, BoundsAssumption DEF Place, Orders, TypeOK, VenueOK
  <2>2. {k \in SetKeys : made'[k] # 0} = {k \in SetKeys : made[k] # 0} \cup {j}
    BY <1>3, <2>1
  <2> QED
    BY <1>3, <2>2 DEF Effects
<1> QED
  BY <1>1, <1>2, <1>3 DEF TakesEffect, HasNoEffect, bookVars

\* A step that writes nothing to the exchange has no effect there.
LEMMA NoEffects ==
  ASSUME TypeOK, AtOK, [Next]_vars,
         ~ \E c \in Callers : Write(c), ~ \E k \in late : Lands(k)
  PROVE  UNCHANGED <<sends, filled, made>>
BY SendsFrom, EffectsFrom

LEMMA SettledStep ==
  ASSUME TypeOK, AtOK, SettledInv, [Next]_vars
  PROVE  SettledInv'
<1>0. filled \subseteq filled'
  <2>1. ASSUME NEW c \in Callers, Write(c) PROVE filled \subseteq filled'
    BY <2>1 DEF Write, TakesEffect, HasNoEffect
  <2>2. ASSUME NEW k \in late, Lands(k) PROVE filled \subseteq filled'
    BY <2>2 DEF Lands, TakesEffect
  <2> QED
    BY <2>1, <2>2, NoEffects
<1>1. ASSUME NEW r \in Runs, RunStep(r) PROVE \A k \in CloseKeys : status'[k] = status[k]
  BY <1>1, RunStepFrame, KeysApart DEF RunFrame, TypeOK, IntentOK, Keys
<1>2. ASSUME NEW c \in Callers, CallStep(c)
      PROVE  \A k \in CloseKeys : status'[k] = "confirmed" => status[k] = "confirmed"
  <2>1. \A k \in Keys : status'[k] = "confirmed" => status[k] \in {"confirmed"} \cup InDoubt
    BY <1>2, CallStatus DEF StatusMoves
  <2>2. CASE Record(c)
    <3>1. got[c] \in {"submitted", "rejected", "recovery_required"} /\ at[c] \in Keys
      BY <2>2 DEF Record, AtOK, CallSteps
    <3> QED
      BY <2>2, <3>1 DEF Record, Moved, TypeOK, IntentOK, Keys
  <2>3. CASE UNCHANGED status
    BY <2>3
  <2>4. CASE Reserve(c) \/ CheckOthers(c) \/ Authorize(c)
    BY <2>4 DEF Reserve, CheckOthers, Authorize, Moved, TypeOK, IntentOK, Keys
  <2> QED
    BY <1>2, <2>2, <2>3, <2>4 DEF CallStep, Write, intentVars
<1>3. CASE Reconcile
  <2>1. \A k \in CloseKeys : k \in Keys /\ ~SetProven(k) /\ ~CancelProven(k)
    BY KeysApart DEF SetProven, CancelProven, CancelKeys, Keys
  <2>2. \A k \in CloseKeys : status'[k] = "confirmed" => status[k] = "confirmed" \/ k \in filled
    BY <1>3, <2>1 DEF Reconcile
  <2> QED
    BY <1>0, <2>2 DEF SettledInv
<1>4. EnvStep \/ Dies \/ UNCHANGED vars => Reconcile \/ UNCHANGED status
  BY DEF EnvStep, StartClose, Lands, TakeSnapshot, Fill, PositionEnds, intentVars,
         Dies, Crash, vars
<1> QED
  BY <1>0, <1>1, <1>2, <1>3, <1>4, NextCases DEF SettledInv

\* A write under way, or one that may still land, is on file.
LEMMA SentIsFiled ==
  ASSUME GatewayInv
  PROVE  /\ \A c \in Callers : pc[c] = "write" => at[c] \in Filed /\ sends[at[c]] = 0
         /\ \A k \in late : k \in Filed /\ sends[k] = 1
<1> USE DEF GatewayInv, SendInv, EffectInv, NoEffect
<1>1. \A k \in Keys : status[k] \notin Unsent \cup {"rejected"} => k \in Filed
  BY DEF TypeOK, IntentOK, Statuses, Unresolved, Unsent, Filed
<1>2. ASSUME NEW c \in Callers, pc[c] = "write" PROVE at[c] \in Filed /\ sends[at[c]] = 0
  <2>1. at[c] \in Keys /\ sends[at[c]] = 0 /\ status[at[c]] \notin Unsent \cup {"rejected"}
    BY <1>2 DEF AtOK, CallSteps
  <2> QED
    BY <1>1, <2>1
<1>3. ASSUME NEW k \in late PROVE k \in Filed /\ sends[k] = 1
  <2>1. k \in Keys /\ sends[k] = 1 /\ status[k] \notin Unsent \cup {"rejected"}
    BY DEF TypeOK, VenueOK
  <2> QED
    BY <1>1, <2>1
<1> QED
  BY <1>2, <1>3

\* What is settled stays so.
LEMMA WordsStand ==
  ASSUME TypeOK, AtOK, [Next]_vars
  PROVE  Confirmed \subseteq Confirmed' /\ Denied \subseteq Denied'
BY StatusSteps DEF StatusMoves, Confirmed, Denied, InDoubt, Keys

LEMMA CallsStep ==
  ASSUME GatewayInv, GatewayInv', SettledInv, SettledInv', [Next]_vars
  PROVE  [Calls!Next]_(Calls!vars)
<1>0. TypeOK /\ AtOK
  BY DEF GatewayInv
<1>1. ASSUME NEW c \in Callers, Write(c) PROVE Calls!Next
  <2>1. PICK k \in Keys : k = at[c]
    BY <1>1 DEF Write, GatewayInv, AtOK, CallSteps
  <2>2. k \in Filed /\ sends[k] = 0 /\ sends' = [sends EXCEPT ![k] = 1] /\ UNCHANGED status
    <3>1. pc[c] = "write" /\ sends' = [sends EXCEPT ![k] = @ + 1] /\ UNCHANGED status
      BY <1>1, <2>1 DEF Write, intentVars
    <3>2. k \in Filed /\ sends[k] = 0
      BY <2>1, <3>1, SentIsFiled
    <3> QED
      BY <3>1, <3>2
  <2>3. Effects' \in {Effects, Effects \cup {k}}
    BY <1>0, <1>1, <2>1, EffectsOf DEF Write
  <2>4. Calls!Call(k)
    BY <2>2, <2>3 DEF Calls!Call, Filed, Effects
  <2> QED
    BY <2>4 DEF Calls!Next
<1>2. ASSUME NEW k \in late, Lands(k) PROVE [Calls!Next]_(Calls!vars)
  <2>1. k \in Keys /\ k \in Filed /\ sends[k] = 1 /\ UNCHANGED <<sends, status>>
    BY <1>0, <1>2, SentIsFiled DEF Lands, TypeOK, VenueOK, intentVars
  <2>2. Effects' \in {Effects, Effects \cup {k}}
    BY <1>0, <1>2, <2>1, EffectsOf DEF Lands
  <2>3. CASE Effects' = Effects
    BY <2>1, <2>3 DEF Calls!vars, Effects
  <2>4. CASE Effects' = Effects \cup {k}
    <3>1. Calls!TakeEffect(k)
      BY <2>1, <2>4 DEF Calls!TakeEffect, Filed, Effects
    <3> QED
      BY <2>1, <3>1 DEF Calls!Next
  <2> QED
    BY <2>2, <2>3, <2>4
<1>3. ASSUME UNCHANGED <<sends, filled, made>> PROVE [Calls!Next]_(Calls!vars)
  <2>1. CASE \E k \in Keys, c \in Callers :
               Authorize(c) /\ at[c] = k /\ status[k] = "reserved" /\ status'[k] = "submitting"
    <3>1. PICK k \in Keys, c \in Callers :
            Authorize(c) /\ at[c] = k /\ status[k] = "reserved" /\ status'[k] = "submitting"
      BY <2>1
    <3>2. \A l \in Keys : l # k => status'[l] = status[l]
      BY <1>0, <3>1, CallStatus DEF CallStep
    <3>3. /\ Filed' = Filed \cup {k} /\ Confirmed' = Confirmed /\ Denied' = Denied /\ k \notin Denied
      BY <3>1, <3>2 DEF Filed, Confirmed, Denied, InDoubt, Keys
    <3>4. Calls!File(k)
      BY <1>3, <3>3 DEF Calls!File, Filed, Confirmed, Denied
    <3> QED
      BY <3>4 DEF Calls!Next
  <2>2. CASE ~ \E k \in Keys, c \in Callers :
               Authorize(c) /\ at[c] = k /\ status[k] = "reserved" /\ status'[k] = "submitting"
    <3>1. \A k \in Keys : k \in Filed' <=> k \in Filed /\ k \notin Denied'
      <4>1. \A k \in Keys : status'[k] \in Statuses
        BY DEF GatewayInv, TypeOK, IntentOK
      <4> QED
        BY <1>0, <2>2, <4>1, StatusSteps
           DEF StatusMoves, Filed, Denied, InDoubt, Statuses, Unresolved, Unsent
    <3>2. Filed' = Filed \ Denied'
      BY <3>1 DEF Filed
    <3>3. Confirmed' \subseteq Effects
      BY <1>3 DEF SettledInv, Confirmed, Effects
    <3>4. Denied' \subseteq Keys \ Effects
      <4>1. \A k \in Keys : k \in Denied' => k \notin filled' /\ (k \in SetKeys => made'[k] = 0)
        BY DEF GatewayInv, SendInv, EffectInv, NoEffect, Unsent, Denied
      <4> QED
        BY <1>3, <4>1 DEF Denied, Effects
    <3>5. Calls!Tell
      BY <1>0, <1>3, <3>2, <3>3, <3>4, WordsStand DEF Calls!Tell, Filed, Confirmed, Denied, Effects
    <3> QED
      BY <3>5 DEF Calls!Next
  <2> QED
    BY <2>1, <2>2
<1> QED
  BY <1>0, <1>1, <1>2, <1>3, NoEffects

\* Every write to the exchange is made from an intent on file, and once; a close
\* confirmed has filled, an intent rejected or blocked has no effect, and
\* neither is ever taken back.
THEOREM GatewayKeepsPromise == Spec => CallsFiled
<1>1. Init => Calls!Init /\ SettledInv
  BY DEF Init, Calls!Init, SettledInv, InDoubt, Keys
<1>2. Spec => []SettledInv
  <2>1. GatewayInv /\ SettledInv /\ [Next]_vars => SettledInv'
    BY SettledStep DEF GatewayInv
  <2> QED
    BY <1>1, <2>1, GatewayCorrect, PTL DEF Spec
<1> QED
  BY <1>1, <1>2, CallsStep, GatewayCorrect, PTL DEF Spec, CallsFiled, Calls!Spec

\* The same calls, with what is proved of FiledCall.
Books == INSTANCE FiledCallProofs WITH
  Ids <- Keys, filed <- {k \in Keys : status[k] \in InDoubt \cup {"confirmed"}},
  calls <- sends,
  effects <- filled \cup {k \in SetKeys : made[k] # 0},
  done <- {k \in CloseKeys : status[k] = "confirmed"},
  denied <- {k \in Keys : status[k] \in {"rejected", "blocked"}}

\* What the gateway's promise comes to: an intent was sent at most once, a
\* confirmed close has filled, a rejected or blocked write had no effect.
THEOREM GatewayBooks == Spec => []Calls!BooksTrue
<1>1. Books!Init <=> Calls!Init
  BY DEF Books!Init, Calls!Init
<1>2. [Books!Next]_(Books!vars) <=> [Calls!Next]_(Calls!vars)
  BY DEF Books!Next, Books!File, Books!Call, Books!TakeEffect, Books!Tell, Books!vars,
         Calls!Next, Calls!File, Calls!Call, Calls!TakeEffect, Calls!Tell, Calls!vars
<1>3. Books!BooksTrue <=> Calls!BooksTrue
  BY DEF Books!BooksTrue, Calls!BooksTrue
<1>. QED
  BY <1>1, <1>2, <1>3, GatewayKeepsPromise, Books!BooksAreTrue, PTL DEF CallsFiled, Calls!Spec, Books!Spec
=============================================================================
