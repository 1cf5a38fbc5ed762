------------------------- MODULE MessageQueueProofs -------------------------
(***************************************************************************)
(* The safety of the message queue for any number of messages, chats,      *)
(* slots, attempts, stops, slow processors and re-armed jobs.              *)
(***************************************************************************)
EXTENDS MessageQueue, FiniteSetTheorems, TLAPS

\* A processor carries a claim number its row has given out.
Tokens == \A p \in procs : p.tok <= token[p.msg]

\* One claim of a row, one processor.
Unique == \A p, q \in procs : p.msg = q.msg /\ p.tok = q.tok => p = q

\* The age of a held claim is the age of its processor, up to the lease.
Ages == \A p \in procs : Holds(p) => p.age = Least(Lease, age[p.msg])

\* A claimed row that does not own its lane has an earlier row of its chat
\* that was armed behind a claimed later one.
Lanes ==
  \A m, n \in Msgs :
    ChatOf[m] = ChatOf[n] /\ m < n /\ status[n] = "claimed" /\ status[m] \in Live
    => m \in late

\* An unsettled row has an attempt left.
Spared == \A m \in Msgs : status[m] \in Live => attempts[m] < MaxAttempts

\* Attempts charged to a row are processings of it that failed, and a holder
\* about to be charged has failed once more.
Charged ==
  /\ \A m \in Msgs : attempts[m] <= errors[m]
  /\ \A p \in procs : Holds(p) =>
       /\ p.att = attempts[p.msg]
       /\ p.at = "error" => attempts[p.msg] + 1 <= errors[p.msg]

\* As long as the claims of a message never overlapped, whoever works on it
\* holds it.
Unlapsed == \A p \in procs : p.msg \notin lapsed => Holds(p)

IInv ==
  /\ TypeOK /\ IsFiniteSet(procs)
  /\ Tokens /\ Unique /\ Ages /\ ClaimHeld
  /\ Lanes /\ Spared /\ Charged /\ FailedIsEarned
  /\ Unlapsed /\ FailedSaysSo

-----------------------------------------------------------------------------
(* Types.                                                                  *)

LEMMA LeastType ==
  ASSUME NEW a \in Nat, NEW b \in Nat
  PROVE  Least(a, b) \in 0..a
BY DEF Least

LEMMA BackoffType ==
  ASSUME NEW n \in 1..MaxAttempts
  PROVE  Backoff(n) \in 0..RetryMax
<1>1. RetryMax \in Nat
  BY QueueAssumption
<1>2. RetryBase * 2^(n - 1) \in Nat
  BY BackoffAssumption, Zenon
<1> QED
  BY <1>1, <1>2, LeastType, Zenon DEF Backoff

LEMMA FiniteImage ==
  ASSUME NEW S, IsFiniteSet(S), NEW f
  PROVE  IsFiniteSet({f[x] : x \in S})
<1> DEFINE T == {f[x] : x \in S}
           h == [x \in S |-> f[x]]
<1>1. h \in Surjection(S, T)
  BY DEF Surjection
<1> QED
  BY <1>1, FS_Surjection

LEMMA ProcTypes ==
  ASSUME NEW p \in Processors
  PROVE  /\ p.msg \in Msgs /\ p.tok \in Nat /\ p.att \in Nat /\ p.at \in Stages
         /\ p.age \in 0..Lease /\ p.awaited \in BOOLEAN
BY DEF Processors

\* The rows of a typed state; what the steps of Tick and Defer compute stays
\* within the ages.
RowTypes ==
  /\ status \in [Msgs -> {"absent"} \cup Live \cup Settled]
  /\ token \in [Msgs -> Nat]
  /\ attempts \in [Msgs -> 0..MaxAttempts]
  /\ wait \in [Msgs -> 0..RetryMax]
  /\ age \in [Msgs -> 0..RowAge]
  /\ old \in [Msgs -> 0..MaxAge]
  /\ decision \in [Msgs -> {"none", "done", "refused", "failed", "exhausted", "expired"}]
  /\ errors \in [Msgs -> Nat]
  /\ late \subseteq Msgs /\ lapsed \subseteq Msgs /\ executed \subseteq Msgs

ProcsOK == procs \subseteq Processors /\ IsFiniteSet(procs)

LEMMA Limits ==
  /\ NumMsgs \in Nat /\ MaxAge \in Nat /\ Lease \in Nat \ {0} /\ MaxAttempts \in Nat \ {0}
  /\ RetryMax \in Nat /\ RowAge \in Nat /\ Lease <= RowAge /\ RetryMax <= RowAge
  /\ Msgs \subseteq Nat
BY QueueAssumption DEF RowAge, Msgs

LEMMA MinusType ==
  ASSUME NEW n \in Nat, NEW a \in 0..n, NEW b \in Nat
  PROVE  Minus(a, b) \in 0..n
BY DEF Minus

LEMMA EndsType ==
  ASSUME ProcsOK, NEW p \in procs, NEW how \in Stages, Ends(p, how)
  PROVE  ProcsOK'
<1>1. p \in Processors
  BY DEF ProcsOK
<1>2. [p EXCEPT !.at = how] \in Processors
  BY <1>1 DEF Processors
<1>3. IsFiniteSet(procs \ {p}) /\ IsFiniteSet((procs \ {p}) \cup {[p EXCEPT !.at = how]})
  BY FS_RemoveElement, FS_AddElement DEF ProcsOK
<1> QED
  BY <1>2, <1>3 DEF ProcsOK, Ends

LEMMA ProcsStep ==
  ASSUME TypeOK, IsFiniteSet(procs), [Next]_vars
  PROVE  ProcsOK'
<1>0. ProcsOK
  BY DEF TypeOK, ProcsOK
<1>1. ASSUME procs' = procs PROVE ProcsOK'
  BY <1>0, <1>1 DEF ProcsOK
<1>2. ASSUME NEW m \in Msgs, Claim(m) PROVE ProcsOK'
  <2>1. PICK new : /\ procs' = procs \cup {new}
                   /\ new = [msg |-> m, tok |-> token[m] + 1, att |-> AttemptsSeen(m),
                             at |-> IF old[m] >= MaxAge /\ m \notin Refused
                                    THEN "expire" ELSE "run",
                             age |-> 0, awaited |-> TRUE]
    BY <1>2 DEF Claim
  <2>2. token[m] + 1 \in Nat /\ AttemptsSeen(m) \in Nat
    BY QueueAssumption DEF TypeOK, AttemptsSeen
  <2>3. 0 \in 0..Lease
    BY Limits
  <2>4. new \in Processors
    BY <2>1, <2>2, <2>3 DEF Processors, Stages
  <2> QED
    BY <1>0, <2>1, <2>4, FS_AddElement DEF ProcsOK
<1>3. ASSUME NEW p \in procs, Completes(p) \/ Fails(p) \/ Raises(p) \/ RecordGap(p)
      PROVE  ProcsOK'
  <2>1. \E how \in Stages : Ends(p, how)
    BY <1>3 DEF Completes, Fails, Raises, RecordGap, Stages
  <2> QED
    BY <1>0, <2>1, EndsType
<1>4. ASSUME NEW p \in procs, procs' = procs \ {p} PROVE ProcsOK'
  BY <1>0, <1>4, FS_RemoveElement DEF ProcsOK
<1>5. CASE LoopEnds
  <2> DEFINE S == {q \in procs : q.at \in {"run", "expire"}}
             f == [q \in procs |-> [q EXCEPT !.awaited = FALSE]]
  <2>1. IsFiniteSet(S)
    BY <1>0, FS_Subset DEF ProcsOK
  <2>2. procs' = {f[q] : q \in S}
    BY <1>5 DEF LoopEnds, Abandoned
  <2>3. IsFiniteSet(procs')
    <3> HIDE DEF S, f
    <3> QED
      BY <2>1, <2>2, FiniteImage
  <2>4. \A q \in S : [q EXCEPT !.awaited = FALSE] \in Processors
    BY <1>0 DEF ProcsOK, Processors
  <2> QED
    BY <2>2, <2>3, <2>4 DEF ProcsOK
<1>6. CASE Crash
  BY <1>6, FS_EmptySet DEF Crash, ProcsOK
<1>7. CASE Tick
  <2> DEFINE f == [q \in procs |-> [q EXCEPT !.age = Least(Lease, q.age + 1)]]
  <2>1. procs' = {f[q] : q \in procs}
    BY <1>7 DEF Tick
  <2>2. IsFiniteSet(procs')
    <3> HIDE DEF f
    <3> QED
      BY <1>0, <2>1, FiniteImage DEF ProcsOK
  <2>3. ASSUME NEW q \in procs PROVE f[q] \in Processors
    <3>1. q \in Processors
      BY <1>0 DEF ProcsOK
    <3>2. q.age + 1 \in Nat
      BY <3>1, ProcTypes, Limits
    <3>3. Least(Lease, q.age + 1) \in 0..Lease
      BY <3>2, Limits, LeastType
    <3> QED
      BY <3>1, <3>3 DEF Processors
  <2> QED
    BY <2>1, <2>2, <2>3 DEF ProcsOK
<1>8. ASSUME NEW m \in Msgs, Enqueue(m) \/ Rearm(m) PROVE procs' = procs
  BY <1>8 DEF Enqueue, Rearm
<1>9. ASSUME NEW p \in procs, Settle(p) \/ Defer(p) PROVE procs' = procs \ {p}
  BY <1>9 DEF Settle, Defer
<1>10. CASE Restart \/ UNCHANGED vars
  BY <1>1, <1>10 DEF Restart, vars
<1> QED
  BY <1>1, <1>2, <1>3, <1>4, <1>5, <1>6, <1>7, <1>8, <1>9, <1>10 DEF Next, ProcStep

LEMMA ArmType ==
  ASSUME TypeOK, NEW m \in Msgs, Arm(m)
  PROVE  /\ status' \in [Msgs -> {"absent"} \cup Live \cup Settled]
         /\ attempts' \in [Msgs -> 0..MaxAttempts]
         /\ wait' \in [Msgs -> 0..RetryMax]
         /\ age' \in [Msgs -> 0..RowAge]
         /\ errors' \in [Msgs -> Nat]
         /\ late' \subseteq Msgs
<1>1. 0 \in 0..MaxAttempts /\ 0 \in 0..RetryMax /\ 0 \in 0..RowAge
  BY Limits
<1> QED
  BY <1>1 DEF Arm, TypeOK, Live

\* What Defer stores for a row whose claim its processor holds.
LEMMA DeferType ==
  ASSUME TypeOK, Spared, Charged, NEW p \in procs, Holds(p)
  PROVE  /\ p.msg \in Msgs /\ p.att = attempts[p.msg]
         /\ p.att + 1 \in 1..MaxAttempts
         /\ Minus(Backoff(p.att + 1), age[p.msg]) \in 0..RetryMax
<1>1. p \in Processors
  BY DEF TypeOK
<1>2. p.msg \in Msgs /\ p.att \in Nat
  BY <1>1, ProcTypes
<1>3. p.att = attempts[p.msg] /\ attempts[p.msg] < MaxAttempts
  BY <1>2 DEF Charged, Spared, Holds, Live
<1>4. p.att + 1 \in 1..MaxAttempts
  BY <1>2, <1>3, Limits
<1>5. age[p.msg] \in 0..RowAge
  BY <1>2 DEF TypeOK
<1>8. age[p.msg] \in Nat
  BY <1>5, Limits
<1>6. Backoff(p.att + 1) \in 0..RetryMax
  BY <1>4, BackoffType
<1>7. RetryMax \in Nat
  BY Limits
<1> QED
  BY <1>2, <1>3, <1>4, <1>6, <1>7, <1>8, MinusType

LEMMA RowsStep ==
  ASSUME TypeOK, Spared, Charged, [Next]_vars
  PROVE  RowTypes'
<1>0. RowTypes /\ \A p \in procs : p.msg \in Msgs /\ p.tok \in Nat /\ p.att \in Nat
  BY ProcTypes DEF TypeOK, RowTypes
<1>1. ASSUME NEW m \in Msgs, Enqueue(m) PROVE RowTypes'
  <2>1. \E posted \in {0, MaxAge} : old' = [old EXCEPT ![m] = posted]
    BY <1>1 DEF Enqueue
  <2>2. old' \in [Msgs -> 0..MaxAge]
    BY <1>0, <2>1, Limits DEF RowTypes
  <2>3. Arm(m) /\ UNCHANGED <<token, decision, lapsed, executed>>
    BY <1>1 DEF Enqueue
  <2> QED
    BY <1>0, <2>2, <2>3, ArmType DEF RowTypes
<1>2. ASSUME NEW m \in Msgs, Rearm(m) PROVE RowTypes'
  <2>1. Arm(m) /\ UNCHANGED <<token, old, decision, lapsed, executed>>
    BY <1>2 DEF Rearm
  <2> QED
    BY <1>0, <2>1, ArmType DEF RowTypes
<1>3. ASSUME NEW m \in Msgs, Claim(m) PROVE RowTypes'
  <2>1. /\ status' = [status EXCEPT ![m] = "claimed"]
        /\ token' = [token EXCEPT ![m] = @ + 1]
        /\ age' = [age EXCEPT ![m] = 0]
        /\ lapsed' \subseteq lapsed \cup {m}
        /\ UNCHANGED <<attempts, wait, old, decision, errors, late, executed>>
    BY <1>3 DEF Claim
  <2>2. 0 \in 0..RowAge
    BY Limits
  <2>3. age' \in [Msgs -> 0..RowAge]
    BY <1>0, <2>1, <2>2 DEF RowTypes
  <2>4. status' \in [Msgs -> {"absent"} \cup Live \cup Settled]
    BY <1>0, <2>1 DEF RowTypes, Live
  <2>5. token' \in [Msgs -> Nat]
    BY <1>0, <2>1 DEF RowTypes
  <2> QED
    BY <1>0, <2>1, <2>3, <2>4, <2>5 DEF RowTypes
<1>4. ASSUME NEW p \in procs, Completes(p) \/ Fails(p) \/ Raises(p) \/ RecordGap(p)
      PROVE  RowTypes'
  <2>1. UNCHANGED <<jobVars, late, lapsed>>
    BY <1>4 DEF Completes, Fails, Raises, RecordGap, history
  <2>2. errors' = errors \/ errors' = [errors EXCEPT ![p.msg] = @ + 1]
    BY <1>4 DEF Completes, Fails, Raises, RecordGap, history, Erred
  <2>3. executed' \subseteq executed \cup {p.msg}
    BY <1>4 DEF Completes, Fails, Raises, RecordGap, history
  <2>4. \/ decision' = decision
        \/ \E d \in {"done", "failed", "refused", "expired"} :
             decision' = [decision EXCEPT ![p.msg] = d]
    BY <1>4 DEF Completes, Fails, Raises, RecordGap
  <2>5. errors' \in [Msgs -> Nat]
    BY <1>0, <2>2 DEF RowTypes
  <2> QED
    BY <1>0, <2>1, <2>3, <2>4, <2>5 DEF RowTypes, jobVars
<1>5. ASSUME NEW p \in procs, Settle(p) PROVE RowTypes'
  <2>1. /\ UNCHANGED <<token, attempts, old, decision, history>>
        /\ \/ UNCHANGED <<status, wait, age>>
           \/ /\ status' = [status EXCEPT ![p.msg] = Outcome(p)]
              /\ wait' = [wait EXCEPT ![p.msg] = 0]
              /\ age' = [age EXCEPT ![p.msg] = 0]
    BY <1>5 DEF Settle
  <2>2. Outcome(p) \in Settled
    BY DEF Outcome, Settled
  <2>3. 0 \in 0..RetryMax /\ 0 \in 0..RowAge
    BY Limits
  <2>4. /\ status' \in [Msgs -> {"absent"} \cup Live \cup Settled]
        /\ wait' \in [Msgs -> 0..RetryMax] /\ age' \in [Msgs -> 0..RowAge]
    BY <1>0, <2>1, <2>2, <2>3 DEF RowTypes
  <2> QED
    BY <1>0, <2>1, <2>4 DEF RowTypes, history
<1>6. ASSUME NEW p \in procs, Defer(p) PROVE RowTypes'
  <2>1. UNCHANGED <<token, old, history>>
    BY <1>6 DEF Defer
  <2>2. CASE ~Holds(p)
    <3>1. UNCHANGED <<status, attempts, wait, age, decision>>
      BY <1>6, <2>2 DEF Defer
    <3> QED
      BY <1>0, <2>1, <3>1 DEF RowTypes, history
  <2>3. CASE Holds(p)
    <3> DEFINE n == p.att + 1
               b == Minus(Backoff(n), age[p.msg])
    <3>1. /\ p.msg \in Msgs /\ n \in 0..MaxAttempts /\ b \in 0..RetryMax
      BY <2>3, DeferType
    <3>2. /\ \E s \in {"failed", "pending"} : status' = [status EXCEPT ![p.msg] = s]
          /\ attempts' = [attempts EXCEPT ![p.msg] = n]
          /\ \E w \in {0, b} : wait' = [wait EXCEPT ![p.msg] = w]
          /\ age' = [age EXCEPT ![p.msg] = 0]
          /\ \/ decision' = decision
             \/ decision' = [decision EXCEPT ![p.msg] = GivesUp(decision[p.msg])]
      BY <1>6, <2>3 DEF Defer
    <3> HIDE DEF n, b
    <3>3. 0 \in 0..RetryMax /\ 0 \in 0..RowAge
      BY Limits
    <3>4. decision' \in [Msgs -> {"none", "done", "refused", "failed", "exhausted", "expired"}]
      BY <1>0, <3>2 DEF RowTypes, GivesUp
    <3>5. status' \in [Msgs -> {"absent"} \cup Live \cup Settled]
      BY <1>0, <3>2 DEF RowTypes, Live, Settled
    <3>6. /\ attempts' \in [Msgs -> 0..MaxAttempts] /\ wait' \in [Msgs -> 0..RetryMax]
          /\ age' \in [Msgs -> 0..RowAge]
      BY <1>0, <3>1, <3>2, <3>3 DEF RowTypes
    <3> QED
      BY <1>0, <2>1, <3>4, <3>5, <3>6 DEF RowTypes, history
  <2> QED
    BY <2>2, <2>3
<1>7. CASE Tick
  <2>1. /\ UNCHANGED <<status, token, attempts, decision, history>>
        /\ wait' = [m \in Msgs |-> Minus(wait[m], 1)]
        /\ age' = [m \in Msgs |-> IF status[m] = "claimed" THEN Least(RowAge, age[m] + 1)
                                  ELSE age[m]]
        /\ old' = [m \in Msgs |-> IF status[m] \in Live THEN Least(MaxAge, old[m] + 1)
                                  ELSE old[m]]
    BY <1>7 DEF Tick
  <2>2. \A m \in Msgs : Minus(wait[m], 1) \in 0..RetryMax
    BY <1>0, Limits, MinusType DEF RowTypes
  <2>3. ASSUME NEW m \in Msgs PROVE Least(RowAge, age[m] + 1) \in 0..RowAge
    <3>1. age[m] \in 0..RowAge
      BY <1>0 DEF RowTypes
    <3>2. age[m] + 1 \in Nat /\ RowAge \in Nat
      BY <3>1, Limits
    <3> QED
      BY <3>2, LeastType
  <2>4. ASSUME NEW m \in Msgs PROVE Least(MaxAge, old[m] + 1) \in 0..MaxAge
    <3>1. old[m] \in 0..MaxAge
      BY <1>0 DEF RowTypes
    <3>2. old[m] + 1 \in Nat /\ MaxAge \in Nat
      BY <3>1, Limits
    <3> QED
      BY <3>2, LeastType
  <2> QED
    BY <1>0, <2>1, <2>2, <2>3, <2>4 DEF RowTypes, history
<1>8. CASE LoopEnds \/ Crash \/ Restart \/ UNCHANGED vars
  <2>1. UNCHANGED <<jobVars, decision, history>>
    BY <1>8 DEF LoopEnds, Crash, Restart, vars
  <2> QED
    BY <1>0, <2>1 DEF RowTypes, jobVars, history
<1> QED
  BY <1>1, <1>2, <1>3, <1>4, <1>5, <1>6, <1>7, <1>8 DEF Next, ProcStep

\* Every step keeps the types; the attempts stay in range because only a holder
\* whose row has one left is charged.
LEMMA TypeStep ==
  ASSUME TypeOK, IsFiniteSet(procs), Spared, Charged, [Next]_vars
  PROVE  TypeOK' /\ IsFiniteSet(procs')
<1>1. RowTypes'
  BY RowsStep
<1>2. ProcsOK'
  BY ProcsStep
<1>3. loop' \in {"up", "ended"}
  BY DEF TypeOK, Next, ProcStep, Enqueue, Rearm, Claim, Completes, Fails, Raises, RecordGap,
         Settle, Defer, LoopEnds, Crash, Restart, Tick, vars
<1>4. stops' \in Nat /\ rearms' \in Nat
  BY DEF TypeOK, Next, ProcStep, Enqueue, Rearm, Claim, Completes, Fails, Raises, RecordGap,
         Settle, Defer, LoopEnds, Crash, Restart, Tick, vars, budgets
<1>5. slow' \in Nat
  <2>1. CASE Tick
    <3>1. IsFiniteSet(Overdue)
      BY FS_Subset DEF Overdue
    <3> QED
      BY <2>1, <3>1, FS_CardinalityType DEF Tick, TypeOK
  <2>2. CASE ~Tick
    <3>1. slow' = slow
      BY <2>2 DEF Next, ProcStep, Enqueue, Rearm, Claim, Completes, Fails, Raises, RecordGap,
                  Settle, Defer, LoopEnds, Crash, Restart, vars, budgets
    <3> QED
      BY <3>1 DEF TypeOK
  <2> QED
    BY <2>1, <2>2
<1> QED
  BY <1>1, <1>2, <1>3, <1>4, <1>5 DEF TypeOK, RowTypes, ProcsOK

-----------------------------------------------------------------------------
(* The shapes of a step: what it does to the rows and to the processors.   *)

\* A row nobody works on is armed.
Arms(m) ==
  /\ status[m] \notin Live
  /\ Arm(m)
  /\ UNCHANGED <<token, decision, procs, lapsed>>

\* The thread of a processor ends.
Works(p) ==
  /\ UNCHANGED <<jobVars, late, lapsed>>
  /\ \E how \in Stages :
       /\ Ends(p, how)
       /\ IF how = "error" THEN Erred(p) ELSE UNCHANGED errors
  /\ decision' = decision \/ \E d : decision' = [decision EXCEPT ![p.msg] = d]

\* A processor leaves, and the row it held is free again: s is its status, a
\* its attempts.
Releases(p) ==
  /\ procs' = procs \ {p}
  /\ UNCHANGED <<token, history>>
  /\ \/ UNCHANGED <<status, attempts, age, decision>>
     \/ \E s \in Settled \cup {"pending"}, a \in 0..MaxAttempts :
          /\ Holds(p)
          /\ status' = [status EXCEPT ![p.msg] = s]
          /\ attempts' = [attempts EXCEPT ![p.msg] = a]
          /\ age' = [age EXCEPT ![p.msg] = 0]
          /\ \/ a = attempts[p.msg]
             \/ a = attempts[p.msg] + 1 /\ p.at = "error"
          /\ s = "pending" => a < MaxAttempts
          /\ s = "failed" => a = MaxAttempts /\ decision'[p.msg] # "failed"
          /\ \/ decision' = decision
             \/ \E d : decision' = [decision EXCEPT ![p.msg] = d]

\* Nothing happens to the rows; processors may be lost or abandoned.
Rests ==
  /\ UNCHANGED <<jobVars, decision, history>>
  /\ procs' \subseteq procs \/ procs' = Abandoned

LEMMA DeferReleases ==
  ASSUME TypeOK, Spared, Charged, NEW p \in procs, Defer(p)
  PROVE  Releases(p)
<1>1. procs' = procs \ {p} /\ UNCHANGED <<token, history>>
  BY DEF Defer
<1>2. CASE ~Holds(p)
  BY <1>1, <1>2 DEF Defer, Releases
<1>3. CASE Holds(p)
  <2> DEFINE n == p.att + 1
             s == IF n >= MaxAttempts THEN "failed" ELSE "pending"
  <2>1. p.msg \in Msgs /\ p.att = attempts[p.msg] /\ n \in 1..MaxAttempts
    BY <1>3, DeferType
  <2>2. n \in 0..MaxAttempts /\ n = attempts[p.msg] + 1
    BY <2>1
  <2>3. /\ p.at = "error"
        /\ status' = [status EXCEPT ![p.msg] = s]
        /\ attempts' = [attempts EXCEPT ![p.msg] = n]
        /\ age' = [age EXCEPT ![p.msg] = 0]
        /\ decision' = IF n >= MaxAttempts
                       THEN [decision EXCEPT ![p.msg] = GivesUp(decision[p.msg])]
                       ELSE decision
    BY <1>3 DEF Defer
  <2>4. s \in Settled \cup {"pending"}
    BY DEF Settled
  <2>5. s = "pending" => n < MaxAttempts
    BY <2>1, Limits
  <2>6. ASSUME s = "failed" PROVE n = MaxAttempts /\ decision'[p.msg] # "failed"
    <3>1. n >= MaxAttempts
      BY <2>6
    <3>2. n = MaxAttempts
      BY <2>1, <3>1, Limits
    <3>3. decision' = [decision EXCEPT ![p.msg] = GivesUp(decision[p.msg])]
      BY <2>3, <3>1
    <3> QED
      BY <2>1, <3>2, <3>3 DEF TypeOK, GivesUp
  <2>7. decision' = decision \/ \E d : decision' = [decision EXCEPT ![p.msg] = d]
    BY <2>3
  <2> HIDE DEF n, s
  <2> QED
    BY <1>1, <1>3, <2>2, <2>3, <2>4, <2>5, <2>6, <2>7 DEF Releases
<1> QED
  BY <1>2, <1>3

LEMMA SettleReleases ==
  ASSUME TypeOK, NEW p \in procs, Settle(p)
  PROVE  Releases(p)
<1>1. procs' = procs \ {p} /\ UNCHANGED <<token, attempts, decision, history>>
  BY DEF Settle
<1>2. CASE ~Holds(p)
  BY <1>1, <1>2 DEF Settle, Releases
<1>3. CASE Holds(p)
  <2>1. /\ status' = [status EXCEPT ![p.msg] = Outcome(p)]
        /\ age' = [age EXCEPT ![p.msg] = 0]
    BY <1>3 DEF Settle
  <2>2. Outcome(p) \in Settled /\ Outcome(p) # "pending" /\ Outcome(p) # "failed"
    BY DEF Outcome, Settled
  <2>3. p.msg \in Msgs
    BY ProcTypes DEF TypeOK
  <2>4. /\ attempts[p.msg] \in 0..MaxAttempts
        /\ attempts' = [attempts EXCEPT ![p.msg] = attempts[p.msg]]
    BY <1>1, <2>3 DEF TypeOK
  <2> QED
    BY <1>1, <1>3, <2>1, <2>2, <2>4 DEF Releases
<1> QED
  BY <1>2, <1>3

LEMMA Shapes ==
  ASSUME TypeOK, Spared, Charged, [Next]_vars
  PROVE  \/ \E m \in Msgs : Arms(m) \/ Claim(m)
         \/ \E p \in procs : Works(p) \/ Releases(p)
         \/ Rests \/ Tick
<1>1. ASSUME NEW m \in Msgs, Enqueue(m) \/ Rearm(m) PROVE Arms(m)
  BY <1>1 DEF Enqueue, Rearm, Rearmable, Arms, Live, Settled
<1>2. ASSUME NEW p \in procs, Completes(p) PROVE Works(p)
  BY <1>2 DEF Completes, Works, Stages
<1>3. ASSUME NEW p \in procs, Fails(p) PROVE Works(p)
  BY <1>3 DEF Fails, Works, Stages
<1>4. ASSUME NEW p \in procs, Raises(p) PROVE Works(p)
  BY <1>4 DEF Raises, Works, Stages
<1>5. ASSUME NEW p \in procs, RecordGap(p) PROVE Works(p)
  BY <1>5 DEF RecordGap, Works, Stages, history
<1>6. ASSUME LoopEnds \/ Crash \/ Restart \/ UNCHANGED vars PROVE Rests
  BY <1>6 DEF LoopEnds, Crash, Restart, vars, Rests
<1> QED
  BY <1>1, <1>2, <1>3, <1>4, <1>5, <1>6, DeferReleases, SettleReleases DEF Next, ProcStep

-----------------------------------------------------------------------------
(* What a step leaves of the processors: each of them comes from one that  *)
(* was there, and holds its claim exactly if that one did.                 *)

HoldsNext(o) == status'[o.msg] = "claimed" /\ token'[o.msg] = o.tok

Kept(q, o) ==
  /\ q.msg = o.msg /\ q.tok = o.tok /\ q.att = o.att
  /\ HoldsNext(o) <=> Holds(o)
  /\ o.age <= q.age
  /\ Holds(o) =>
       /\ attempts'[o.msg] = attempts[o.msg]
       /\ errors[o.msg] <= errors'[o.msg]
       /\ q.at = "error" => o.at = "error" \/ errors'[o.msg] = errors[o.msg] + 1
       /\ o.age = Least(Lease, age[o.msg]) => q.age = Least(Lease, age'[o.msg])

Framed(f) == \A q \in procs' : \E o \in procs : q = f[o] /\ Kept(q, o)

\* A processor that is as it was, with its row as it was.
LEMMA KeptSame ==
  ASSUME TypeOK, NEW o \in procs,
         status'[o.msg] = status[o.msg], token'[o.msg] = token[o.msg],
         attempts'[o.msg] = attempts[o.msg], age'[o.msg] = age[o.msg],
         errors'[o.msg] = errors[o.msg]
  PROVE  Kept(o, o)
<1>1. o \in Processors
  BY DEF TypeOK
<1>2. o.msg \in Msgs /\ o.age \in Nat
  BY <1>1, ProcTypes, Limits
<1>3. errors[o.msg] \in Nat
  BY <1>2 DEF TypeOK
<1>4. HoldsNext(o) <=> Holds(o)
  BY DEF HoldsNext, Holds
<1> QED
  BY <1>2, <1>3, <1>4 DEF Kept

\* A processor without its claim, whose row is not claimed by the step.
LEMMA KeptFree ==
  ASSUME TypeOK, NEW o \in procs, ~Holds(o), status'[o.msg] # "claimed"
  PROVE  Kept(o, o)
<1>1. o.age \in Nat
  BY ProcTypes, Limits DEF TypeOK
<1> QED
  BY <1>1 DEF Kept, HoldsNext

LEMMA FrameArms ==
  ASSUME TypeOK, NEW m \in Msgs, Arms(m)
  PROVE  \E f : Framed(f)
<1> DEFINE f == [o \in procs |-> o]
<1>1. procs' = procs /\ Arm(m) /\ status[m] \notin Live /\ UNCHANGED token
  BY DEF Arms
<1>2. ASSUME NEW o \in procs PROVE Kept(o, o)
  <2>0. o.msg \in Msgs
    BY ProcTypes DEF TypeOK
  <2>1. CASE o.msg = m
    <3>1. ~Holds(o)
      BY <1>1, <2>1 DEF Holds, Live
    <3>2. status'[m] = "pending"
      BY <1>1 DEF Arm, TypeOK
    <3> QED
      BY <2>1, <3>1, <3>2, KeptFree
  <2>2. CASE o.msg # m
    <3>1. /\ status'[o.msg] = status[o.msg] /\ token'[o.msg] = token[o.msg]
          /\ attempts'[o.msg] = attempts[o.msg] /\ age'[o.msg] = age[o.msg]
          /\ errors'[o.msg] = errors[o.msg]
      BY <1>1, <2>0, <2>2 DEF Arm, TypeOK
    <3> QED
      BY <3>1, KeptSame
  <2> QED
    BY <2>1, <2>2
<1>3. Framed(f)
  BY <1>1, <1>2 DEF Framed
<1> QED
  BY <1>3

LEMMA FrameWorks ==
  ASSUME TypeOK, NEW p \in procs, Works(p)
  PROVE  \E f : Framed(f)
<1>1. PICK how \in Stages : /\ Ends(p, how)
                            /\ IF how = "error" THEN Erred(p) ELSE UNCHANGED errors
  BY DEF Works
<1> DEFINE e == [p EXCEPT !.at = how]
           f == [o \in procs |-> IF o = p THEN e ELSE o]
<1>2. UNCHANGED <<status, token, attempts, age>>
  BY DEF Works, jobVars
<1>3. \A q \in procs' : q = e \/ (q \in procs /\ q # p)
  BY <1>1 DEF Ends
<1>4. errors' \in [Msgs -> Nat] /\ \A m \in Msgs : errors[m] <= errors'[m]
  BY <1>1, ProcTypes DEF Erred, TypeOK
<1>5. Kept(e, p)
  <2>1. p \in Processors
    BY DEF TypeOK
  <2>2. /\ e.msg = p.msg /\ e.tok = p.tok /\ e.att = p.att /\ e.age = p.age /\ e.at = how
        /\ p.msg \in Msgs /\ p.age \in Nat
    BY <2>1, ProcTypes, Limits DEF Processors
  <2>3. how = "error" => errors'[p.msg] = errors[p.msg] + 1
    BY <1>1, <2>2 DEF Erred, TypeOK
  <2>4. HoldsNext(p) <=> Holds(p)
    BY <1>2 DEF HoldsNext, Holds
  <2>5. errors[p.msg] <= errors'[p.msg]
    BY <1>4, <2>2
  <2>6. attempts'[p.msg] = attempts[p.msg] /\ age'[p.msg] = age[p.msg]
    BY <1>2
  <2> HIDE DEF e
  <2> QED
    BY <2>2, <2>3, <2>4, <2>5, <2>6 DEF Kept
<1>6. ASSUME NEW o \in procs, o # p PROVE Kept(o, o)
  <2>1. o \in Processors
    BY DEF TypeOK
  <2>2. o.msg \in Msgs /\ o.age \in Nat
    BY <2>1, ProcTypes, Limits
  <2>3. HoldsNext(o) <=> Holds(o)
    BY <1>2 DEF HoldsNext, Holds
  <2>4. errors[o.msg] <= errors'[o.msg]
    BY <1>4, <2>2
  <2>5. attempts'[o.msg] = attempts[o.msg] /\ age'[o.msg] = age[o.msg]
    BY <1>2
  <2> QED
    BY <2>2, <2>3, <2>4, <2>5 DEF Kept
<1>7. f[p] = e /\ \A o \in procs : o # p => f[o] = o
  OBVIOUS
<1>8. Framed(f)
  <2> HIDE DEF e, f
  <2> QED
    BY <1>3, <1>5, <1>6, <1>7 DEF Framed
<1> QED
  BY <1>8

\* Nobody else holds the claim that is released.
LEMMA FrameReleases ==
  ASSUME TypeOK, Unique, NEW p \in procs, Releases(p)
  PROVE  \E f : Framed(f)
<1> DEFINE f == [o \in procs |-> o]
<1>1. procs' = procs \ {p} /\ UNCHANGED <<token, errors>>
  BY DEF Releases, history
<1>2. ASSUME NEW o \in procs, o # p PROVE Kept(o, o)
  <2>0. o.msg \in Msgs
    BY ProcTypes DEF TypeOK
  <2>1. CASE UNCHANGED <<status, attempts, age>>
    BY <1>1, <2>1, KeptSame
  <2>2. ASSUME NEW s \in Settled \cup {"pending"}, NEW a,
               Holds(p),
               status' = [status EXCEPT ![p.msg] = s],
               attempts' = [attempts EXCEPT ![p.msg] = a],
               age' = [age EXCEPT ![p.msg] = 0]
        PROVE  Kept(o, o)
    <3>1. CASE o.msg = p.msg
      <4>1. ~Holds(o)
        BY <1>2, <2>2, <3>1 DEF Unique, Holds
      <4>2. status'[o.msg] # "claimed"
        BY <2>0, <2>2, <3>1 DEF TypeOK, Settled
      <4> QED
        BY <4>1, <4>2, KeptFree
    <3>2. CASE o.msg # p.msg
      <4>1. /\ status'[o.msg] = status[o.msg] /\ attempts'[o.msg] = attempts[o.msg]
            /\ age'[o.msg] = age[o.msg]
        BY <2>0, <2>2, <3>2 DEF TypeOK
      <4> QED
        BY <1>1, <4>1, KeptSame
    <3> QED
      BY <3>1, <3>2
  <2> QED
    BY <2>1, <2>2 DEF Releases
<1>3. Framed(f)
  BY <1>1, <1>2 DEF Framed
<1> QED
  BY <1>3

LEMMA FrameRests ==
  ASSUME TypeOK, Rests
  PROVE  \E f : Framed(f)
<1>1. UNCHANGED <<status, token, attempts, age, errors>>
  BY DEF Rests, jobVars, history
<1>2. CASE procs' \subseteq procs
  <2> DEFINE f == [o \in procs |-> o]
  <2>1. \A o \in procs : Kept(o, o)
    BY <1>1, KeptSame
  <2>2. Framed(f)
    BY <1>2, <2>1 DEF Framed
  <2> QED
    BY <2>2
<1>3. CASE procs' = Abandoned
  <2> DEFINE f == [o \in procs |-> [o EXCEPT !.awaited = FALSE]]
  <2>1. ASSUME NEW o \in procs PROVE Kept(f[o], o)
    <3>1. o \in Processors
      BY DEF TypeOK
    <3>2. /\ f[o].msg = o.msg /\ f[o].tok = o.tok /\ f[o].att = o.att
          /\ f[o].age = o.age /\ f[o].at = o.at
      BY <3>1 DEF Processors
    <3>3. Kept(o, o)
      BY <1>1, KeptSame
    <3> HIDE DEF f
    <3> QED
      BY <3>2, <3>3 DEF Kept
  <2>2. \A q \in procs' : \E o \in procs : q = f[o]
    BY <1>3 DEF Abandoned
  <2>3. Framed(f)
    <3> HIDE DEF f
    <3> QED
      BY <2>1, <2>2 DEF Framed
  <2> QED
    BY <2>3
<1> QED
  BY <1>2, <1>3 DEF Rests

LEMMA FrameTick ==
  ASSUME TypeOK, Tick
  PROVE  \E f : Framed(f)
<1> DEFINE f == [o \in procs |-> [o EXCEPT !.age = Least(Lease, o.age + 1)]]
<1>1. /\ UNCHANGED <<status, token, attempts, errors>>
      /\ procs' = {f[o] : o \in procs}
      /\ age' = [m \in Msgs |-> IF status[m] = "claimed" THEN Least(RowAge, age[m] + 1)
                                ELSE age[m]]
  BY DEF Tick, history
<1>2. ASSUME NEW o \in procs PROVE Kept(f[o], o)
  <2>1. o \in Processors
    BY DEF TypeOK
  <2>2. /\ f[o].msg = o.msg /\ f[o].tok = o.tok /\ f[o].att = o.att
        /\ f[o].age = Least(Lease, o.age + 1) /\ f[o].at = o.at
    BY <2>1 DEF Processors
  <2>3. o.msg \in Msgs /\ o.age \in 0..Lease
    BY <2>1, ProcTypes
  <2>4. age[o.msg] \in 0..RowAge /\ errors[o.msg] \in Nat
    BY <2>3 DEF TypeOK
  <2>5. o.age <= Least(Lease, o.age + 1)
    BY <2>3, Limits DEF Least
  <2>6. ASSUME Holds(o), o.age = Least(Lease, age[o.msg])
        PROVE  Least(Lease, o.age + 1) = Least(Lease, age'[o.msg])
    <3>1. age'[o.msg] = Least(RowAge, age[o.msg] + 1)
      BY <1>1, <2>3, <2>6 DEF Holds
    <3> QED
      BY <2>3, <2>4, <2>6, <3>1, Limits DEF Least
  <2>7. HoldsNext(o) <=> Holds(o)
    BY <1>1 DEF HoldsNext, Holds
  <2>8. errors[o.msg] <= errors'[o.msg] /\ attempts'[o.msg] = attempts[o.msg]
    BY <1>1, <2>4
  <2> HIDE DEF f
  <2> QED
    BY <2>2, <2>5, <2>6, <2>7, <2>8 DEF Kept
<1>3. Framed(f)
  <2> HIDE DEF f
  <2> QED
    BY <1>1, <1>2 DEF Framed
<1> QED
  BY <1>3

LEMMA Frame ==
  ASSUME TypeOK, Spared, Charged, Unique, [Next]_vars
  PROVE  (\E m \in Msgs : Claim(m)) \/ (\E f : Framed(f))
BY Shapes, FrameArms, FrameWorks, FrameReleases, FrameRests, FrameTick

-----------------------------------------------------------------------------
(* The parts of the invariant that are about processors.                   *)

ProcInv == Tokens /\ Unique /\ Ages /\ ClaimHeld /\ Unlapsed

LEMMA ProcInvFramed ==
  ASSUME TypeOK, ProcInv, NEW f, Framed(f),
         token' = token, lapsed' = lapsed, procs' \subseteq Processors
  PROVE  ProcInv'
<1>1. ASSUME NEW q \in procs'
      PROVE  \E o \in procs : q = f[o] /\ Kept(q, o)
  BY DEF Framed
<1>2. Tokens'
  BY <1>1 DEF ProcInv, Tokens, Kept
<1>3. Unique'
  <2> SUFFICES ASSUME NEW q \in procs', NEW r \in procs', q.msg = r.msg, q.tok = r.tok
               PROVE  q = r
    BY DEF Unique
  <2>1. PICK o \in procs : q = f[o] /\ Kept(q, o)
    BY <1>1
  <2>2. PICK w \in procs : r = f[w] /\ Kept(r, w)
    BY <1>1
  <2>3. o.msg = w.msg /\ o.tok = w.tok
    BY <2>1, <2>2 DEF Kept
  <2> QED
    BY <2>1, <2>2, <2>3 DEF ProcInv, Unique
<1>4. ASSUME NEW q \in procs', NEW o \in procs, Kept(q, o)
      PROVE  /\ (status'[q.msg] = "claimed" /\ token'[q.msg] = q.tok) <=> Holds(o)
             /\ q.msg = o.msg /\ o.age <= q.age
             /\ Holds(o) /\ o.age = Least(Lease, age[o.msg])
                => q.age = Least(Lease, age'[q.msg])
  BY <1>4 DEF Kept, HoldsNext
<1>5. Ages'
  BY <1>1, <1>4 DEF ProcInv, Ages, Holds
<1>6. ASSUME NEW q \in procs', q.age < Lease
      PROVE  status'[q.msg] = "claimed" /\ token'[q.msg] = q.tok
  <2>1. PICK o \in procs : q = f[o] /\ Kept(q, o)
    BY <1>1
  <2>2. o \in Processors
    BY DEF TypeOK
  <2>3. q.age \in Nat /\ o.age \in Nat
    <3>1. q \in Processors
      OBVIOUS
    <3> QED
      BY <2>2, <3>1, ProcTypes, Limits
  <2>4. o.age < Lease
    BY <1>4, <1>6, <2>1, <2>3, Limits
  <2> QED
    BY <1>4, <2>1, <2>4 DEF ProcInv, ClaimHeld
<1>7. ClaimHeld'
  BY <1>6 DEF ClaimHeld, Holds
<1>8. ASSUME NEW q \in procs', q.msg \notin lapsed
      PROVE  status'[q.msg] = "claimed" /\ token'[q.msg] = q.tok
  BY <1>1, <1>4, <1>8 DEF ProcInv, Unlapsed
<1>9. Unlapsed'
  BY <1>8 DEF Unlapsed, Holds
<1> QED
  BY <1>2, <1>3, <1>5, <1>7, <1>9 DEF ProcInv

\* What a claim does: a new processor, and those of the row's former claims
\* hold it no longer.
LEMMA ClaimFacts ==
  ASSUME TypeOK, Tokens, NEW m \in Msgs, Claim(m)
  PROVE  /\ Claimable(m)
         /\ \E new : /\ procs' = procs \cup {new}
                     /\ new.msg = m /\ new.tok = token[m] + 1 /\ new.age = 0
                     /\ new.att = attempts[m] /\ new.at # "error"
         /\ token' = [token EXCEPT ![m] = token[m] + 1]
         /\ status' = [status EXCEPT ![m] = "claimed"]
         /\ age' = [age EXCEPT ![m] = 0]
         /\ lapsed' = IF \E p \in procs : p.msg = m THEN lapsed \cup {m} ELSE lapsed
         /\ UNCHANGED <<attempts, decision, errors, late>>
         /\ \A o \in procs : HoldsNext(o) <=> (Holds(o) /\ o.msg # m)
<1>1. /\ Claimable(m)
      /\ token' = [token EXCEPT ![m] = token[m] + 1]
      /\ status' = [status EXCEPT ![m] = "claimed"]
      /\ age' = [age EXCEPT ![m] = 0]
      /\ lapsed' = IF \E p \in procs : p.msg = m THEN lapsed \cup {m} ELSE lapsed
      /\ UNCHANGED <<attempts, decision, errors, late>>
  BY DEF Claim
<1>2. \E new : /\ procs' = procs \cup {new}
               /\ new.msg = m /\ new.tok = token[m] + 1 /\ new.age = 0
               /\ new.att = attempts[m] /\ new.at # "error"
  <2> DEFINE new == [msg |-> m, tok |-> token[m] + 1, att |-> AttemptsSeen(m),
                     at |-> IF old[m] >= MaxAge /\ m \notin Refused THEN "expire" ELSE "run",
                     age |-> 0, awaited |-> TRUE]
  <2>1. procs' = procs \cup {new}
    BY DEF Claim
  <2>2. /\ new.msg = m /\ new.tok = token[m] + 1 /\ new.age = 0
        /\ new.att = attempts[m] /\ new.at # "error"
    BY DEF AttemptsSeen
  <2> HIDE DEF new
  <2> QED
    BY <2>1, <2>2
<1>3. ASSUME NEW o \in procs
      PROVE  HoldsNext(o) <=> (Holds(o) /\ o.msg # m)
  <2>1. o.msg \in Msgs /\ o.tok \in Nat
    BY ProcTypes DEF TypeOK
  <2>2. o.tok <= token[o.msg] /\ token[o.msg] \in Nat
    BY <2>1 DEF Tokens, TypeOK
  <2>3. CASE o.msg = m
    <3>1. token'[m] = token[m] + 1
      BY <1>1 DEF TypeOK
    <3> QED
      BY <2>1, <2>2, <2>3, <3>1 DEF HoldsNext
  <2>4. CASE o.msg # m
    <3>1. token'[o.msg] = token[o.msg] /\ status'[o.msg] = status[o.msg]
      BY <1>1, <2>1, <2>4 DEF TypeOK
    <3> QED
      BY <2>4, <3>1 DEF HoldsNext, Holds
  <2> QED
    BY <2>3, <2>4
<1> QED
  BY <1>1, <1>2, <1>3

LEMMA ProcInvClaim ==
  ASSUME TypeOK, ProcInv, NEW m \in Msgs, Claim(m)
  PROVE  ProcInv'
<1>0. Tokens /\ Unique /\ Ages /\ ClaimHeld /\ Unlapsed
  BY DEF ProcInv
<1>1. PICK new : /\ procs' = procs \cup {new}
                 /\ new.msg = m /\ new.tok = token[m] + 1 /\ new.age = 0
  BY <1>0, ClaimFacts
<1>2. /\ token' = [token EXCEPT ![m] = token[m] + 1]
      /\ status' = [status EXCEPT ![m] = "claimed"]
      /\ age' = [age EXCEPT ![m] = 0]
      /\ Claimable(m)
  BY <1>0, ClaimFacts
<1>3. /\ token[m] \in Nat /\ token'[m] = token[m] + 1
      /\ status'[m] = "claimed" /\ age'[m] = 0
  BY <1>2 DEF TypeOK
<1>4. ASSUME NEW o \in procs
      PROVE  /\ o.msg \in Msgs /\ o.tok \in Nat /\ o.age \in 0..Lease
             /\ o.msg # m => /\ token'[o.msg] = token[o.msg]
                             /\ age'[o.msg] = age[o.msg]
             /\ (status'[o.msg] = "claimed" /\ token'[o.msg] = o.tok)
                <=> (Holds(o) /\ o.msg # m)
  <2>1. o.msg \in Msgs /\ o.tok \in Nat /\ o.age \in 0..Lease
    BY ProcTypes DEF TypeOK
  <2>2. HoldsNext(o) <=> (Holds(o) /\ o.msg # m)
    BY <1>0, ClaimFacts
  <2>3. o.msg # m => token'[o.msg] = token[o.msg] /\ age'[o.msg] = age[o.msg]
    BY <1>2, <2>1 DEF TypeOK
  <2> QED
    BY <2>1, <2>2, <2>3 DEF HoldsNext
<1>5. ASSUME NEW o \in procs PROVE o.tok <= token[o.msg]
  BY <1>0 DEF Tokens
<1>6. Tokens'
  <2>1. ASSUME NEW q \in procs' PROVE q.tok <= token'[q.msg]
    BY <1>1, <1>3, <1>4, <1>5
  <2> QED
    BY <2>1 DEF Tokens
<1>7. Unique'
  <2>1. ASSUME NEW o \in procs PROVE o.msg # m \/ o.tok # token[m] + 1
    <3>1. o.tok <= token[o.msg] /\ o.tok \in Nat
      BY <1>4, <1>5
    <3> QED
      BY <1>3, <3>1
  <2>2. ASSUME NEW q \in procs', NEW r \in procs', q.msg = r.msg, q.tok = r.tok
        PROVE  q = r
    BY <1>0, <1>1, <2>1, <2>2 DEF Unique
  <2> QED
    BY <2>2 DEF Unique
<1>8. Ages'
  <2>1. ASSUME NEW q \in procs', status'[q.msg] = "claimed", token'[q.msg] = q.tok
        PROVE  q.age = Least(Lease, age'[q.msg])
    <3>1. CASE q = new
      <4>1. q.age = 0 /\ age'[q.msg] = 0
        BY <1>1, <1>3, <3>1
      <4> QED
        BY <4>1, Limits DEF Least
    <3>2. CASE q \in procs
      BY <1>0, <1>4, <2>1, <3>2 DEF Ages
    <3> QED
      BY <1>1, <3>1, <3>2
  <2> QED
    BY <2>1 DEF Ages, Holds
<1>9. ClaimHeld'
  <2>1. ASSUME NEW q \in procs', q.age < Lease
        PROVE  status'[q.msg] = "claimed" /\ token'[q.msg] = q.tok
    <3>1. CASE q = new
      BY <1>1, <1>3, <3>1
    <3>2. CASE q \in procs
      <4>1. Holds(q)
        BY <1>0, <2>1, <3>2 DEF ClaimHeld
      <4>2. q.age = Least(Lease, age[q.msg])
        BY <1>0, <3>2, <4>1 DEF Ages
      <4>3. ASSUME q.msg = m PROVE FALSE
        <5>1. age[m] >= Lease
          BY <1>2, <4>1, <4>3 DEF Claimable, Holds
        <5>2. age[m] \in 0..RowAge
          BY DEF TypeOK
        <5>3. q.age = Lease
          BY <4>2, <4>3, <5>1, <5>2, Limits DEF Least
        <5> QED
          BY <2>1, <5>3, Limits
      <4> QED
        BY <1>4, <3>2, <4>1, <4>3
    <3> QED
      BY <1>1, <3>1, <3>2
  <2> QED
    BY <2>1 DEF ClaimHeld, Holds
<1>10. Unlapsed'
  <2>0. lapsed' = IF \E p \in procs : p.msg = m THEN lapsed \cup {m} ELSE lapsed
    BY <1>0, ClaimFacts
  <2>1. ASSUME NEW q \in procs', q.msg \notin lapsed'
        PROVE  status'[q.msg] = "claimed" /\ token'[q.msg] = q.tok
    <3>1. CASE q = new
      BY <1>1, <1>3, <3>1
    <3>2. CASE q \in procs
      <4>1. q.msg # m /\ q.msg \notin lapsed
        BY <2>0, <2>1, <3>2
      <4> QED
        BY <1>0, <1>4, <3>2, <4>1 DEF Unlapsed
    <3> QED
      BY <1>1, <3>1, <3>2
  <2> QED
    BY <2>1 DEF Unlapsed, Holds
<1> QED
  BY <1>6, <1>7, <1>8, <1>9, <1>10 DEF ProcInv

LEMMA SameTokens ==
  ASSUME [Next]_vars, \A m \in Msgs : ~Claim(m)
  PROVE  token' = token /\ lapsed' = lapsed
BY DEF Next, ProcStep, Enqueue, Rearm, Completes, Fails, Raises, RecordGap, Settle, Defer,
       LoopEnds, Crash, Restart, Tick, vars, jobVars, history

LEMMA ProcInvStep ==
  ASSUME TypeOK, IsFiniteSet(procs), Spared, Charged, ProcInv, [Next]_vars
  PROVE  ProcInv'
<1>1. CASE \E m \in Msgs : Claim(m)
  BY <1>1, ProcInvClaim
<1>2. CASE \A m \in Msgs : ~Claim(m)
  <2>1. \E f : Framed(f)
    BY <1>2, Frame DEF ProcInv
  <2> QED
    BY <1>2, <2>1, SameTokens, ProcsStep, ProcInvFramed DEF ProcsOK
<1> QED
  BY <1>1, <1>2

-----------------------------------------------------------------------------
(* The parts of the invariant that are about rows.                         *)

Backed == \A m \in Msgs : attempts[m] <= errors[m]

RowInv == Lanes /\ Spared /\ Backed /\ FailedIsEarned /\ FailedSaysSo

LEMMA RowInvSame ==
  ASSUME RowInv, UNCHANGED <<status, attempts, errors, late, lapsed, decision>>
  PROVE  RowInv'
BY DEF RowInv, Lanes, Spared, Backed, FailedIsEarned, FailedSaysSo

LEMMA RowInvArms ==
  ASSUME TypeOK, RowInv, NEW m \in Msgs, Arms(m)
  PROVE  RowInv'
<1>1. /\ status' = [status EXCEPT ![m] = "pending"]
      /\ attempts' = [attempts EXCEPT ![m] = 0]
      /\ errors' = [errors EXCEPT ![m] = 0]
      /\ late' = IF \E n \in Chat(m) : n > m /\ status[n] = "claimed"
                 THEN late \cup {m} ELSE late
      /\ decision' = decision /\ lapsed' = lapsed
  BY DEF Arms, Arm
<1>2. /\ status'[m] = "pending" /\ attempts'[m] = 0 /\ errors'[m] = 0
      /\ \A n \in Msgs : n # m => /\ status'[n] = status[n] /\ attempts'[n] = attempts[n]
                                  /\ errors'[n] = errors[n]
  BY <1>1 DEF TypeOK
<1>3. Lanes'
  <2>1. ASSUME NEW k \in Msgs, NEW n \in Msgs, ChatOf[k] = ChatOf[n], k < n,
               status'[n] = "claimed", status'[k] \in Live
        PROVE  k \in late'
    <3>1. n # m /\ status[n] = "claimed"
      BY <1>2, <2>1
    <3>2. CASE k = m
      <4>1. n \in Chat(m) /\ n > m
        BY <2>1, <3>2, Limits DEF Chat
      <4> QED
        BY <1>1, <3>1, <3>2, <4>1
    <3>3. CASE k # m
      BY <1>1, <1>2, <2>1, <3>1, <3>3 DEF RowInv, Lanes
    <3> QED
      BY <3>2, <3>3
  <2> QED
    BY <2>1 DEF Lanes, Live
<1>4. Spared'
  <2>1. 0 < MaxAttempts
    BY Limits
  <2> QED
    BY <1>2, <2>1 DEF RowInv, Spared
<1>5. Backed' /\ FailedIsEarned'
  BY <1>2 DEF RowInv, Backed, FailedIsEarned
<1>6. FailedSaysSo'
  BY <1>1, <1>2 DEF RowInv, FailedSaysSo
<1> QED
  BY <1>3, <1>4, <1>5, <1>6 DEF RowInv

LEMMA RowInvClaim ==
  ASSUME TypeOK, Tokens, RowInv, NEW m \in Msgs, Claim(m)
  PROVE  RowInv'
<1>1. /\ Claimable(m)
      /\ status' = [status EXCEPT ![m] = "claimed"]
      /\ UNCHANGED <<attempts, decision, errors, late>>
      /\ lapsed \subseteq lapsed'
  BY ClaimFacts
<1>2. /\ status'[m] = "claimed" /\ status[m] \in Live
      /\ \A n \in Msgs : n # m => status'[n] = status[n]
  BY <1>1 DEF TypeOK, Claimable, OwnsLane
<1>3. Lanes'
  <2>1. ASSUME NEW k \in Msgs, NEW n \in Msgs, ChatOf[k] = ChatOf[n], k < n,
               status'[n] = "claimed", status'[k] \in Live
        PROVE  k \in late
    <3>1. status[k] \in Live
      BY <1>2, <2>1
    <3>2. n # m
      <4>1. ASSUME n = m PROVE FALSE
        <5>1. k \in Chat(m)
          BY <2>1, <4>1 DEF Chat
        <5>2. m <= k
          BY <1>1, <3>1, <5>1 DEF Claimable, OwnsLane
        <5> QED
          BY <2>1, <4>1, <5>2, Limits
      <4> QED
        BY <4>1
    <3> QED
      BY <1>2, <2>1, <3>1, <3>2 DEF RowInv, Lanes
  <2> QED
    BY <1>1, <2>1 DEF Lanes, Live
<1>4. Spared'
  BY <1>1, <1>2 DEF RowInv, Spared, Live
<1>5. Backed' /\ FailedIsEarned'
  BY <1>1, <1>2 DEF RowInv, Backed, FailedIsEarned
<1>6. FailedSaysSo'
  BY <1>1, <1>2 DEF RowInv, FailedSaysSo
<1> QED
  BY <1>3, <1>4, <1>5, <1>6 DEF RowInv

\* The thread of a failed job's processor may rewrite its decision: only when
\* the claims of the message have overlapped.
LEMMA RowInvWorks ==
  ASSUME TypeOK, RowInv, Unlapsed, NEW p \in procs, Works(p)
  PROVE  RowInv'
<1>1. UNCHANGED <<status, attempts, late, lapsed>>
  BY DEF Works, jobVars
<1>2. errors' = errors \/ Erred(p)
  BY DEF Works
<1>3. errors' \in [Msgs -> Nat] /\ \A m \in Msgs : errors[m] <= errors'[m]
  BY <1>2, ProcTypes DEF Erred, TypeOK
<1>4. Lanes' /\ Spared'
  BY <1>1 DEF RowInv, Lanes, Spared
<1>5. ASSUME NEW m \in Msgs
      PROVE  attempts[m] <= errors'[m] /\ (status[m] = "failed" => errors'[m] >= MaxAttempts)
  <2>1. attempts[m] \in Nat /\ errors[m] \in Nat /\ errors'[m] \in Nat /\ MaxAttempts \in Nat
    BY <1>3, Limits DEF TypeOK
  <2>2. attempts[m] <= errors[m] /\ (status[m] = "failed" => errors[m] >= MaxAttempts)
    BY DEF RowInv, Backed, FailedIsEarned
  <2> QED
    BY <1>3, <2>1, <2>2
<1>6. Backed' /\ FailedIsEarned'
  BY <1>1, <1>5 DEF Backed, FailedIsEarned
<1>7. FailedSaysSo'
  <2>1. ASSUME NEW m \in Msgs, status[m] = "failed", m \notin lapsed
        PROVE  decision'[m] = decision[m]
    <3>1. p.msg # m
      BY <2>1 DEF Unlapsed, Holds
    <3> QED
      BY <3>1 DEF Works, TypeOK
  <2> QED
    BY <1>1, <2>1 DEF RowInv, FailedSaysSo
<1> QED
  BY <1>4, <1>6, <1>7 DEF RowInv

LEMMA RowInvReleases ==
  ASSUME TypeOK, RowInv, Charged, NEW p \in procs, Releases(p)
  PROVE  RowInv'
<1>1. UNCHANGED <<errors, late, lapsed>>
  BY DEF Releases, history
<1>2. CASE UNCHANGED <<status, attempts, age, decision>>
  BY <1>1, <1>2, RowInvSame
<1>3. ASSUME NEW s \in Settled \cup {"pending"}, NEW a \in 0..MaxAttempts,
             Holds(p),
             status' = [status EXCEPT ![p.msg] = s],
             attempts' = [attempts EXCEPT ![p.msg] = a],
             \/ a = attempts[p.msg]
             \/ a = attempts[p.msg] + 1 /\ p.at = "error",
             s = "pending" => a < MaxAttempts,
             s = "failed" => a = MaxAttempts /\ decision'[p.msg] # "failed",
             \/ decision' = decision
             \/ \E d : decision' = [decision EXCEPT ![p.msg] = d]
      PROVE  RowInv'
  <2>1. p.msg \in Msgs
    BY ProcTypes DEF TypeOK
  <2>2. /\ status'[p.msg] = s /\ attempts'[p.msg] = a
        /\ status[p.msg] = "claimed" /\ s # "claimed"
        /\ \A m \in Msgs : m # p.msg => /\ status'[m] = status[m]
                                        /\ attempts'[m] = attempts[m]
                                        /\ decision'[m] = decision[m]
    BY <1>3, <2>1 DEF TypeOK, Holds, Settled
  <2>3. a <= errors[p.msg]
    <3>1. attempts[p.msg] <= errors[p.msg]
      BY <2>1 DEF RowInv, Backed
    <3>2. p.at = "error" => attempts[p.msg] + 1 <= errors[p.msg]
      BY <1>3 DEF Charged
    <3> QED
      BY <1>3, <3>1, <3>2
  <2>4. Lanes'
    BY <1>1, <2>2 DEF RowInv, Lanes, Live
  <2>5. Spared'
    <3>1. ASSUME NEW m \in Msgs, status'[m] \in Live PROVE attempts'[m] < MaxAttempts
      <4>1. CASE m = p.msg
        BY <1>3, <2>2, <3>1, <4>1 DEF Live, Settled
      <4>2. CASE m # p.msg
        BY <2>2, <3>1, <4>2 DEF RowInv, Spared
      <4> QED
        BY <4>1, <4>2
    <3> QED
      BY <3>1 DEF Spared, Live
  <2>6. Backed'
    BY <1>1, <2>2, <2>3 DEF RowInv, Backed
  <2>7. FailedIsEarned'
    <3>1. ASSUME NEW m \in Msgs, status'[m] = "failed" PROVE errors[m] >= MaxAttempts
      <4>1. CASE m = p.msg
        <5>1. a = MaxAttempts
          BY <1>3, <2>2, <3>1, <4>1
        <5>2. errors[p.msg] \in Nat
          BY <2>1 DEF TypeOK
        <5> QED
          BY <2>3, <4>1, <5>1, <5>2, Limits
      <4>2. CASE m # p.msg
        BY <2>2, <3>1, <4>2 DEF RowInv, FailedIsEarned
      <4> QED
        BY <4>1, <4>2
    <3> QED
      BY <1>1, <3>1 DEF FailedIsEarned
  <2>8. FailedSaysSo'
    BY <1>1, <1>3, <2>2 DEF RowInv, FailedSaysSo
  <2> QED
    BY <2>4, <2>5, <2>6, <2>7, <2>8 DEF RowInv
<1> QED
  BY <1>2, <1>3 DEF Releases

LEMMA RowInvStep ==
  ASSUME TypeOK, Charged, RowInv, ProcInv, [Next]_vars
  PROVE  RowInv'
<1>1. CASE Rests
  BY <1>1, RowInvSame DEF Rests, jobVars, history
<1>2. CASE Tick
  BY <1>2, RowInvSame DEF Tick, history
<1> QED
  BY <1>1, <1>2, Shapes, RowInvArms, RowInvClaim, RowInvWorks, RowInvReleases
  DEF RowInv, ProcInv

\* What is charged to a row is charged by a holder about to be charged.
Due ==
  \A p \in procs : Holds(p) =>
    /\ p.att = attempts[p.msg]
    /\ p.at = "error" => attempts[p.msg] + 1 <= errors[p.msg]

LEMMA DueStep ==
  ASSUME TypeOK, Charged, RowInv, ProcInv, [Next]_vars
  PROVE  Due'
<1>0. Due /\ Backed
  BY DEF Charged, Due, Backed
<1>1. CASE \E m \in Msgs : Claim(m)
  <2>1. PICK m \in Msgs : Claim(m)
    BY <1>1
  <2>2. PICK new : /\ procs' = procs \cup {new}
                   /\ new.msg = m /\ new.att = attempts[m] /\ new.at # "error"
    BY <2>1, ClaimFacts DEF ProcInv
  <2>3. UNCHANGED <<attempts, errors>>
    BY <2>1 DEF Claim
  <2>4. ASSUME NEW q \in procs', status'[q.msg] = "claimed", token'[q.msg] = q.tok
        PROVE  /\ q.att = attempts[q.msg]
               /\ q.at = "error" => attempts[q.msg] + 1 <= errors[q.msg]
    <3>1. CASE q = new
      BY <2>2, <3>1
    <3>2. CASE q \in procs
      <4>1. Holds(q)
        BY <2>1, <2>4, <3>2, ClaimFacts DEF ProcInv, HoldsNext
      <4> QED
        BY <1>0, <3>2, <4>1 DEF Due
    <3> QED
      BY <2>2, <3>1, <3>2
  <2> QED
    BY <2>3, <2>4 DEF Due, Holds
<1>2. CASE \A m \in Msgs : ~Claim(m)
  <2>1. PICK f : Framed(f)
    BY <1>2, Frame DEF RowInv, ProcInv
  <2>2. ASSUME NEW q \in procs', status'[q.msg] = "claimed", token'[q.msg] = q.tok
        PROVE  /\ q.att = attempts'[q.msg]
               /\ q.at = "error" => attempts'[q.msg] + 1 <= errors'[q.msg]
    <3>1. PICK o \in procs : Kept(q, o)
      BY <2>1 DEF Framed
    <3>2. o.msg \in Msgs
      BY ProcTypes DEF TypeOK
    <3>3. Holds(o) /\ q.msg = o.msg /\ q.att = o.att
      BY <2>2, <3>1 DEF Kept, HoldsNext
    <3>4. /\ attempts'[o.msg] = attempts[o.msg] /\ errors[o.msg] <= errors'[o.msg]
          /\ q.at = "error" => o.at = "error" \/ errors'[o.msg] = errors[o.msg] + 1
      BY <3>1, <3>3 DEF Kept
    <3>5. o.att = attempts[o.msg] /\ (o.at = "error" => attempts[o.msg] + 1 <= errors[o.msg])
      BY <1>0, <3>3 DEF Due
    <3>6. /\ attempts[o.msg] <= errors[o.msg]
          /\ attempts[o.msg] \in Nat /\ errors[o.msg] \in Nat
      <4>1. attempts[o.msg] \in 0..MaxAttempts /\ errors[o.msg] \in Nat
        BY <3>2 DEF TypeOK
      <4>2. attempts[o.msg] \in Nat
        BY <4>1, Limits
      <4>3. attempts[o.msg] <= errors[o.msg]
        BY <1>0, <3>2 DEF Backed
      <4> QED
        BY <4>1, <4>2, <4>3
    <3>7. RowTypes'
      BY RowsStep DEF RowInv
    <3>8. errors'[o.msg] \in Nat
      BY <3>2, <3>7 DEF RowTypes
    <3> QED
      BY <3>3, <3>4, <3>5, <3>6, <3>8
  <2> QED
    BY <2>2 DEF Due, Holds
<1> QED
  BY <1>1, <1>2

-----------------------------------------------------------------------------
(* The theorems.                                                           *)

LEMMA Initially == Init => IInv
<1> SUFFICES ASSUME Init PROVE IInv
  OBVIOUS
<1>1. procs = {} /\ IsFiniteSet(procs)
  BY FS_EmptySet DEF Init
<1>2. /\ 0 \in 0..MaxAttempts /\ 0 \in 0..RetryMax /\ 0 \in 0..RowAge /\ 0 \in 0..MaxAge
      /\ 0 < MaxAttempts
  BY Limits
<1>3. TypeOK
  BY <1>2 DEF Init, TypeOK
<1>4. Tokens /\ Unique /\ Ages /\ ClaimHeld /\ Unlapsed
  BY <1>1 DEF Tokens, Unique, Ages, ClaimHeld, Unlapsed
<1>5. Lanes /\ Spared /\ FailedIsEarned /\ FailedSaysSo
  BY DEF Init, Lanes, Spared, FailedIsEarned, FailedSaysSo, Live
<1>6. Charged
  BY <1>1 DEF Init, Charged
<1> QED
  BY <1>1, <1>3, <1>4, <1>5, <1>6 DEF IInv

LEMMA Inductive == IInv /\ [Next]_vars => IInv'
<1> SUFFICES ASSUME IInv, [Next]_vars PROVE IInv'
  OBVIOUS
<1>1. RowInv /\ ProcInv /\ TypeOK /\ IsFiniteSet(procs) /\ Charged /\ Spared
  BY DEF IInv, RowInv, ProcInv, Charged, Backed
<1>2. TypeOK' /\ IsFiniteSet(procs')
  BY <1>1, TypeStep
<1>3. RowInv' /\ ProcInv' /\ Due'
  BY <1>1, RowInvStep, ProcInvStep, DueStep
<1>4. Charged'
  BY <1>3 DEF RowInv, Backed, Due, Charged
<1> QED
  BY <1>2, <1>3, <1>4 DEF IInv, RowInv, ProcInv

\* The inductive invariant holds in every reachable state.
THEOREM Invariance == Spec => []IInv
BY Initially, Inductive, PTL DEF Spec

\* The rows, the decisions and the processors keep their types.
THEOREM TypeCorrect == Spec => []TypeOK
<1>1. IInv => TypeOK
  BY DEF IInv
<1> QED
  BY Invariance, <1>1, PTL

\* Within its lease a processor's claim is its own.
THEOREM ClaimsHeld == Spec => []ClaimHeld
<1>1. IInv => ClaimHeld
  BY DEF IInv
<1> QED
  BY Invariance, <1>1, PTL

\* A chat has one holder, unless an earlier message was armed behind it.
THEOREM LanesHeld == Spec => []OneHolderPerLane
<1>1. IInv => OneHolderPerLane
  <2> SUFFICES ASSUME IInv, NEW p \in procs, NEW q \in procs, p # q, Holds(p), Holds(q),
                      ChatOf[p.msg] = ChatOf[q.msg], p.msg <= q.msg
               PROVE  p.msg # q.msg /\ p.msg \in late
    BY DEF OneHolderPerLane
  <2>1. p.msg \in Msgs /\ q.msg \in Msgs
    BY ProcTypes DEF IInv, TypeOK
  <2>2. p.msg # q.msg
    BY DEF IInv, Unique, Holds
  <2>3. p.msg < q.msg
    <3>1. p.msg \in Nat /\ q.msg \in Nat
      BY <2>1, Limits
    <3>2. p.msg <= q.msg
      OBVIOUS
    <3> QED
      BY <2>2, <3>1, <3>2
  <2>4. status[q.msg] = "claimed" /\ status[p.msg] \in Live
    BY DEF Holds, Live
  <2> QED
    BY <2>1, <2>2, <2>3, <2>4 DEF IInv, Lanes
<1> QED
  BY Invariance, <1>1, PTL

\* Whoever carries out an instruction holds the claim of its message unless its
\* claims overlapped, and a claimed row owns its lane but for late ones.
LEMMA OrderStep == IInv /\ [Next]_vars =>
  \A n \in (executed' \ executed) \ lapsed :
    \A m \in Chat(n) : m < n /\ status[m] \in Live => m \in late
<1> SUFFICES ASSUME IInv, [Next]_vars,
                    NEW n \in (executed' \ executed) \ lapsed,
                    NEW m \in Chat(n), m < n, status[m] \in Live
             PROVE  m \in late
  OBVIOUS
<1>1. PICK p \in procs : Completes(p)
  <2>1. executed' # executed
    OBVIOUS
  <2>2. CASE UNCHANGED vars
    BY <2>1, <2>2 DEF vars, history
  <2>3. ASSUME NEW k \in Msgs, Enqueue(k) \/ Rearm(k) \/ Claim(k)
        PROVE  FALSE
    BY <2>1, <2>3 DEF Enqueue, Rearm, Claim
  <2>4. CASE \E p \in procs : ProcStep(p)
    BY <2>1, <2>4 DEF ProcStep, Fails, Raises, RecordGap, Settle, Defer, history
  <2>5. CASE LoopEnds \/ Crash \/ Restart \/ Tick
    BY <2>1, <2>5 DEF LoopEnds, Crash, Restart, Tick, history
  <2>6. QED
    BY <2>2, <2>3, <2>4, <2>5 DEF Next
<1>2. p \in Processors /\ p.msg \in Msgs
  BY DEF IInv, TypeOK, Processors
<1>3. n = p.msg
  BY <1>1, <1>2 DEF Completes, IInv, TypeOK
<1>4. status[n] = "claimed"
  BY <1>3 DEF IInv, Unlapsed, Holds
<1>5. m \in Msgs /\ n \in Msgs /\ ChatOf[m] = ChatOf[n]
  BY <1>2, <1>3 DEF Chat
<1>6. QED
  BY <1>4, <1>5 DEF IInv, Lanes

\* The instructions of a chat are carried out in the order of its messages.
THEOREM ChatsInOrder == Spec => ChatOrder
BY Invariance, OrderStep, PTL DEF Spec, ChatOrder

\* A job is given up only after as many failures as it has attempts.
THEOREM FailuresEarned == Spec => []FailedIsEarned
<1>1. IInv => FailedIsEarned
  BY DEF IInv
<1> QED
  BY Invariance, <1>1, PTL

\* A failed job's decision does not promise a retry, unless claims overlapped.
THEOREM FailuresSaid == Spec => []FailedSaysSo
<1>1. IInv => FailedSaysSo
  BY DEF IInv
<1> QED
  BY Invariance, <1>1, PTL
-----------------------------------------------------------------------------
(* The queue keeps the promise MessageJob of each message.                 *)

\* Claims are numbered from one: 0 is nobody's.
Numbered == \A p \in procs : p.tok # 0

LEMMA NumberedStep == IInv /\ Numbered /\ [Next]_vars => Numbered'
<1> SUFFICES ASSUME IInv, Numbered, [Next]_vars
             PROVE  Numbered'
  OBVIOUS
<1>1. ASSUME NEW m \in Msgs, Claim(m) PROVE Numbered'
  <2>1. token[m] + 1 # 0
    BY DEF IInv, TypeOK
  <2> QED
    BY <1>1, <2>1 DEF Claim, Numbered
<1>2. ASSUME NEW f, Framed(f) PROVE Numbered'
  BY <1>2 DEF Framed, Kept, Numbered
<1> QED
  BY <1>1, <1>2, Frame DEF IInv

\* What the queue shows of a job.
Row(m) == IF status[m] \in Settled THEN "settled" ELSE status[m]
Owes(m) == status[m] \in Live /\ attempts[m] > 0
Shown(m) == <<Row(m), AtWork(m), Holder(m), Owes(m)>>

\* A holder is one processor, awaited, and it is at work.
LEMMA HolderIs ==
  ASSUME IInv, Numbered, NEW p \in procs, NEW m \in Msgs, p.msg = m, Holder(m) = p.tok
  PROVE  p.awaited /\ Holds(p)
<1>1. Holder(m) # 0
  BY DEF Numbered
<1>2. PICK q \in procs : q.msg = m /\ q.awaited /\ Holds(q)
  BY <1>1 DEF Holder
<1>3. q.tok = p.tok
  BY <1>2 DEF Holder, Holds
<1> QED
  BY <1>2, <1>3 DEF IInv, Unique

LEMMA HolderWas ==
  ASSUME NEW p \in procs, p.awaited, Holds(p)
  PROVE  Holder(p.msg) = p.tok
BY DEF Holder, Holds

\* Nothing of the job changes if its row stays and its processors are the same
\* ones, whatever they did.
LEMMA ShownSame ==
  ASSUME NEW m \in Msgs,
         status'[m] = status[m], token'[m] = token[m], attempts'[m] = attempts[m],
         \A q \in procs' : q.msg = m =>
           \E o \in procs : o.msg = m /\ o.tok = q.tok /\ o.awaited = q.awaited,
         \A o \in procs : o.msg = m =>
           \E q \in procs' : q.msg = m /\ q.tok = o.tok /\ q.awaited = o.awaited
  PROVE  UNCHANGED Shown(m)
<1>1. AtWork(m)' = AtWork(m)
  BY DEF AtWork
<1>2. Holder(m)' = Holder(m)
  BY DEF Holder, Holds
<1> QED
  BY <1>1, <1>2 DEF Shown, Row, Owes

\* The job as MessageJob sees it, one step at a time.
JobStep(m) ==
  \/ UNCHANGED Shown(m)
  \/ /\ Row(m) \in {"absent", "settled"} /\ Row(m)' = "pending"
     /\ UNCHANGED <<AtWork(m), Holder(m), Owes(m)>>
  \/ /\ Row(m) \in {"pending", "claimed"} /\ Row(m)' = "claimed"
     /\ Holder(m)' \notin AtWork(m) /\ AtWork(m)' = AtWork(m) \cup {Holder(m)'}
     /\ UNCHANGED Owes(m)
  \/ /\ Row(m) = "claimed" /\ Holder(m) \in AtWork(m)
     /\ \/ Row(m)' = "settled" /\ Owes(m)' = FALSE
        \/ Row(m)' = "pending" /\ Owes(m)' = TRUE
     /\ AtWork(m)' = AtWork(m) \ {Holder(m)} /\ Holder(m)' = 0
  \/ /\ \E w \in AtWork(m) \ {Holder(m)} : AtWork(m)' = AtWork(m) \ {w}
     /\ UNCHANGED <<Row(m), Holder(m), Owes(m)>>
  \/ AtWork(m)' \subseteq AtWork(m) /\ Holder(m)' = 0 /\ UNCHANGED <<Row(m), Owes(m)>>

LEMMA JobStepIs ==
  ASSUME NEW m \in Msgs, JobStep(m)
  PROVE  [Job(m)!Next]_(Job(m)!vars)
BY DEF JobStep, Shown, Row, Owes, Job!Next, Job!vars, Job!Arm, Job!Claim, Job!Answer,
       Job!End, Job!LetGo

\* A row nobody holds is armed.
LEMMA ArmsJob ==
  ASSUME IInv, NEW k \in Msgs, Enqueue(k) \/ Rearm(k), NEW m \in Msgs
  PROVE  JobStep(m)
<1>1. /\ status' = [status EXCEPT ![k] = "pending"] /\ UNCHANGED <<token, procs>>
      /\ attempts' = [attempts EXCEPT ![k] = 0]
      /\ status[k] \in {"absent"} \cup Settled
  BY DEF Enqueue, Rearm, Rearmable, Arm
<1>2. CASE m # k
  <2>1. status'[m] = status[m] /\ attempts'[m] = attempts[m]
    BY <1>1, <1>2 DEF IInv, TypeOK
  <2> QED
    BY <1>1, <2>1, ShownSame DEF JobStep
<1>3. CASE m = k
  <2>1. status'[m] = "pending" /\ attempts'[m] = 0
    BY <1>1, <1>3 DEF IInv, TypeOK
  <2>2. Row(m) \in {"absent", "settled"} /\ Row(m)' = "pending"
    BY <1>1, <1>3, <2>1 DEF Row, Settled
  <2>3. Owes(m) = FALSE /\ Owes(m)' = FALSE
    BY <1>1, <1>3, <2>1 DEF Owes, Live, Settled
  <2>4. Holder(m) = 0 /\ Holder(m)' = 0
    BY <1>1, <1>3, <2>1 DEF Holder, Holds, Settled
  <2>5. AtWork(m)' = AtWork(m)
    BY <1>1 DEF AtWork
  <2> QED
    BY <2>2, <2>3, <2>4, <2>5 DEF JobStep
<1> QED
  BY <1>2, <1>3

\* A fresh claim number: the new processor holds the row.
LEMMA ClaimsJob ==
  ASSUME IInv, NEW k \in Msgs, Claim(k), NEW m \in Msgs
  PROVE  JobStep(m)
<1>1. PICK new : /\ new.msg = k /\ new.tok = token[k] + 1 /\ new.awaited = TRUE
                 /\ procs' = procs \cup {new}
  <2> DEFINE new == [msg |-> k, tok |-> token[k] + 1, att |-> AttemptsSeen(k),
                     at |-> IF old[k] >= MaxAge /\ k \notin Refused THEN "expire"
                            ELSE "run",
                     age |-> 0, awaited |-> TRUE]
  <2>1. procs' = procs \cup {new}
    BY DEF Claim
  <2>2. new.msg = k /\ new.tok = token[k] + 1 /\ new.awaited = TRUE
    OBVIOUS
  <2> HIDE DEF new
  <2> QED
    BY <2>1, <2>2
<1>2. /\ status' = [status EXCEPT ![k] = "claimed"] /\ status[k] \in Live
      /\ token' = [token EXCEPT ![k] = @ + 1] /\ UNCHANGED attempts
  BY DEF Claim, Claimable, OwnsLane
<1>3. CASE m # k
  <2>1. status'[m] = status[m] /\ token'[m] = token[m] /\ attempts'[m] = attempts[m]
    BY <1>2, <1>3 DEF IInv, TypeOK
  <2> QED
    BY <1>1, <1>3, <2>1, ShownSame DEF JobStep
<1>4. CASE m = k
  <2>1. status'[m] = "claimed" /\ token'[m] = token[m] + 1 /\ token[m] \in Nat
    BY <1>2, <1>4 DEF IInv, TypeOK
  <2>2. Row(m) \in {"pending", "claimed"} /\ Row(m)' = "claimed"
    BY <1>2, <1>4, <2>1 DEF Row, Live, Settled
  <2>3. Owes(m)' = Owes(m)
    BY <1>2, <1>4, <2>1 DEF Owes, Live
  <2>4. Holder(m)' = token[m] + 1
    BY <1>1, <1>4, <2>1 DEF Holder, Holds
  <2>5. \A p \in procs : p.msg = m => p.tok # token[m] + 1
    <3> TAKE p \in procs
    <3>1. p.msg = m => p.tok <= token[m]
      BY DEF IInv, Tokens
    <3>2. p.tok \in Nat
      BY ProcTypes DEF IInv, TypeOK
    <3> QED
      BY <2>1, <3>1, <3>2
  <2>6. Holder(m)' \notin AtWork(m) /\ AtWork(m)' = AtWork(m) \cup {Holder(m)'}
    BY <1>1, <1>4, <2>4, <2>5 DEF AtWork
  <2> QED
    BY <2>2, <2>3, <2>6 DEF JobStep
<1> QED
  BY <1>3, <1>4

\* A processor that is not the holder ends.
LEMMA EndsJob ==
  ASSUME IInv, Numbered, NEW p \in procs, procs' = procs \ {p},
         UNCHANGED <<status, token, attempts>>, ~(p.awaited /\ Holds(p)), NEW m \in Msgs
  PROVE  JobStep(m)
<1>1. CASE p.msg # m
  BY <1>1, ShownSame DEF JobStep
<1>2. CASE p.msg = m
  <2>1. p.tok \in AtWork(m) \ {Holder(m)}
    BY <1>2, HolderIs DEF AtWork
  <2>2. AtWork(m)' = AtWork(m) \ {p.tok}
    BY <1>2 DEF AtWork, IInv, Unique
  <2>3. Holder(m)' = Holder(m)
    BY DEF Holder, Holds
  <2>4. UNCHANGED <<Row(m), Owes(m)>>
    BY DEF Row, Owes
  <2> QED
    BY <2>1, <2>2, <2>3, <2>4 DEF JobStep
<1> QED
  BY <1>1, <1>2

\* A thread ends: its processor goes on to settle, or is gone.
LEMMA WorksJob ==
  ASSUME IInv, Numbered, NEW p \in procs, Works(p), NEW m \in Msgs
  PROVE  JobStep(m)
<1>1. UNCHANGED <<status, token, attempts>>
  BY DEF Works, jobVars
<1>2. PICK how \in Stages : Ends(p, how)
  BY DEF Works
<1>3. CASE p.awaited
  <2>1. PICK new : /\ new.msg = p.msg /\ new.tok = p.tok /\ new.awaited = p.awaited
                   /\ procs' = (procs \ {p}) \cup {new}
    <3>1. p \in Processors
      BY DEF IInv, TypeOK
    <3> QED
      BY <1>2, <1>3, <3>1 DEF Ends, Processors
  <2> QED
    BY <1>1, <2>1, ShownSame DEF JobStep
<1>4. CASE ~p.awaited
  BY <1>1, <1>2, <1>4, EndsJob DEF Ends
<1> QED
  BY <1>3, <1>4

\* The holder answers; another one's answer changes nothing.
LEMMA AnswersJob ==
  ASSUME IInv, Numbered, NEW p \in procs, Settle(p) \/ Defer(p), NEW m \in Msgs
  PROVE  JobStep(m)
<1>1. p.awaited /\ procs' = procs \ {p} /\ UNCHANGED token
  BY DEF Settle, Defer
<1>2. CASE ~Holds(p)
  BY <1>1, <1>2, EndsJob DEF Settle, Defer
<1>3. CASE Holds(p)
  <2>1. PICK s, a :
          /\ status' = [status EXCEPT ![p.msg] = s]
          /\ attempts' = [attempts EXCEPT ![p.msg] = a]
          /\ s \in Settled \/ (s = "pending" /\ a > 0)
    <3>1. CASE Settle(p)
      <4>1. status' = [status EXCEPT ![p.msg] = Outcome(p)] /\ UNCHANGED attempts
        BY <1>3, <3>1 DEF Settle
      <4>2. Outcome(p) \in Settled
        BY DEF Outcome, Settled
      <4>3. attempts' = [attempts EXCEPT ![p.msg] = attempts[p.msg]]
        <5>1. p.msg \in Msgs
          BY ProcTypes DEF IInv, TypeOK
        <5> QED
          BY <4>1, <5>1 DEF IInv, TypeOK
      <4> QED
        BY <4>1, <4>2, <4>3
    <3>2. CASE Defer(p)
      <4> DEFINE n == p.att + 1
                 s == IF n >= MaxAttempts THEN "failed" ELSE "pending"
      <4>1. status' = [status EXCEPT ![p.msg] = s] /\ attempts' = [attempts EXCEPT ![p.msg] = n]
        BY <1>3, <3>2 DEF Defer
      <4>2. n > 0
        <5>1. n \in 1..MaxAttempts
          BY <1>3, <3>2, DeferType DEF IInv
        <5> QED
          BY <5>1, Limits
      <4>3. s \in Settled \/ s = "pending"
        BY DEF Settled
      <4> HIDE DEF n, s
      <4> QED
        BY <4>1, <4>2, <4>3
    <3> QED
      BY <3>1, <3>2
  <2>2. CASE p.msg # m
    <3>1. status'[m] = status[m] /\ attempts'[m] = attempts[m]
      BY <2>1, <2>2 DEF IInv, TypeOK
    <3> QED
      BY <1>1, <2>2, <3>1, ShownSame DEF JobStep
  <2>3. CASE p.msg = m
    <3>1. status'[m] = s /\ attempts'[m] = a /\ status[m] = "claimed"
      BY <1>3, <2>1, <2>3 DEF IInv, TypeOK, Holds
    <3>2. Row(m) = "claimed"
      BY <3>1 DEF Row, Settled
    <3>3. \/ Row(m)' = "settled" /\ Owes(m)' = FALSE
          \/ Row(m)' = "pending" /\ Owes(m)' = TRUE
      BY <2>1, <3>1 DEF Row, Owes, Settled, Live
    <3>4. Holder(m) = p.tok
      BY <1>1, <1>3, <2>3, HolderWas
    <3>5. Holder(m) \in AtWork(m) /\ AtWork(m)' = AtWork(m) \ {Holder(m)}
      BY <1>1, <2>3, <3>4 DEF AtWork, IInv, Unique
    <3>6. Holder(m)' = 0
      BY <2>1, <3>1 DEF Holder, Holds, Settled
    <3> QED
      BY <3>2, <3>3, <3>5, <3>6 DEF JobStep
  <2> QED
    BY <2>2, <2>3
<1> QED
  BY <1>2, <1>3

\* The loop ends or the process does: nobody is awaited any more.
LEMMA LetsGoOfJob ==
  ASSUME IInv, LoopEnds \/ Crash, NEW m \in Msgs
  PROVE  JobStep(m)
<1>1. UNCHANGED <<status, token, attempts>> /\ (procs' = {} \/ procs' = Abandoned)
  BY DEF LoopEnds, Crash, jobVars
<1>2. \A q \in procs' : q.awaited = FALSE /\ \E p \in procs : p.msg = q.msg /\ p.tok = q.tok
  <2>1. \A p \in procs : LET q == [p EXCEPT !.awaited = FALSE]
                         IN  q.awaited = FALSE /\ q.msg = p.msg /\ q.tok = p.tok
    BY DEF IInv, TypeOK, Processors
  <2>2. \A q \in Abandoned : \E p \in procs : q = [p EXCEPT !.awaited = FALSE]
    BY DEF Abandoned
  <2> SUFFICES ASSUME NEW q \in procs'
               PROVE  q.awaited = FALSE /\ \E p \in procs : p.msg = q.msg /\ p.tok = q.tok
    OBVIOUS
  <2>3. PICK p \in procs : q = [p EXCEPT !.awaited = FALSE]
    BY <1>1, <2>2
  <2>4. q.awaited = FALSE /\ q.msg = p.msg /\ q.tok = p.tok
    BY <2>1, <2>3, Zenon
  <2> QED
    BY <2>4
<1>3. AtWork(m)' \subseteq AtWork(m)
  BY <1>2 DEF AtWork
<1>4. Holder(m)' = 0
  BY <1>2 DEF Holder
<1>5. UNCHANGED <<Row(m), Owes(m)>>
  BY <1>1 DEF Row, Owes
<1> QED
  BY <1>3, <1>4, <1>5 DEF JobStep

LEMMA JobSteps ==
  IInv /\ Numbered /\ [Next]_vars => \A m \in Msgs : [Job(m)!Next]_(Job(m)!vars)
<1> SUFFICES ASSUME IInv, Numbered, [Next]_vars, NEW m \in Msgs
             PROVE  JobStep(m)
  BY JobStepIs
<1>1. ASSUME NEW p \in procs, Completes(p) \/ Fails(p) \/ Raises(p) \/ RecordGap(p)
      PROVE  Works(p)
  BY <1>1 DEF Completes, Fails, Raises, RecordGap, Works, Stages, history
<1>2. CASE Tick
  <2>1. UNCHANGED <<status, token, attempts>>
    BY <1>2 DEF Tick
  <2>2. /\ \A q \in procs' : \E o \in procs :
             o.msg = q.msg /\ o.tok = q.tok /\ o.awaited = q.awaited
        /\ \A o \in procs : \E q \in procs' :
             q.msg = o.msg /\ q.tok = o.tok /\ q.awaited = o.awaited
    <3> DEFINE Older(o) == [o EXCEPT !.age = Least(Lease, o.age + 1)]
    <3>1. \A o \in procs : /\ Older(o).msg = o.msg /\ Older(o).tok = o.tok
                           /\ Older(o).awaited = o.awaited
      BY DEF IInv, TypeOK, Processors
    <3>2. procs' = {Older(o) : o \in procs}
      BY <1>2 DEF Tick
    <3> HIDE DEF Older
    <3> QED
      BY <3>1, <3>2
  <2> QED
    BY <2>1, <2>2, ShownSame DEF JobStep
<1>3. CASE Restart \/ UNCHANGED vars
  BY <1>3, ShownSame DEF Restart, vars, jobVars, JobStep
<1> QED
  BY <1>1, <1>2, <1>3, ArmsJob, ClaimsJob, WorksJob, AnswersJob, LetsGoOfJob
  DEF Next, ProcStep

\* Whatever a processor does late, after its claim was taken over or its loop
\* let go of it, it neither settles nor defers nor charges its job.
THEOREM JobsKeepPromise == Spec => JobsKept
<1>1. Init => Numbered
  BY DEF Init, Numbered
<1>2. Init => \A m \in Msgs : Job(m)!Init
  <2> SUFFICES ASSUME Init, NEW m \in Msgs PROVE Job(m)!Init
    OBVIOUS
  <2>1. status[m] = "absent" /\ procs = {}
    BY DEF Init
  <2>2. AtWork(m) = {} /\ Holder(m) = 0
    BY <2>1 DEF AtWork, Holder
  <2> QED
    BY <2>1, <2>2 DEF Job!Init, Settled, Live
<1> QED
  BY <1>1, <1>2, Invariance, NumberedStep, JobSteps, PTL DEF Spec, JobsKept
=============================================================================
