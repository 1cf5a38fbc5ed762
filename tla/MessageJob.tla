----------------------------- MODULE MessageJob -----------------------------
(***************************************************************************)
(* What the queue promises of one message's job to the threads that work   *)
(* on it.  Threads come and go; at most one of them holds the job, none    *)
(* while the job is not claimed, and only the holder's own answer takes a  *)
(* claimed job off its claim: it settles the job or puts it back, charged. *)
(* A claim may be taken over or let go, after which the thread it belonged *)
(* to can only end.                                                        *)
(***************************************************************************)
VARIABLES
  job,      \* "absent", "pending", "claimed" or "settled"
  work,     \* the threads at work on the message, by claim
  holder,   \* the one whose answer counts, 0 nobody
  charged   \* the job is unsettled and has a failed attempt to its account

vars == <<job, work, holder, charged>>

Init == job \in {"absent", "pending"} /\ work = {} /\ holder = 0 /\ charged = FALSE

\* Put on the queue, anew or again, as if nothing had been tried.
Arm ==
  /\ job \in {"absent", "settled"} /\ job' = "pending"
  /\ UNCHANGED <<work, holder, charged>>

\* A new thread holds the job, due or taken over from another claim.
Claim ==
  /\ job \in {"pending", "claimed"} /\ job' = "claimed"
  /\ holder' \notin work /\ work' = work \cup {holder'}
  /\ UNCHANGED charged

\* The holder's answer: done with, or due again with one more attempt charged.
Answer ==
  /\ job = "claimed" /\ holder \in work
  /\ \/ job' = "settled" /\ charged' = FALSE
     \/ job' = "pending" /\ charged' = TRUE
  /\ work' = work \ {holder} /\ holder' = 0

\* A thread without the job ends: nothing of it is left.
End ==
  /\ \E w \in work \ {holder} : work' = work \ {w}
  /\ UNCHANGED <<job, holder, charged>>

\* The process stops waiting for its threads, or ends: nobody holds the job.
LetGo == work' \subseteq work /\ holder' = 0 /\ UNCHANGED <<job, charged>>

Next == Arm \/ Claim \/ Answer \/ End \/ LetGo

Spec == Init /\ [][Next]_vars
=============================================================================
