------------------------------ MODULE FiledCall ------------------------------
(***************************************************************************)
(* What every part of the program that calls the exchange promises about   *)
(* its calls: a call is filed in the database before it is made, it is     *)
(* made at most once, and the two definite things the database may say of  *)
(* it, that it took effect and that it never will, are true and final.     *)
(* Between the filing and a word the database says nothing: that is what a *)
(* crash or a lost answer leaves.                                          *)
(***************************************************************************)
EXTENDS Naturals

CONSTANT Ids   \* what a call is filed under

VARIABLES
  filed,     \* calls on file: they may be made, or were
  calls,     \* how often each was made
  effects,   \* calls that took effect on the exchange
  done,      \* calls the database says took effect
  denied     \* calls the database says had no effect

vars == <<filed, calls, effects, done, denied>>

Init ==
  /\ filed = {} /\ calls = [i \in Ids |-> 0]
  /\ effects = {} /\ done = {} /\ denied = {}

File(i) ==
  /\ i \notin denied
  /\ filed' = filed \cup {i}
  /\ UNCHANGED <<calls, effects, done, denied>>

\* A call takes effect at once, later or never.
Call(i) ==
  /\ i \in filed /\ calls[i] = 0
  /\ calls' = [calls EXCEPT ![i] = 1]
  /\ effects' \in {effects, effects \cup {i}}
  /\ UNCHANGED <<filed, done, denied>>

TakeEffect(i) ==
  /\ i \in filed /\ calls[i] = 1
  /\ effects' = effects \cup {i}
  /\ UNCHANGED <<filed, calls, done, denied>>

\* Any number of words at once; once given, a word stands.  What is denied is
\* no longer on file.
Tell ==
  /\ done \subseteq done' /\ done' \subseteq effects
  /\ denied \subseteq denied' /\ denied' \subseteq Ids \ effects
  /\ filed' = filed \ denied'
  /\ UNCHANGED <<calls, effects>>

Next == (\E i \in Ids : File(i) \/ Call(i) \/ TakeEffect(i)) \/ Tell

Spec == Init /\ [][Next]_vars

\* What follows from the steps above.
BooksTrue ==
  /\ \A i \in Ids : calls[i] \in {0, 1} /\ (calls[i] = 1 => i \in filed \cup denied)
  /\ \A i \in effects : i \in filed /\ calls[i] = 1
  /\ done \subseteq effects /\ denied \cap filed = {}
=============================================================================
