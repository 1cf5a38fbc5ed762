--------------------------- MODULE ExecutionFence ---------------------------
(***************************************************************************)
(* What the ownership of a message promises about trading it.  Whoever     *)
(* wants to send requests for the message passes a gate; one hand at a time*)
(* holds it, only that hand writes, a hand that let go never holds it      *)
(* again, and once nobody can tell what a hand has done the gate is frozen *)
(* for ever.                                                               *)
(***************************************************************************)
EXTENDS Naturals

CONSTANT Hands   \* generations of the message's decision, positive numbers

VARIABLES
  gate,     \* "open", "held" or "frozen"
  hand,     \* the latest hand to have passed the gate, 0 before the first
  written   \* hands that wrote to the exchange

vars == <<gate, hand, written>>

Init == gate = "open" /\ hand = 0 /\ written = {}

\* Hands come in order: one that was passed over does not get in later.
Take ==
  /\ gate = "open"
  /\ gate' = "held"
  /\ hand' \in {h \in Hands : h > hand}
  /\ UNCHANGED written

Write ==
  /\ gate = "held"
  /\ written' = written \cup {hand}
  /\ UNCHANGED <<gate, hand>>

LetGo == gate = "held" /\ gate' = "open" /\ UNCHANGED <<hand, written>>

Freeze == gate = "held" /\ gate' = "frozen" /\ UNCHANGED <<hand, written>>

Next == Take \/ Write \/ LetGo \/ Freeze

Spec == Init /\ [][Next]_vars
=============================================================================
