----------------------- MODULE MCProtectionReplacement -----------------------
(* Instances of ProtectionReplacement for TLC. *)
EXTENDS ProtectionReplacement

MCPlan == [r \in Runs |-> IF r \in BreakEven THEN {"stop"} ELSE {"stop", "tp"}]
MCStops == [r \in Runs |-> {"stop"}]
MCOneKey == [c \in Closers |-> c]
MCSharedKey == [c \in Closers |-> IF c = "c3" THEN "c1" ELSE c]

\* One death or one lost answer, not both.
OneTrouble == crashes + faults <= 1

\* The part of the state space in which two adjustments run before the
\* break-even starts: where the last stop is lost.
Guide ==
  /\ open
  /\ pc["a2"] # "idle" => result["a1"] = "succeeded"
  /\ pc["be"] # "idle" => result["a2"] # "none"
  /\ ask[<<"set", "a1", "stop">>] \in {0, 2}
  /\ ask[<<"set", "a2", "stop">>] \in {0, 1}
  /\ crashes = 1 => pc["be"] # "idle"
=============================================================================
