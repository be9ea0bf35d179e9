----------------------------- MODULE MCMCPProxy -----------------------------
(***************************************************************************)
(* Instances of MCPProxy for TLC.  A request's name says what it is: its   *)
(* id, and what the policy makes of it.                                    *)
(***************************************************************************)
EXTENDS MCPProxy, TLC

CONSTANTS allow1, allow2, deny1, deny2, approve1, approve2, bad1, other1, note1

MCIds == {1, 2}

MCId == [m \in Requests |->
    CASE m \in {allow1, deny1, approve1, bad1, other1} -> 1
      [] m \in {allow2, deny2, approve2} -> 2
      [] m = note1 -> NoId]

MCRules == {"reads", "writes", "default"}

MCDecision == [c \in Calls |->
    CASE c \in {allow1, allow2, bad1} -> [action |-> "allow", rule_id |-> "reads"]
      [] c \in {approve1, approve2}   -> [action |-> "approve", rule_id |-> "writes"]
      [] c \in {deny1, deny2}         -> [action |-> "deny", rule_id |-> "default"]]
=============================================================================
