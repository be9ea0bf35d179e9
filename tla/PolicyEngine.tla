---------------------------- MODULE PolicyEngine ----------------------------
(***************************************************************************)
(* The legacy policy engine: legacy/backend/app/services/policies.py.      *)
(*                                                                         *)
(* A document is [rules, default].  A rule is [effect, patterns], with one *)
(* pattern for each of agent, tool, actions and resources, in this order.  *)
(* Some globs cannot be matched against (a number), nor can an `actions:`  *)
(* that was left empty.  A pattern is [matches, raises]: the set of the    *)
(* values that match its globs, those in front of the first unusable one,  *)
(* and whether there is an unusable one, which raises for all others.  A   *)
(* call is the tuple of its agent, tool, action and resource.              *)
(*                                                                         *)
(* Nothing of a rule is looked at before evaluation comes to it, and none  *)
(* of its patterns before those in front have matched.  What a document    *)
(* does with one call says little about what it does with another.         *)
(***************************************************************************)
EXTENDS Integers

valid_effects ==
    [allow |-> "allowed", deny |-> "denied", approval_required |-> "approval_required"]

Decided(effect) ==
    IF effect \in DOMAIN valid_effects THEN valid_effects[effect] ELSE "raises"

\* A loop that goes on while it gets `go`: what ends it, or else the default
FirstOther(results, go, default) ==
    IF \A i \in DOMAIN results : results[i] = go THEN default
    ELSE results[CHOOSE i \in DOMAIN results :
                    results[i] # go /\ \A j \in DOMAIN results : j < i => results[j] = go]

_matches(pattern, value) ==
    IF value \in pattern.matches THEN "matches"
    ELSE IF pattern.raises THEN "raises" ELSE "continue"

\* What a rule makes of a call: a decision, "raises", or "continue"
Outcome(rule, call) ==
    IF Decided(rule.effect) = "raises" THEN "raises"
    ELSE FirstOther([i \in DOMAIN call |-> _matches(rule.patterns[i], call[i])],
                    "matches", Decided(rule.effect))

evaluate_document(document, call) ==
    FirstOther([i \in DOMAIN document.rules |-> Outcome(document.rules[i], call)],
               "continue", Decided(document.default))

Validation == <<"validation", "validation", "validation", "validation">>

\* create_policy and update_policy try the document on one made-up call and
\* refuse it (422, or 500) if that raises.
Accepted(document) == evaluate_document(document, Validation) # "raises"
=============================================================================
