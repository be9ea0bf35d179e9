------------------------------- MODULE Policy -------------------------------
(***************************************************************************)
(* src/opensteps/policy.py: first-match-wins rules over tool calls.        *)
(*                                                                         *)
(* A value of JSON or YAML is [type, val].  To == a Python bool is a       *)
(* number, to max and min it is none.  What can be searched with `in` is   *)
(* what is found in it: a list the sequence of its values, a mapping a     *)
(* function, a string the set of the strings in it; likewise a glob or a   *)
(* regular expression is the set of the strings it matches.                *)
(*                                                                         *)
(* A rule is [id, action, globs, where]: globs a function from the keys    *)
(* `tool` and `server`, where present, to their globs; where a sequence of *)
(* conditions [param, ops], ops a function from the operators present to   *)
(* their operands.  load does not look at the types of globs, params and   *)
(* operands, nor the proxy at those of a call: evaluate raises over some   *)
(* of them.  YAML's tagged types (!!binary, !!set) are left out.           *)
(***************************************************************************)
EXTENDS Integers, Sequences

CONSTANTS
    Undecided,   \* no decision yet
    Raised,      \* evaluate raised
    Rules,       \* rules that load accepts
    MaxRules,    \* bound on the rules of a policy
    Calls        \* calls [server, tool, arguments] to decide

Actions == {"allow", "deny", "approve"}

DefaultActions == {"allow", "deny"}

ConditionKeys == {"equals", "one_of", "max", "min", "matches"}

\* _validate_rule, of what a rule can still get wrong in this form; that ids
\* are distinct is in Policies.  re.compile takes a string only.
ValidRule(rule) ==
    /\ rule.action \in Actions
    /\ DOMAIN rule.globs # {} /\ DOMAIN rule.globs \subseteq {"tool", "server"}
    /\ Len(rule.where) \in Nat
    /\ \A i \in 1 .. Len(rule.where) :
          LET ops == rule.where[i].ops IN
          /\ DOMAIN ops # {} /\ DOMAIN ops \subseteq ConditionKeys
          /\ "matches" \in DOMAIN ops => ops["matches"].type = "str"

Policies ==
    [default : DefaultActions,
     rules : UNION {{rules \in [1 .. n -> Rules] :
                        \A i, j \in 1 .. n : rules[i].id = rules[j].id => i = j} :
                    n \in 0 .. MaxRules}]

Decision ==
    [action : Actions, rule_id : {rule.id : rule \in Rules} \cup {"default"}]

ASSUME PolicyAssumption ==
    /\ \A rule \in Rules : ValidRule(rule)
    /\ MaxRules \in Nat
    /\ Undecided # Raised
    /\ Decision \cap {Undecided, Raised} = {}

Numeric(x) == x.type \in {"num", "bool"}

\* Python's ==, where True == 1 and False == 0 (not inside a list or mapping)
Equal(x, y) ==
    /\ \/ x.type = y.type
       \/ Numeric(x) /\ Numeric(y)
    /\ x.val = y.val

Hashable(x) == x.type \notin {"list", "map"}

\* Whether `x in c` is an answer and not a TypeError
Searchable(c, x) ==
    \/ c.type = "list"
    \/ c.type = "map" /\ Hashable(x)
    \/ c.type = "str" /\ x.type = "str"

\* x in c
In(x, c) ==
    CASE c.type = "list" -> \E i \in 1 .. Len(c.val) : Equal(x, c.val[i])
      [] c.type = "map"  -> \E y \in DOMAIN c.val : Equal(x, y)
      [] OTHER           -> x.val \in c.val

\* c[x] for an x in c, none when that raises: a list is indexed by numbers,
\* from its end by negative ones, a string not by a string.
Item(c, x) ==
    CASE c.type = "map" -> {c.val[y] : y \in {k \in DOMAIN c.val : Equal(x, k)}}
      [] c.type = "list" /\ Numeric(x) /\ x.val \in -Len(c.val) .. Len(c.val) - 1 ->
             {c.val[(x.val % Len(c.val)) + 1]}
      [] OTHER -> {}

Answer(b) == IF b THEN "holds" ELSE "fails"

\* max and min compare numbers, and a bound may be a bool.
WithinBounds(ops, value) ==
    LET Has(key) == key \in DOMAIN ops IN
    IF value.type # "num" THEN "fails"
    ELSE IF Has("max") /\ ~Numeric(ops["max"]) THEN "raises"
    ELSE IF Has("max") /\ value.val > ops["max"].val THEN "fails"
    ELSE IF Has("min") /\ ~Numeric(ops["min"]) THEN "raises"
    ELSE Answer(Has("min") => value.val >= ops["min"].val)

\* What the operators of a condition say of the parameter's value; the order
\* is that in which they are looked for.
OperatorsHold(ops, value) ==
    LET Has(key) == key \in DOMAIN ops IN
    IF Has("equals") THEN Answer(Equal(value, ops["equals"]))
    ELSE IF Has("one_of") THEN
        IF Searchable(ops["one_of"], value) THEN Answer(In(value, ops["one_of"])) ELSE "raises"
    ELSE IF Has("max") \/ Has("min") THEN WithinBounds(ops, value)
    ELSE IF Has("matches") THEN Answer(value.type = "str" /\ value.val \in ops["matches"].val)
    ELSE "raises"

\* Mutant of _condition_holds: a missing parameter is looked up all the same
_condition_holds_indexed(cond, arguments) ==
    IF ~Searchable(arguments, cond.param) \/ ~In(cond.param, arguments) THEN "raises"
    ELSE LET values == Item(arguments, cond.param) IN
         IF values = {} THEN "raises" ELSE OperatorsHold(cond.ops, CHOOSE v \in values : TRUE)

_condition_holds(cond, arguments) ==
    IF ~Searchable(arguments, cond.param) THEN "raises"
    ELSE IF ~In(cond.param, arguments) THEN "fails"
    ELSE LET values == Item(arguments, cond.param) IN
         IF values = {} THEN "raises" ELSE OperatorsHold(cond.ops, CHOOSE v \in values : TRUE)

\* As an external function: it takes strings.
fnmatchcase(name, glob) ==
    IF name.type = "str" /\ glob.type = "str" THEN Answer(name.val \in glob.val) ELSE "raises"

First(S) == CHOOSE i \in S : \A j \in S : i <= j

\* Mutant of Applies: a rule with a tool glob is not asked for its server
Applies_either(rule, c) ==
    IF "tool" \in DOMAIN rule.globs THEN fnmatchcase(c.tool, rule.globs["tool"])
    ELSE fnmatchcase(c.server, rule.globs["server"])

\* The globs of a rule, tool before server
Applies(rule, c) ==
    LET Glob(key, name) ==
            IF key \in DOMAIN rule.globs THEN fnmatchcase(name, rule.globs[key]) ELSE "holds"
    IN  IF Glob("tool", c.tool) = "holds" THEN Glob("server", c.server)
        ELSE Glob("tool", c.tool)

\* all(...): up to the first condition that does not hold
all(where, arguments) ==
    LET Holds(i) == _condition_holds(where[i], arguments)
        others == {i \in 1 .. Len(where) : Holds(i) # "holds"}
    IN  IF others = {} THEN "holds" ELSE Holds(First(others))

\* What evaluate makes of one rule
Outcome(rule, c) ==
    IF Applies(rule, c) = "holds" THEN all(rule.where, c.arguments) ELSE Applies(rule, c)

Default(policy) == [action |-> policy.default, rule_id |-> "default"]

\* Mutant of RuleDecision: the fields swapped
RuleDecision_swapped(rule) == [action |-> rule.id, rule_id |-> rule.action]

RuleDecision(rule) == [action |-> rule.action, rule_id |-> rule.id]

-----------------------------------------------------------------------------

VARIABLES
    policy, call,
    rule,        \* index of the rule under examination
    decision     \* Undecided, the Decision, or Raised

vars == <<policy, call, rule, decision>>

Init ==
    /\ policy \in Policies
    /\ call \in Calls
    /\ rule = 1
    /\ decision = Undecided

Examine(outcome) ==
    /\ decision = Undecided /\ rule <= Len(policy.rules)
    /\ Outcome(policy.rules[rule], call) = outcome

SkipRule ==
    /\ Examine("fails")
    /\ rule' = rule + 1
    /\ UNCHANGED <<policy, call, decision>>

MatchRule ==
    /\ Examine("holds")
    /\ decision' = RuleDecision(policy.rules[rule])
    /\ UNCHANGED <<policy, call, rule>>

Raise ==
    /\ Examine("raises")
    /\ decision' = Raised
    /\ UNCHANGED <<policy, call, rule>>

FallThrough ==
    /\ decision = Undecided /\ rule > Len(policy.rules)
    /\ decision' = Default(policy)
    /\ UNCHANGED <<policy, call, rule>>

Next == SkipRule \/ MatchRule \/ Raise \/ FallThrough

Spec == Init /\ [][Next]_vars

-----------------------------------------------------------------------------

\* All the globs that a rule has match, and all its conditions hold.
RuleMatches(r, c) ==
    /\ \A key \in DOMAIN r.globs : fnmatchcase(c[key], r.globs[key]) = "holds"
    /\ \A i \in 1 .. Len(r.where) : _condition_holds(r.where[i], c.arguments) = "holds"

Matching(p, c) == {i \in 1 .. Len(p.rules) : RuleMatches(p.rules[i], c)}

\* policy.py:3-7, in one formula
FirstMatch(p, c) ==
    IF Matching(p, c) = {} THEN Default(p) ELSE RuleDecision(p.rules[First(Matching(p, c))])

\* The types of the loop (policy.py:119-128).
TypeOK ==
    /\ policy \in Policies /\ call \in Calls
    /\ rule \in 1 .. Len(policy.rules) + 1
    /\ decision \in {Undecided, Raised} \cup Decision

\* policy.py:3-7: the decision is that of the first rule whose globs match
\* and whose conditions all hold, and the default if there is none.
FirstMatchWins ==
    decision \notin {Undecided, Raised} => decision = FirstMatch(policy, call)

\* A condition as it is meant to be written
WellTyped(cond) ==
    /\ Hashable(cond.param)
    /\ "one_of" \in DOMAIN cond.ops => cond.ops["one_of"].type = "list"
    /\ \A key \in {"max", "min"} \cap DOMAIN cond.ops : Numeric(cond.ops[key])

\* policy.py:31-51,119-128: evaluate raises only at a rule that it gets to,
\* over a glob, a param, a one_of or a bound of a type that load let pass, a
\* tool's name that is no string or arguments that are no object.  Over a
\* policy and a call of the documented types it never raises, whatever the
\* types of the arguments' values.
WellTypedNeverRaises ==
    decision = Raised =>
        /\ \A i \in 1 .. rule - 1 : ~RuleMatches(policy.rules[i], call)
        /\ LET r == policy.rules[rule] IN
           \/ \E key \in DOMAIN r.globs : {r.globs[key].type, call[key].type} # {"str"}
           \/ \E i \in 1 .. Len(r.where) : ~WellTyped(r.where[i])
           \/ call.arguments.type # "map"
=============================================================================
