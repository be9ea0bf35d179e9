--------------------------- MODULE Policy_proofs ---------------------------
(***************************************************************************)
(* The loop of Policy.evaluate computes FirstMatch for every policy that   *)
(* load accepts and every call, whatever the conditions mean: that part    *)
(* never expands _condition_holds.  What makes a rule raise is for         *)
(* RaisesIllTyped alone.                                                   *)
(***************************************************************************)
EXTENDS Policy, WellFoundedInduction, TLAPS

\* Where the loop stands: no rule before the one under examination matches.
Position == \A i \in 1 .. rule - 1 : ~RuleMatches(policy.rules[i], call)

LoopInv == TypeOK /\ Position /\ FirstMatchWins

\* What load guarantees of a policy.
LEMMA PolicyFacts ==
    ASSUME NEW p \in Policies
    PROVE  /\ p.default \in DefaultActions
           /\ Len(p.rules) \in Nat
           /\ \A i \in 1 .. Len(p.rules) : p.rules[i] \in Rules
<1>1. PICK n \in 0 .. MaxRules : p.rules \in [1 .. n -> Rules]
  BY DEF Policies
<1>2. n \in Nat
  BY <1>1, PolicyAssumption
<1>3. p.rules \in Seq(Rules) /\ Len(p.rules) = n
  BY <1>1, <1>2
<1>4. QED
  BY <1>1, <1>2, <1>3 DEF Policies

\* The first of a set of indices is the one below all others.
LEMMA FirstIsLeast ==
    ASSUME NEW S \in SUBSET Nat, NEW i \in S, \A j \in S : i <= j
    PROVE  First(S) = i
<1>1. \A k \in S : (\A j \in S : k <= j) => k = i
  OBVIOUS
<1>2. First(S) \in S /\ \A j \in S : First(S) <= j
  BY DEF First
<1>3. QED
  BY <1>1, <1>2

LEMMA LeastOf ==
    ASSUME NEW S \in SUBSET Nat, S # {}
    PROVE  First(S) \in S
<1> DEFINE Less == OpToRel(<, Nat)
<1>1. PICK i \in S : \A j \in S : ~(<<j, i>> \in Less)
  <2>1. IsWellFoundedOn(Less, Nat)
    BY NatLessThanWellFounded
  <2> HIDE DEF Less
  <2> QED
    BY <2>1, WFMin, Zenon
<1>2. \A j \in S : ~(j < i)
  BY <1>1 DEF OpToRel
<1>3. \A j \in S : i <= j
  BY <1>2
<1> QED
  BY <1>3, FirstIsLeast

\* What all(...) says is what one of the conditions says, or else they hold.
LEMMA AllHold ==
    ASSUME NEW where, Len(where) \in Nat, NEW arguments
    PROVE  \/ /\ all(where, arguments) = "holds"
              /\ \A i \in 1 .. Len(where) : _condition_holds(where[i], arguments) = "holds"
           \/ /\ all(where, arguments) # "holds"
              /\ \E i \in 1 .. Len(where) :
                    _condition_holds(where[i], arguments) = all(where, arguments)
<1> DEFINE Holds(i) == _condition_holds(where[i], arguments)
           others == {i \in 1 .. Len(where) : Holds(i) # "holds"}
<1>1. all(where, arguments) = IF others = {} THEN "holds" ELSE Holds(First(others))
  BY DEF all
<1>2. CASE others = {}
  BY <1>1, <1>2
<1>3. CASE others # {}
  <2>1. First(others) \in others
    <3>1. others \in SUBSET Nat
      OBVIOUS
    <3> HIDE DEF others
    <3> QED
      BY <1>3, <3>1, LeastOf
  <2>2. First(others) \in 1 .. Len(where) /\ Holds(First(others)) # "holds"
    BY <2>1
  <2>3. all(where, arguments) = Holds(First(others))
    BY <1>1, <1>3
  <2> HIDE DEF others
  <2> QED
    BY <2>2, <2>3
<1> QED
  BY <1>2, <1>3

\* A rule holds exactly when all its globs match and all its conditions hold.
LEMMA HoldsIffMatches ==
    ASSUME NEW r \in Rules, NEW c
    PROVE  Outcome(r, c) = "holds" <=> RuleMatches(r, c)
<1>1. DOMAIN r.globs \subseteq {"tool", "server"} /\ Len(r.where) \in Nat
  BY PolicyAssumption DEF ValidRule
<1>2. Applies(r, c) = "holds" <=>
          \A key \in DOMAIN r.globs : fnmatchcase(c[key], r.globs[key]) = "holds"
  BY <1>1 DEF Applies
<1>3. all(r.where, c.arguments) = "holds" <=>
          \A i \in 1 .. Len(r.where) : _condition_holds(r.where[i], c.arguments) = "holds"
  BY <1>1, AllHold
<1> QED
  BY <1>2, <1>3 DEF Outcome, RuleMatches

LEMMA AnswersDoNotRaise == \A b : Answer(b) # "raises"
  BY DEF Answer

\* A condition with an operator, none unknown, raises over nothing but its
\* one_of or its bounds.
LEMMA RaisesOverOperand ==
    ASSUME NEW ops, DOMAIN ops # {}, DOMAIN ops \subseteq ConditionKeys,
           NEW value, OperatorsHold(ops, value) = "raises"
    PROVE  \/ "one_of" \in DOMAIN ops /\ ops["one_of"].type # "list"
           \/ \E key \in {"max", "min"} \cap DOMAIN ops : ~Numeric(ops[key])
<1> DEFINE Has(key) == key \in DOMAIN ops
<1>1. ~Has("equals")
  BY AnswersDoNotRaise, Zenon DEF OperatorsHold
<1>2. CASE Has("one_of")
  <2>1. OperatorsHold(ops, value) =
            IF Searchable(ops["one_of"], value) THEN Answer(In(value, ops["one_of"]))
            ELSE "raises"
    BY <1>1, <1>2 DEF OperatorsHold
  <2>2. ~Searchable(ops["one_of"], value)
    BY <2>1, AnswersDoNotRaise, Zenon
  <2> QED
    BY <1>2, <2>2 DEF Searchable
<1>3. CASE ~Has("one_of") /\ (Has("max") \/ Has("min"))
  <2>1. WithinBounds(ops, value) = "raises"
    BY <1>1, <1>3 DEF OperatorsHold
  <2>2. \/ Has("max") /\ ~Numeric(ops["max"])
        \/ Has("min") /\ ~Numeric(ops["min"])
    <3> DEFINE last == Has("min") => value.val >= ops["min"].val
               over == value.val > ops["max"].val
    <3>1. WithinBounds(ops, value) =
              IF value.type # "num" THEN "fails"
              ELSE IF Has("max") /\ ~Numeric(ops["max"]) THEN "raises"
              ELSE IF Has("max") /\ over THEN "fails"
              ELSE IF Has("min") /\ ~Numeric(ops["min"]) THEN "raises"
              ELSE Answer(last)
      BY Zenon DEF WithinBounds
    <3> HIDE DEF last, over, Has
    <3> QED
      BY <2>1, <3>1, AnswersDoNotRaise, Zenon
  <2> QED
    BY <2>2
<1>4. CASE ~Has("one_of") /\ ~Has("max") /\ ~Has("min")
  <2>1. Has("matches")
    BY <1>1, <1>4 DEF ConditionKeys
  <2>2. OperatorsHold(ops, value) =
            Answer(value.type = "str" /\ value.val \in ops["matches"].val)
    BY <1>1, <1>4, <2>1 DEF OperatorsHold
  <2> QED
    BY <2>2, AnswersDoNotRaise, Zenon
<1> QED
  BY <1>2, <1>3, <1>4

\* A condition that load accepts and that raises is ill-typed, or looks into
\* arguments that are no object.
LEMMA ConditionRaises ==
    ASSUME NEW cond, DOMAIN cond.ops # {}, DOMAIN cond.ops \subseteq ConditionKeys,
           NEW arguments, arguments.type = "map",
           _condition_holds(cond, arguments) = "raises"
    PROVE  ~WellTyped(cond)
<1> SUFFICES ASSUME Hashable(cond.param) PROVE ~WellTyped(cond)
  BY DEF WellTyped
<1> DEFINE values == Item(arguments, cond.param)
           value == CHOOSE v \in values : TRUE
<1>1. Searchable(arguments, cond.param)
  BY DEF Searchable
<1>2. In(cond.param, arguments)
  BY <1>1 DEF _condition_holds
<1>3. values # {}
  <2>1. PICK y \in DOMAIN arguments.val : Equal(cond.param, y)
    BY <1>2 DEF In
  <2>2. arguments.val[y] \in values
    BY <2>1 DEF Item
  <2> QED
    BY <2>2
<1>4. OperatorsHold(cond.ops, value) = "raises"
  BY <1>1, <1>2, <1>3 DEF _condition_holds
<1>5. \/ "one_of" \in DOMAIN cond.ops /\ cond.ops["one_of"].type # "list"
      \/ \E key \in {"max", "min"} \cap DOMAIN cond.ops : ~Numeric(cond.ops[key])
  <2> HIDE DEF value
  <2> QED
    BY <1>4, RaisesOverOperand
<1> QED
  BY <1>5 DEF WellTyped

\* A rule or a call over which evaluate may raise
IllTyped(r, c) ==
    \/ \E key \in DOMAIN r.globs : {r.globs[key].type, c[key].type} # {"str"}
    \/ \E i \in 1 .. Len(r.where) : ~WellTyped(r.where[i])
    \/ c.arguments.type # "map"

LEMMA RaisesIllTyped ==
    ASSUME NEW r \in Rules, NEW c, Outcome(r, c) = "raises"
    PROVE  IllTyped(r, c)
<1>1. /\ DOMAIN r.globs \subseteq {"tool", "server"}
      /\ Len(r.where) \in Nat
      /\ \A i \in 1 .. Len(r.where) :
            DOMAIN r.where[i].ops # {} /\ DOMAIN r.where[i].ops \subseteq ConditionKeys
  BY PolicyAssumption DEF ValidRule
<1>2. ASSUME NEW name, NEW glob, fnmatchcase(name, glob) = "raises"
      PROVE  {glob.type, name.type} # {"str"}
  <2>1. ~(name.type = "str" /\ glob.type = "str")
    BY <1>2, AnswersDoNotRaise, Zenon DEF fnmatchcase
  <2> QED
    BY <2>1
<1>3. CASE Applies(r, c) = "holds"
  <2>1. all(r.where, c.arguments) = "raises"
    BY <1>3 DEF Outcome
  <2>2. PICK i \in 1 .. Len(r.where) : _condition_holds(r.where[i], c.arguments) = "raises"
    BY <1>1, <2>1, AllHold
  <2>3. c.arguments.type = "map" => ~WellTyped(r.where[i])
    BY <1>1, <2>2, ConditionRaises
  <2> QED
    BY <2>3 DEF IllTyped
<1>4. CASE Applies(r, c) # "holds"
  <2>1. Applies(r, c) = "raises"
    BY <1>4 DEF Outcome
  <2>2. PICK key \in DOMAIN r.globs : fnmatchcase(c[key], r.globs[key]) = "raises"
    <3>1. \/ "tool" \in DOMAIN r.globs /\ fnmatchcase(c.tool, r.globs["tool"]) = "raises"
          \/ "server" \in DOMAIN r.globs /\ fnmatchcase(c.server, r.globs["server"]) = "raises"
      BY <2>1 DEF Applies
    <3> QED
      BY <3>1
  <2> QED
    BY <1>2, <2>2 DEF IllTyped
<1> QED
  BY <1>3, <1>4

-----------------------------------------------------------------------------

\* Initially nothing has been examined.
LEMMA LoopInit == Init => LoopInv
<1> SUFFICES ASSUME Init PROVE LoopInv
  OBVIOUS
<1>1. Len(policy.rules) \in Nat
  BY PolicyFacts DEF Init
<1>2. TypeOK
  BY <1>1 DEF Init, TypeOK
<1>3. Position
  BY DEF Init, Position
<1>4. FirstMatchWins
  BY DEF Init, FirstMatchWins
<1>5. QED
  BY <1>2, <1>3, <1>4 DEF LoopInv

\* The rule under examination is one of the policy's.
LEMMA RuleFacts ==
    ASSUME TypeOK, NEW outcome, Examine(outcome)
    PROVE  /\ Len(policy.rules) \in Nat
           /\ rule \in 1 .. Len(policy.rules)
           /\ policy.rules[rule] \in Rules
<1>1. /\ Len(policy.rules) \in Nat
      /\ \A i \in 1 .. Len(policy.rules) : policy.rules[i] \in Rules
  BY PolicyFacts DEF TypeOK
<1>2. rule \in 1 .. Len(policy.rules)
  BY <1>1 DEF TypeOK, Examine
<1> QED
  BY <1>1, <1>2

\* A rule that fails does not match, and is left behind.
LEMMA SkipRuleStep == LoopInv /\ SkipRule => LoopInv'
<1> SUFFICES ASSUME LoopInv, SkipRule PROVE LoopInv'
  OBVIOUS
<1>1. /\ Len(policy.rules) \in Nat
      /\ rule \in 1 .. Len(policy.rules)
      /\ policy.rules[rule] \in Rules
  BY RuleFacts DEF LoopInv, SkipRule
<1>2. ~RuleMatches(policy.rules[rule], call)
  BY <1>1, HoldsIffMatches DEF SkipRule, Examine
<1>3. TypeOK'
  BY <1>1 DEF LoopInv, TypeOK, SkipRule
<1>4. Position'
  <2>1. \A i \in 1 .. rule' - 1 : i \in 1 .. rule - 1 \/ i = rule
    BY <1>1 DEF SkipRule
  <2>2. \A i \in 1 .. rule' - 1 : ~RuleMatches(policy.rules[i], call)
    BY <1>2, <2>1 DEF LoopInv, Position
  <2>3. policy' = policy /\ call' = call
    BY DEF SkipRule
  <2> QED
    BY <2>2, <2>3 DEF Position
<1>5. FirstMatchWins'
  BY DEF Examine, SkipRule, FirstMatchWins
<1>6. QED
  BY <1>3, <1>4, <1>5 DEF LoopInv

LEMMA MatchRuleStep == LoopInv /\ MatchRule => LoopInv'
<1> SUFFICES ASSUME LoopInv, MatchRule PROVE LoopInv'
  OBVIOUS
<1>1. /\ Len(policy.rules) \in Nat
      /\ rule \in 1 .. Len(policy.rules)
      /\ policy.rules[rule] \in Rules
  BY RuleFacts DEF LoopInv, MatchRule
<1>2. TypeOK'
  <2>1. policy.rules[rule].action \in Actions
    BY <1>1, PolicyAssumption DEF ValidRule
  <2>2. RuleDecision(policy.rules[rule]) \in Decision
    BY <1>1, <2>1 DEF RuleDecision, Decision
  <2>3. QED
    BY <2>2 DEF LoopInv, TypeOK, MatchRule
<1>3. policy' = policy /\ call' = call /\ rule' = rule
  BY DEF MatchRule
<1>4. Position'
  BY <1>3 DEF LoopInv, Position
<1>5. FirstMatch(policy, call) = RuleDecision(policy.rules[rule])
  <2>1. RuleMatches(policy.rules[rule], call)
    BY <1>1, HoldsIffMatches DEF MatchRule, Examine
  <2>2. rule \in Matching(policy, call)
    BY <1>1, <2>1 DEF Matching
  <2>3. \A i \in Matching(policy, call) : rule <= i
    BY <1>1 DEF LoopInv, Position, Matching
  <2>4. First(Matching(policy, call)) = rule
    BY <1>1, <2>2, <2>3, FirstIsLeast DEF Matching
  <2>5. QED
    BY <2>2, <2>4 DEF FirstMatch
<1>6. FirstMatchWins'
  BY <1>3, <1>5 DEF MatchRule, FirstMatchWins
<1>7. QED
  BY <1>2, <1>4, <1>6 DEF LoopInv

LEMMA RaiseStep == LoopInv /\ Raise => LoopInv'
<1> SUFFICES ASSUME LoopInv, Raise PROVE LoopInv'
  OBVIOUS
<1>1. policy' = policy /\ call' = call /\ rule' = rule /\ decision' = Raised
  BY DEF Raise
<1>2. TypeOK' /\ FirstMatchWins'
  BY <1>1 DEF LoopInv, TypeOK, FirstMatchWins
<1>3. Position'
  BY <1>1 DEF LoopInv, Position
<1>4. QED
  BY <1>2, <1>3 DEF LoopInv

LEMMA FallThroughStep == LoopInv /\ FallThrough => LoopInv'
<1> SUFFICES ASSUME LoopInv, FallThrough PROVE LoopInv'
  OBVIOUS
<1>1. /\ policy.default \in DefaultActions
      /\ Len(policy.rules) \in Nat
  BY PolicyFacts DEF LoopInv, TypeOK
<1>2. TypeOK'
  <2>1. Default(policy) \in Decision
    <3>1. policy.default \in Actions
      BY <1>1 DEF DefaultActions, Actions
    <3>2. QED
      BY <3>1 DEF Default, Decision
  <2>2. QED
    BY <2>1 DEF LoopInv, TypeOK, FallThrough
<1>3. Position'
  BY DEF LoopInv, Position, FallThrough
<1>4. Matching(policy, call) = {}
  BY <1>1 DEF LoopInv, TypeOK, Position, FallThrough, Matching
<1>5. FirstMatchWins'
  BY <1>4 DEF FallThrough, FirstMatchWins, FirstMatch
<1>6. QED
  BY <1>2, <1>3, <1>5 DEF LoopInv

\* Every step of evaluate preserves the loop invariant.
LEMMA LoopStep == LoopInv /\ [Next]_vars => LoopInv'
<1>1. LoopInv /\ UNCHANGED vars => LoopInv'
  BY DEF LoopInv, TypeOK, Position, FirstMatchWins, vars
<1>2. QED
  BY <1>1, SkipRuleStep, MatchRuleStep, RaiseStep, FallThroughStep DEF Next

LEMMA LoopInvariant == Spec => []LoopInv
  BY LoopInit, LoopStep, PTL DEF Spec

\* The types of evaluate's loop, for every set of rules and calls
\* (policy.py:119-128).
THEOREM PolicyTyped == Spec => []TypeOK
<1>1. LoopInv => TypeOK
  BY DEF LoopInv
<1>2. QED
  BY <1>1, LoopInvariant, PTL

\* The decision of evaluate (policy.py:119-128) is the documented one
\* (policy.py:3-7) for every policy that load accepts and every call.
THEOREM EvaluateIsFirstMatch == Spec => []FirstMatchWins
<1>1. LoopInv => FirstMatchWins
  BY DEF LoopInv
<1>2. QED
  BY <1>1, LoopInvariant, PTL

-----------------------------------------------------------------------------

LEMMA RaisesStep ==
    LoopInv /\ WellTypedNeverRaises /\ [Next]_vars => WellTypedNeverRaises'
<1> SUFFICES ASSUME LoopInv, WellTypedNeverRaises, [Next]_vars, decision' = Raised
             PROVE  WellTypedNeverRaises'
  BY DEF WellTypedNeverRaises
<1>1. CASE UNCHANGED vars
  BY <1>1 DEF vars, WellTypedNeverRaises
<1>2. CASE SkipRule
  BY <1>2, PolicyAssumption DEF SkipRule, Examine
<1>3. CASE MatchRule
  <2>1. policy.rules[rule] \in Rules
    BY <1>3, RuleFacts DEF LoopInv, MatchRule
  <2>2. policy.rules[rule].action \in Actions
    BY <2>1, PolicyAssumption DEF ValidRule
  <2>3. decision' \in Decision
    BY <1>3, <2>1, <2>2 DEF MatchRule, RuleDecision, Decision
  <2> QED
    BY <2>3, PolicyAssumption
<1>4. CASE FallThrough
  <2>1. policy.default \in Actions
    BY PolicyFacts DEF LoopInv, TypeOK, DefaultActions, Actions
  <2>2. decision' \in Decision
    BY <1>4, <2>1 DEF FallThrough, Default, Decision
  <2> QED
    BY <2>2, PolicyAssumption
<1>5. CASE Raise
  <2>1. policy' = policy /\ call' = call /\ rule' = rule
    BY <1>5 DEF Raise
  <2>2. policy.rules[rule] \in Rules
    BY <1>5, RuleFacts DEF LoopInv, Raise
  <2>3. IllTyped(policy.rules[rule], call)
    BY <1>5, <2>2, RaisesIllTyped DEF Raise, Examine
  <2>4. \A i \in 1 .. rule - 1 : ~RuleMatches(policy.rules[i], call)
    BY DEF LoopInv, Position
  <2> QED
    BY <2>1, <2>3, <2>4 DEF WellTypedNeverRaises, IllTyped
<1> QED
  BY <1>1, <1>2, <1>3, <1>4, <1>5 DEF Next

\* Over a policy that load accepts (policy.py:65-97) and a call, evaluate
\* raises only at a rule it gets to, none before it matching, and only over
\* globs, a param, a one_of, bounds, a tool's name or arguments of a type
\* other than the documented one (policy.py:31-51,119-128), for every set of
\* rules and calls.
THEOREM WellTypedPoliciesNeverRaise == Spec => []WellTypedNeverRaises
<1>1. Init => WellTypedNeverRaises
  BY PolicyAssumption DEF Init, WellTypedNeverRaises
<1> QED
  BY <1>1, RaisesStep, LoopInvariant, PTL DEF Spec
=============================================================================
