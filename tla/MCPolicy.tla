------------------------------ MODULE MCPolicy ------------------------------
(***************************************************************************)
(* Policies of up to two rules over two tools, with conditions that cover  *)
(* every operator, a pair of them, their precedence, and globs, params and *)
(* operands of types that load does not refuse; calls with an argument of  *)
(* every type or none, arguments that are no object, and a tool that has   *)
(* no name.                                                                *)
(***************************************************************************)
EXTENDS Policy, TLC

Num(n) == [type |-> "num", val |-> n]
Bool(n) == [type |-> "bool", val |-> n]
Str(s) == [type |-> "str", val |-> s]
List(s) == [type |-> "list", val |-> s]
Null == [type |-> "null", val |-> 0]

Cond(ops) == [param |-> Str("amount"), ops |-> ops]

MCConditions == {
    Cond("equals" :> Num(1)),
    Cond("equals" :> Num(1) @@ "max" :> Num(0)),
    Cond("one_of" :> List(<<Num(1), Str("EUR")>>)),
    Cond("one_of" :> Str({"EUR", "USD"})),
    Cond("one_of" :> [type |-> "map", val |-> Num(1) :> Null]),
    Cond("max" :> Num(3)),
    Cond("min" :> Num(2) @@ "max" :> Bool(1)),
    Cond("min" :> Null @@ "max" :> Num(3)),
    Cond("matches" :> Str({"EUR"})),
    [param |-> Num(-1), ops |-> "equals" :> Num(1)],
    [param |-> List(<<>>), ops |-> "equals" :> Num(1)]}

MCWheres == {<<>>} \cup {<<c>> : c \in MCConditions} \cup
    {<<Cond("max" :> Num(3)), Cond("min" :> Str({}))>>,
     <<Cond("equals" :> Num(1)), Cond("max" :> Num(3))>>}

MCGlobs == {
    "tool" :> Str({"read", "write"}),
    "tool" :> Str({"write"}) @@ "server" :> Str({"files"}),
    "tool" :> Str({"read", "write"}) @@ "server" :> Str({}),
    "server" :> Num(1)}

MCRules ==
    {[id |-> heading[1], action |-> heading[2], globs |-> globs, where |-> where] :
        heading \in {<<"rule1", "deny">>, <<"rule2", "approve">>},
        globs \in MCGlobs, where \in MCWheres}

MCArguments ==
    {[type |-> "map", val |-> Str("amount") :> v] :
        v \in {Num(1), Num(4), Bool(1), Str("EUR"), List(<<Num(1)>>), Null}}
    \cup {[type |-> "map", val |-> <<>>], List(<<Num(-1), Num(1)>>), Str({"amount"}), Num(1)}

MCCalls ==
    [server : {Str("files")}, tool : {Str("write"), Null}, arguments : MCArguments]
    \cup [server : {Str("files")}, tool : {Str("read")},
          arguments : {[type |-> "map", val |-> Str("amount") :> Num(1)]}]
=============================================================================
