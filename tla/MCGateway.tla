------------------------------ MODULE MCGateway ------------------------------
(***************************************************************************)
(* An instance of Gateway with a call of each kind and three documents.    *)
(***************************************************************************)
EXTENDS Gateway

merge_pr == <<"code-agent", "github", "merge", "repo">>
delete_vm == <<"code-agent", "aws", "delete", "vm">>

MCCalls == {merge_pr, delete_vm}

\* No connector is registered for aws.
MCSupported == {merge_pr}

Globs(values) == [matches |-> values, raises |-> FALSE]

Any == Globs({"code-agent", "github", "aws", "merge", "delete", "repo", "vm", "validation"})

\* After legacy/backend/app/tests/test_policy.py:5-18
Careful ==
    [rules |-> << [effect |-> "allow",
                   patterns |-> <<Globs({"code-agent"}), Globs({"github"}), Globs({"create"}),
                                  Globs({"repo"})>>],
                  [effect |-> "approval_required",
                   patterns |-> <<Globs({"code-agent"}), Globs({"github", "aws"}),
                                  Globs({"merge", "delete"}), Any>>] >>,
     default |-> "deny"]

\* The actions are a glob and a number, over which only some calls stumble;
\* validation does not get to them, as it comes with another agent.
Faulty ==
    [rules |-> << [effect |-> "allow",
                   patterns |-> <<Globs({"code-agent"}), Any,
                                  [matches |-> {"merge"}, raises |-> TRUE], Any>>] >>,
     default |-> "approval_required"]

Misspelt == [rules |-> <<>>, default |-> "permit"]

MCDocuments == {Careful, Faulty, Misspelt}

MCCarefulOnly == {Careful}

MCCarefulPolicies == {<<[document |-> Careful, committed |-> TRUE]>>}

MCPolicies == {<<>>, <<[document |-> Careful, committed |-> TRUE]>>}
=============================================================================
