---------------------------- MODULE AuditedCalls ----------------------------
(***************************************************************************)
(* What `opensteps wrap` promises about tool calls, with the streams, the  *)
(* pumps, the sessions and the hash chain abstracted away: a call is       *)
(* submitted, it is either executed or not, a receipt may be filed that    *)
(* says which, and the client is told of a call only once it is filed.     *)
(*                                                                         *)
(* It does not promise that every executed call is filed: the server or    *)
(* the proxy may end before the answer comes.                              *)
(***************************************************************************)
EXTENDS Naturals, Sequences

CONSTANTS
    Calls,    \* tool calls
    Denied    \* those policy denies outright

VARIABLES
    submitted,   \* calls the client sent
    executed,    \* calls the server got
    trail,       \* filed receipts in order, each [call, outcome]
    told         \* calls the client was told the outcome of

vars == <<submitted, executed, trail, told>>

Filed == {trail[i].call : i \in 1 .. Len(trail)}

Init == submitted = {} /\ executed = {} /\ trail = <<>> /\ told = {}

Submit(c) ==
    /\ c \notin submitted
    /\ submitted' = submitted \cup {c}
    /\ UNCHANGED <<executed, trail, told>>

Execute(c) ==
    /\ c \in submitted \ (executed \cup Denied \cup Filed)
    /\ executed' = executed \cup {c}
    /\ UNCHANGED <<submitted, trail, told>>

\* The receipt of a call
File(c) ==
    /\ c \in submitted \ Filed
    /\ trail' = Append(trail,
           [call |-> c, outcome |-> IF c \in executed THEN "answered" ELSE "blocked"])
    /\ UNCHANGED <<submitted, executed, told>>

Tell(c) ==
    /\ c \in Filed \ told
    /\ told' = told \cup {c}
    /\ UNCHANGED <<submitted, executed, trail>>

Next == \E c \in Calls : Submit(c) \/ Execute(c) \/ File(c) \/ Tell(c)

Spec == Init /\ [][Next]_vars
=============================================================================
