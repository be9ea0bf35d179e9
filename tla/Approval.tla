------------------------------ MODULE Approval ------------------------------
(***************************************************************************)
(* The approval prompt of src/opensteps/approval.py.                       *)
(*                                                                         *)
(* request_approval runs in a thread, for one call at a time (the pump     *)
(* that asks waits for it).  It opens the controlling terminal, waits in   *)
(* select for a line or the timeout, and reads one line.  The terminal     *)
(* outlives the prompt: a line typed after the timeout stays in its input  *)
(* queue and the next prompt reads it.                                     *)
(*                                                                         *)
(* The human is the environment: at most one line per prompt they saw,     *)
(* "y" for the answers the code accepts and "n" for every other one.       *)
(***************************************************************************)
EXTENDS Naturals, Sequences, FiniteSets

CONSTANTS
    Calls,       \* the calls that may need approval
    None,        \* Python's None
    User,        \* getpass.getuser()
    Ttys,        \* whether opening /dev/tty may succeed: a subset of BOOLEAN
    TypesLate    \* whether the human may answer a prompt that timed out

VARIABLES
    asking,      \* the call a prompt thread works on, or None
    result,      \* the thread's ApprovalResult once it has one, or None
    tty,         \* lines typed and not read yet, each [to, says]
    typed        \* what the human answered to each call's prompt

vars == <<asking, result, tty, typed>>

Lines == [to : Calls, says : {"y", "n"}]

NoTtyResult == [approved |-> FALSE, approver_id |-> None, method |-> "none"]

TtyResult(approved) == [approved |-> approved, approver_id |-> User, method |-> "cli"]

ApprovalResults == {NoTtyResult} \cup {TtyResult(b) : b \in BOOLEAN}

Init ==
    /\ asking = None
    /\ result = None
    /\ tty = <<>>
    /\ typed = [c \in Calls |-> "unseen"]

\* The thread is started (proxy.py:140-147); no terminal is an immediate
\* rejection (approval.py:59-63).
request_approval(c) ==
    /\ asking = None
    /\ asking' = c
    /\ UNCHANGED tty
    /\ \/ /\ TRUE \in Ttys
          /\ typed' = [typed EXCEPT ![c] = "seen"]
          /\ result' = None
       \/ /\ FALSE \in Ttys
          /\ result' = NoTtyResult
          /\ UNCHANGED typed

Prompting == asking # None /\ result = None

\* select finds a line and readline takes the oldest one
ReadAnswer ==
    /\ Prompting
    /\ tty # <<>>
    /\ result' = TtyResult(Head(tty).says = "y")
    /\ tty' = Tail(tty)
    /\ UNCHANGED <<asking, typed>>

\* Mutant of PromptTimeout: select is called without a timeout
PromptTimeout_never == FALSE

\* select times out on an empty terminal
PromptTimeout ==
    /\ Prompting
    /\ tty = <<>>
    /\ result' = TtyResult(FALSE)
    /\ UNCHANGED <<asking, tty, typed>>

\* The caller takes the result
Take ==
    /\ result # None
    /\ asking' = None
    /\ result' = None
    /\ UNCHANGED <<tty, typed>>

\* The prompt's process dies; the terminal stays
Kill ==
    /\ asking' = None
    /\ result' = None
    /\ UNCHANGED <<tty, typed>>

\* The human answers a prompt they saw
Type(c, says) ==
    /\ typed[c] = "seen"
    /\ ~TypesLate => Prompting /\ asking = c
    /\ typed' = [typed EXCEPT ![c] = says]
    /\ tty' = Append(tty, [to |-> c, says |-> says])
    /\ UNCHANGED <<asking, result>>

\* The types of the prompt thread and of the terminal (approval.py:17-21); a
\* result belongs to the call that asked.
TypeOK ==
    /\ asking \in Calls \cup {None}
    /\ result \in ApprovalResults \cup {None}
    /\ result # None => asking # None
    /\ tty \in Seq(Lines)
    /\ typed \in [Calls -> {"unseen", "seen", "y", "n"}]
=============================================================================
