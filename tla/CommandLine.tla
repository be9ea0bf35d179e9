----------------------------- MODULE CommandLine -----------------------------
(***************************************************************************)
(* The commands of opensteps on one directory with a pair of key files and *)
(* a log: src/opensteps/cli.py and keys.py, the log being ChainWriter's.   *)
(*                                                                         *)
(* keygen writes its two files one after the other, over those that are    *)
(* there, and can die in between; every run of wrap holds the key and the  *)
(* tail that it read when it started; verify reads a log that a wrap may   *)
(* still be writing.  Nobody edits the log.                                *)
(*                                                                         *)
(* What a receipt says (its body) is the key that signed it.  A key is the *)
(* number of the keygen that drew it.  Verifiers see whole appends: a      *)
(* receipt is far smaller than the buffer it is written through.           *)
(***************************************************************************)
EXTENDS ChainWriter

CONSTANTS
    NoKey,       \* what an absent, an empty or a cut key file holds
    MaxKeys, MaxAppends    \* bounds on keygens and on appends

ASSUME CommandLineAssumption ==
    /\ MaxKeys \in Nat /\ MaxAppends \in Nat
    /\ Bodies = 1 .. MaxKeys
    /\ NoKey \notin Nat

VARIABLES
    signing_key, signing_pub,   \* the key files
    drawn,       \* how many key pairs have been generated
    keygen,      \* what the keygen under way does next
    private_key, \* the key each wrap process loaded
    verifier     \* verify: its key, receipts read, prev_hash and verdict

keyFiles == <<signing_key, signing_pub, drawn, keygen>>
commandVars == <<vars, keyFiles, private_key, verifier>>

CommandInit ==
    /\ Init
    /\ signing_key = NoKey /\ signing_pub = NoKey
    /\ drawn = 0
    /\ keygen = "idle"
    /\ private_key = [w \in Writers |-> NoKey]
    /\ verifier = [key |-> NoKey, checked |-> 0, prev_hash |-> NoHash, verdict |-> "none"]

-----------------------------------------------------------------------------
(* keygen *)

\* A key file can be loaded, or load_private_key or load_public_key raises.
load(file) == file # NoKey

\* os.open with O_TRUNC
generate_keypair ==
    /\ keygen = "idle"
    /\ drawn < MaxKeys
    /\ drawn' = drawn + 1
    /\ signing_key' = NoKey
    /\ keygen' = "write private"
    /\ UNCHANGED <<vars, signing_pub, private_key, verifier>>

WritePrivate ==
    /\ keygen = "write private"
    /\ signing_key' = drawn
    /\ keygen' = "open public"
    /\ UNCHANGED <<vars, signing_pub, drawn, private_key, verifier>>

\* write_bytes opens, and truncates, before it writes
OpenPublic ==
    /\ keygen = "open public"
    /\ signing_pub' = NoKey
    /\ keygen' = "write public"
    /\ UNCHANGED <<vars, signing_key, drawn, private_key, verifier>>

WritePublic ==
    /\ keygen = "write public"
    /\ signing_pub' = drawn
    /\ keygen' = "idle"
    /\ UNCHANGED <<vars, signing_key, drawn, private_key, verifier>>

_cmd_keygen == generate_keypair \/ WritePrivate \/ OpenPublic \/ WritePublic

KeygenDies ==
    /\ keygen # "idle"
    /\ keygen' = "idle"
    /\ UNCHANGED <<vars, signing_key, signing_pub, drawn, private_key, verifier>>

-----------------------------------------------------------------------------
(* wrap *)

_cmd_wrap(w) ==
    /\ load(signing_key)
    /\ Open(w)
    /\ private_key' = [private_key EXCEPT ![w] = signing_key]
    /\ UNCHANGED <<keyFiles, verifier>>

Wrapping(w) ==
    /\ uuids < MaxAppends
    /\ \/ append(w, private_key[w])
       \/ \E extent \in Extents : append_raises(w, private_key[w], extent)
       \/ \E extent \in Extents : append_dies(w, private_key[w], extent)
    /\ UNCHANGED <<keyFiles, private_key, verifier>>

WrapEnds(w) == Close(w) /\ UNCHANGED <<keyFiles, private_key, verifier>>

-----------------------------------------------------------------------------
(* verify *)

Verifier(verdict) ==
    [key |-> signing_pub, checked |-> 0, prev_hash |-> NoHash, verdict |-> verdict]

_cmd_verify ==
    /\ load(signing_pub)
    /\ verifier' = Verifier("reading")
    /\ UNCHANGED <<vars, keyFiles, private_key>>

\* --single: the file is one JSON document, of which the links are not asked
VerifySingle ==
    /\ load(signing_pub)
    /\ Len(lines) = 1 /\ lines[1] # Garbage
    /\ verifier' = Verifier(IF lines[1].body = signing_pub THEN "valid" ELSE "bad signature")
    /\ UNCHANGED <<vars, keyFiles, private_key>>

Conclude(verdict) == verifier' = [verifier EXCEPT !.verdict = verdict]

\* One iteration of verify_chain, on the file as it is by now
VerifyLine ==
    LET line == lines[verifier.checked + 1] IN
    /\ verifier.verdict = "reading"
    /\ verifier.checked < Len(lines)
    /\ IF line = Garbage THEN Conclude("not JSON")
       ELSE IF line.body # verifier.key THEN Conclude("bad signature")
       ELSE IF line.prev_hash # verifier.prev_hash THEN Conclude("bad link")
       ELSE verifier' = [verifier EXCEPT !.checked = @ + 1, !.prev_hash = receipt_hash(line)]
    /\ UNCHANGED <<vars, keyFiles, private_key>>

VerifyEnds ==
    /\ verifier.verdict = "reading"
    /\ verifier.checked = Len(lines)
    /\ Conclude(IF verifier.checked = 0 THEN "no receipts" ELSE "valid")
    /\ UNCHANGED <<vars, keyFiles, private_key>>

CommandNext ==
    \/ _cmd_keygen \/ KeygenDies
    \/ \E w \in Writers : _cmd_wrap(w) \/ Wrapping(w) \/ WrapEnds(w)
    \/ _cmd_verify \/ VerifySingle \/ VerifyLine \/ VerifyEnds

CommandSpec == CommandInit /\ [][CommandNext]_commandVars

-----------------------------------------------------------------------------

\* docs/SCHEMA.md:4-5, cli.py:103-135: a log that only wrap wrote, sessions
\* and crashes apart, is never refused for a link, for a line only if it is
\* the last and was cut by a crash, and for a signature only if keygen was run
\* again; also while a wrap is writing it.  A log without receipts, which is
\* invalid by SCHEMA.md:91, is left aside.
RefusedForCause ==
    LET rest == SubSeq(lines, verifier.checked + 1, Len(lines)) IN
    /\ verifier.verdict # "bad link"
    /\ verifier.verdict = "not JSON" => Len(rest) = 1 /\ ~ended
    /\ verifier.verdict = "bad signature" => drawn > 1
=============================================================================
