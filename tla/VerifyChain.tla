----------------------------- MODULE VerifyChain -----------------------------
(***************************************************************************)
(* The offline verifier, src/opensteps/verify.py: verify_chain reads a     *)
(* file line by line and carries the hash of the previous receipt.         *)
(*                                                                         *)
(* The file is arbitrary: somebody may have edited, deleted, repeated,     *)
(* moved or added lines of a log, or mixed logs of the same key.  A line   *)
(* is                                                                      *)
(*   a receipt signed with the key, of one of the Logs,                    *)
(*   Altered: JSON that verify_receipt rejects (not an object, a field     *)
(*     missing, a signature that does not decode or does not verify),      *)
(*   Garbage: not JSON,                                                    *)
(*   Uncanonical: JSON that JCS cannot serialise, whose verification       *)
(*     raises, or                                                          *)
(*   Blank.                                                                *)
(* Signatures are unforgeable (whatever was changed is Altered) and SHA-256 *)
(* collision-free (hash is injective).                                     *)
(***************************************************************************)
EXTENDS Naturals, Sequences, FiniteSets

CONSTANTS
    Logs,        \* the logs written with the key: sequences of receipts
    hash,        \* receipt_hash of each receipt
    prev,        \* prev_hash of each receipt
    NoHash,      \* None
    Altered, Garbage, Uncanonical, Blank,
    Files        \* the files that may be given to the verifier

RangeOf(s) == {s[i] : i \in 1 .. Len(s)}

Signed == UNION {RangeOf(log) : log \in Logs}

Lines == Signed \cup {Altered, Garbage, Uncanonical, Blank}

Link(receipts, i) == IF i = 1 THEN NoHash ELSE hash[receipts[i - 1]]

ASSUME VerifyAssumption ==
    /\ hash \in [Signed -> Nat]
    /\ \A r, s \in Signed : hash[r] = hash[s] => r = s
    /\ NoHash \notin Nat
    /\ prev \in [Signed -> Nat \cup {NoHash}]
    /\ \A log \in Logs :
          /\ log \in Seq(Signed)
          /\ \A i \in 1 .. Len(log) : prev[log[i]] = Link(log, i)
    /\ \A log1, log2 \in Logs : \A i \in 1 .. Len(log1), j \in 1 .. Len(log2) :
          log1[i] = log2[j] => log1 = log2 /\ i = j
    /\ Files \subseteq Seq(Lines)
    /\ {Altered, Garbage, Uncanonical, Blank} \cap Signed = {}
    /\ Blank \notin {Altered, Garbage, Uncanonical}

VARIABLES
    file,        \* the file under verification
    pos,         \* how many of its lines have been read
    prev_hash,   \* hash of the last receipt accepted
    checked,     \* receipts accepted
    index,       \* non-blank lines read before this one
    verdict,     \* "none" until verify_chain returns or raises
    accepted     \* history: the receipts accepted, in order

vars == <<file, pos, prev_hash, checked, index, verdict, accepted>>

Init ==
    /\ file \in Files
    /\ pos = 0 /\ checked = 0 /\ index = 0
    /\ prev_hash = NoHash
    /\ verdict = "none"
    /\ accepted = <<>>

\* The next line, read
Read(line) ==
    /\ verdict = "none"
    /\ pos < Len(file)
    /\ line = file[pos + 1]
    /\ pos' = pos + 1
    /\ UNCHANGED file

\* Mutant of SkipBlank: blank lines are numbered
SkipBlank_counts ==
    /\ Read(Blank)
    /\ index' = index + 1
    /\ UNCHANGED <<prev_hash, checked, verdict, accepted>>

\* "if line.strip()": a blank line is not enumerated
SkipBlank ==
    /\ Read(Blank)
    /\ UNCHANGED <<prev_hash, checked, index, verdict, accepted>>

Reject(reason) ==
    /\ verdict' = reason
    /\ UNCHANGED <<prev_hash, checked, index, accepted>>

NotJson == Read(Garbage) /\ Reject("not JSON")

BadReceipt == Read(Altered) /\ Reject("bad receipt")

Raises == Read(Uncanonical) /\ Reject("raised")

BadLink(r) ==
    /\ Read(r)
    /\ prev[r] # prev_hash
    /\ Reject("bad link")

\* Mutants of Accept: the link is not checked, or the receipt is carried
\* instead of its hash
Accept_unlinked(r) ==
    /\ Read(r)
    /\ prev_hash' = hash[r]
    /\ checked' = checked + 1
    /\ index' = index + 1
    /\ accepted' = Append(accepted, r)
    /\ UNCHANGED verdict

Accept_carries_receipt(r) ==
    /\ Read(r)
    /\ prev[r] = prev_hash
    /\ prev_hash' = r
    /\ checked' = checked + 1
    /\ index' = index + 1
    /\ accepted' = Append(accepted, r)
    /\ UNCHANGED verdict

Accept(r) ==
    /\ Read(r)
    /\ prev[r] = prev_hash
    /\ prev_hash' = hash[r]
    /\ checked' = checked + 1
    /\ index' = index + 1
    /\ accepted' = Append(accepted, r)
    /\ UNCHANGED verdict

\* Mutant of Finish: the end of the file is success
Finish_valid ==
    /\ verdict = "none" /\ pos = Len(file)
    /\ verdict' = "valid"
    /\ UNCHANGED <<file, pos, prev_hash, checked, index, accepted>>

Finish ==
    /\ verdict = "none" /\ pos = Len(file)
    /\ verdict' = IF checked = 0 THEN "no receipts" ELSE "valid"
    /\ UNCHANGED <<file, pos, prev_hash, checked, index, accepted>>

Next ==
    \/ SkipBlank \/ NotJson \/ BadReceipt \/ Raises \/ Finish
    \/ \E r \in Signed : BadLink(r) \/ Accept(r)

Spec == Init /\ [][Next]_vars

-----------------------------------------------------------------------------

Verdicts ==
    {"none", "not JSON", "bad receipt", "raised", "bad link", "no receipts", "valid"}

\* The types of the loop's variables (verify.py:68-72).
TypeOK ==
    /\ file \in Files
    /\ pos \in 0 .. Len(file)
    /\ prev_hash \in Nat \cup {NoHash}
    /\ checked \in Nat /\ index \in Nat
    /\ verdict \in Verdicts
    /\ accepted \in Seq(Signed)

Prefix(s, t) == Len(s) <= Len(t) /\ \A i \in 1 .. Len(s) : s[i] = t[i]

\* The lines among the first n of f that are not blank
Filled(f, n) == {i \in 1 .. n : f[i] # Blank}

\* h is what a receipt on the line after the first n must carry as prev_hash:
\* the hash of the last receipt among them, None when they hold none
LinksTo(f, n, h) ==
    \/ Filled(f, n) = {} /\ h = NoHash
    \/ \E i \in Filled(f, n) : /\ \A j \in Filled(f, n) : j <= i
                               /\ f[i] \in Signed /\ h = hash[f[i]]

\* Line i is a signed receipt that continues the chain of the lines before it
Continues(f, i) == f[i] \in Signed /\ LinksTo(f, i - 1, prev[f[i]])

\* README.md:103-104, SCHEMA.md:94-96: whatever was done to the file, what
\* the verifier has accepted so far is what some log signed with the key
\* starts with: nothing altered, dropped from the middle, moved or spliced in.
AcceptedIsPrefix ==
    accepted # <<>> => \E log \in Logs : Prefix(accepted, log)

\* verify.py:66-113: a file is valid if and only if its lines that are not
\* blank are a non-empty run of signed receipts, each linked to the one before.
\* This is what the code does, and wider than SCHEMA.md:81-84, by which every
\* line that is not a JSON object, a blank one too, makes the file invalid:
\* verify.py:71 skips blank lines.  On files without any the two agree.  In
\* particular a log as written is accepted (SCHEMA.md:4-5).
ValidIffLinked ==
    LET receipts == Filled(file, Len(file)) IN
    verdict # "none" =>
        (verdict = "valid" <=> receipts # {} /\ \A i \in receipts : Continues(file, i))

\* README.md:79-82, verify.py:75-104: verification fails at exactly the first
\* line that does not continue the chain, and numbers it among the lines that
\* are not blank; all the receipts before it were accepted, in that order.
FailsAtFirstBadLine ==
    verdict \in {"not JSON", "bad receipt", "bad link"} =>
        /\ pos \in Filled(file, pos) /\ ~Continues(file, pos)
        /\ \A i \in Filled(file, pos - 1) :
              Continues(file, i) /\ accepted[Cardinality(Filled(file, i))] = file[i]
        /\ index = Cardinality(Filled(file, pos - 1))
        /\ checked = index /\ Len(accepted) = index
=============================================================================
