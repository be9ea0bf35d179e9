------------------------------- MODULE Merkle -------------------------------
(***************************************************************************)
(* The Merkle root of a checkpoint: legacy/backend/app/core/merkle.py, and *)
(* what is read back from one.                                             *)
(*                                                                         *)
(* SHA-256 is ideal: the hash of two digests is the pair of them, so two   *)
(* roots are equal only when their trees are.  The digest of an event is   *)
(* <<event>>, which is no pair.                                            *)
(***************************************************************************)
EXTENDS Integers, Sequences, SequencesExt

sha256_hex(x, y) == <<x, y>>

\* Mutant of Even: the first digest is repeated, in front
Even_in_front(level) ==
    IF Len(level) % 2 = 1 THEN <<Head(level)>> \o level ELSE level

\* A level with an odd number of digests repeats its last one
Even(level) ==
    IF Len(level) % 2 = 1 THEN Append(level, Last(level)) ELSE level

\* One iteration of the while loop
Pair(level) ==
    LET even == Even(level) IN
    [i \in 1 .. Len(even) \div 2 |-> sha256_hex(even[2 * i - 1], even[2 * i])]

\* How many iterations it takes until one of n digests is left
Height(n) ==
    LET width[h \in 0 .. n] == IF h = 0 THEN n ELSE (width[h - 1] + 1) \div 2
    IN  CHOOSE h \in 0 .. n : width[h] = 1 /\ \A k \in 0 .. h - 1 : width[k] > 1

compute_merkle_root(event_hashes) ==
    LET level[h \in 0 .. Height(Len(event_hashes))] ==
            IF h = 0 THEN event_hashes ELSE Pair(level[h - 1])
    IN  Head(level[Height(Len(event_hashes))])

\* What the root of a tree over n leaves says they are: its leaves from left
\* to right, but for the padding at the right end.
LeavesOf(root, n) ==
    LET row[k \in 0 .. Height(n)] ==
            IF k = 0 THEN <<root>> ELSE FlattenSeq(row[k - 1])
    IN  SubSeq(row[Height(n)], 1, n)
=============================================================================
