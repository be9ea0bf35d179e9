---------------------------- MODULE ChainWriter ----------------------------
(***************************************************************************)
(* The receipt log and the objects that append to it:                      *)
(* src/opensteps/receipts.py.                                              *)
(*                                                                         *)
(* The log is a JSONL file: a sequence of lines, each a receipt or         *)
(* Garbage (bytes that json.loads rejects), and a flag saying whether its  *)
(* last line ends in a newline.  A receipt is [receipt_id, prev_hash,      *)
(* body]: its uuid, the hash of its predecessor, and everything it says    *)
(* about a call.  SHA-256 over the canonical receipt is ideal: two         *)
(* receipts with different uuids never collide, so the hash is the uuid.   *)
(*                                                                         *)
(* Each writer is a ChainWriter object of some process; it caches the hash *)
(* of the last receipt it knows of.  An append can be cut short: by an     *)
(* exception of write, flush or fsync (the process lives on), or by the    *)
(* death of the process.                                                   *)
(***************************************************************************)
EXTENDS Naturals, Sequences

CONSTANTS
    Writers,     \* ChainWriter objects
    Bodies,      \* what a receipt can say about a call
    NoHash,      \* Python's None as a prev_hash
    Closed,      \* the cache of a writer that does not exist (yet, or any more)
    Garbage,     \* a line that is not a JSON document
    Raised,      \* how far an append may get before it raises
    Torn,        \* how far an append may get before its process dies
    OneWriter    \* whether a writer is opened only when no other is open

\* How much of an append reached the file: nothing, a proper prefix of the
\* line, the line without its newline, or all of it.
Extents == {"nothing", "prefix", "no_newline", "line"}

ASSUME ChainAssumption ==
    /\ Raised \subseteq Extents
    /\ Torn \subseteq Extents
    /\ OneWriter \in BOOLEAN
    /\ NoHash \notin Nat
    /\ Closed \notin Nat
    /\ NoHash # Closed

VARIABLES
    lines,       \* the file's lines
    ended,       \* whether the file is empty or ends in a newline
    prev_hash,   \* each writer's _prev_hash, or Closed
    uuids        \* how many receipt ids have been drawn

vars == <<lines, ended, prev_hash, uuids>>

Hashes == Nat \cup {NoHash}

Receipts == [receipt_id : Nat, prev_hash : Hashes, body : Bodies]

ASSUME GarbageAssumption == Garbage \notin Receipts

receipt_hash(receipt) == receipt.receipt_id

\* ChainWriter._tail_hash; json.loads raises when the last line is Garbage,
\* which is a guard of Open.
tail_hash(ls) == IF ls = <<>> THEN NoHash ELSE receipt_hash(ls[Len(ls)])

build_receipt(prev, body) ==
    [receipt_id |-> uuids + 1, prev_hash |-> prev, body |-> body]

\* Mutant of Written: the file opened for writing instead of appending
Written_truncates(line) == <<line>>

\* The file after `line` is written at its end: a new line, unless the last
\* one has no newline yet; two documents on one line are no JSON document.
Written(line) ==
    IF ended THEN Append(lines, line)
             ELSE [lines EXCEPT ![Len(lines)] = Garbage]

Write(receipt, extent) ==
    CASE extent = "nothing"    -> UNCHANGED <<lines, ended>>
      [] extent = "prefix"     -> lines' = Written(Garbage) /\ ended' = FALSE
      [] extent = "no_newline" -> lines' = Written(receipt) /\ ended' = FALSE
      [] extent = "line"       -> lines' = Written(receipt) /\ ended' = TRUE

Init ==
    /\ lines = <<>>
    /\ ended = TRUE
    /\ prev_hash = [w \in Writers |-> Closed]
    /\ uuids = 0

\* Mutant of Open: every writer starts a chain of its own
Open_from_none(w) ==
    /\ prev_hash[w] = Closed
    /\ OneWriter => \A v \in Writers : prev_hash[v] = Closed
    /\ lines # <<>> => lines[Len(lines)] # Garbage
    /\ prev_hash' = [prev_hash EXCEPT ![w] = NoHash]
    /\ UNCHANGED <<lines, ended, uuids>>

\* ChainWriter.__init__
Open(w) ==
    /\ prev_hash[w] = Closed
    /\ OneWriter => \A v \in Writers : prev_hash[v] = Closed
    /\ lines # <<>> => lines[Len(lines)] # Garbage
    /\ prev_hash' = [prev_hash EXCEPT ![w] = tail_hash(lines)]
    /\ UNCHANGED <<lines, ended, uuids>>

\* Mutants of append: the cached hash is not advanced, or the tail need not
\* have been read
append_keeps_hash(w, body) ==
    /\ prev_hash[w] # Closed
    /\ Write(build_receipt(prev_hash[w], body), "line")
    /\ uuids' = uuids + 1
    /\ UNCHANGED prev_hash

append_unopened(w, body) ==
    LET receipt == build_receipt(prev_hash[w], body) IN
    /\ Write(receipt, "line")
    /\ uuids' = uuids + 1
    /\ prev_hash' = [prev_hash EXCEPT ![w] = receipt_hash(receipt)]

\* ChainWriter.append that returns
append(w, body) ==
    LET receipt == build_receipt(prev_hash[w], body) IN
    /\ prev_hash[w] # Closed
    /\ Write(receipt, "line")
    /\ uuids' = uuids + 1
    /\ prev_hash' = [prev_hash EXCEPT ![w] = receipt_hash(receipt)]

\* Mutant of append_raises: the hash is advanced before the write
append_raises_advanced(w, body, extent) ==
    LET receipt == build_receipt(prev_hash[w], body) IN
    /\ prev_hash[w] # Closed
    /\ extent \in Raised
    /\ Write(receipt, extent)
    /\ uuids' = uuids + 1
    /\ prev_hash' = [prev_hash EXCEPT ![w] = receipt_hash(receipt)]

\* ChainWriter.append that raises: _prev_hash keeps its value
append_raises(w, body, extent) ==
    /\ prev_hash[w] # Closed
    /\ extent \in Raised
    /\ Write(build_receipt(prev_hash[w], body), extent)
    /\ uuids' = uuids + 1
    /\ UNCHANGED prev_hash

\* The writer's process ends, with no append under way
Close(w) ==
    /\ prev_hash[w] # Closed
    /\ prev_hash' = [prev_hash EXCEPT ![w] = Closed]
    /\ UNCHANGED <<lines, ended, uuids>>

\* The writer's process dies inside append
append_dies(w, body, extent) ==
    /\ prev_hash[w] # Closed
    /\ extent \in Torn
    /\ Write(build_receipt(prev_hash[w], body), extent)
    /\ uuids' = uuids + 1
    /\ prev_hash' = [prev_hash EXCEPT ![w] = Closed]

Next ==
    \E w \in Writers :
        \/ Open(w)
        \/ Close(w)
        \/ \E body \in Bodies : append(w, body)
        \/ \E body \in Bodies, extent \in Extents : append_raises(w, body, extent)
        \/ \E body \in Bodies, extent \in Extents : append_dies(w, body, extent)

Spec == Init /\ [][Next]_vars

-----------------------------------------------------------------------------

\* The types of the file, the caches and the uuid counter (receipts.py:92-97).
TypeOK ==
    /\ lines \in Seq(Receipts \cup {Garbage})
    /\ ended \in BOOLEAN
    /\ prev_hash \in [Writers -> Hashes \cup {Closed}]
    /\ uuids \in Nat

\* Line i is a receipt whose prev_hash names the line before it.
Linked(ls, i) ==
    /\ ls[i] # Garbage
    /\ ls[i].prev_hash = IF i = 1 THEN NoHash ELSE receipt_hash(ls[i - 1])

\* SCHEMA.md:69-73 of the whole file: every line is a receipt linked to the
\* one before it, so verify_chain reaches the end of the file.
ChainLinked == \A i \in 1 .. Len(lines) : Linked(lines, i)

\* Crash consistency of append (receipts.py:139-143): whatever an append
\* interrupted by a crash left behind, at most the last line is damaged and
\* every other line still verifies.
ChainLinkedButTail ==
    /\ \A i \in 1 .. Len(lines) - 1 : Linked(lines, i)
    /\ lines # <<>> => \/ Linked(lines, Len(lines))
                       \/ lines[Len(lines)] = Garbage /\ ~ended

\* A writer that holds the log open continues from its actual last receipt
\* (receipts.py:97,143): the cached hash is never stale.
CacheIsTail ==
    \A w \in Writers : prev_hash[w] # Closed =>
        /\ ended
        /\ lines # <<>> => lines[Len(lines)] # Garbage
        /\ prev_hash[w] = tail_hash(lines)

\* At most one writer is open, when OneWriter serialises them.
OneOpen ==
    \A v, w \in Writers : prev_hash[v] # Closed /\ prev_hash[w] # Closed => v = w

\* The file is append-only (receipts.py:139): no step changes or removes a
\* line that is already there.
AppendOnly ==
    [][ /\ Len(lines') >= Len(lines)
        /\ \A i \in 1 .. Len(lines) : lines'[i] = lines[i] ]_vars
=============================================================================
