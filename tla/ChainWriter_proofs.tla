------------------------- MODULE ChainWriter_proofs -------------------------
(***************************************************************************)
(* Theorems about ChainWriter.  Type correctness holds for every choice of *)
(* the constants.  That the chain survives crashes needs two facts about   *)
(* its surroundings, CleanFaults: one writer at a time, and appends that   *)
(* either raise before they write or die leaving nothing, an unfinished    *)
(* line or the whole line.                                                 *)
(***************************************************************************)
EXTENDS ChainWriter, TLAPS

CleanFaults ==
    /\ OneWriter
    /\ Raised \subseteq {"nothing"}
    /\ Torn \subseteq {"nothing", "prefix", "line"}

\* Writing a line keeps the file a sequence of lines (receipts.py:139-142).
LEMMA WrittenType ==
    ASSUME TypeOK, NEW line \in Receipts \cup {Garbage}
    PROVE  Written(line) \in Seq(Receipts \cup {Garbage})
BY DEF Written, TypeOK

\* The receipt an append builds is a receipt (receipts.py:123-137).
LEMMA BuiltType ==
    ASSUME TypeOK, NEW w \in Writers, prev_hash[w] # Closed, NEW body \in Bodies
    PROVE  build_receipt(prev_hash[w], body) \in Receipts
BY DEF TypeOK, build_receipt, Receipts, Hashes

\* What reaches the file, for every extent, keeps its type.
LEMMA WriteType ==
    ASSUME TypeOK, NEW receipt \in Receipts, NEW extent \in Extents,
           Write(receipt, extent)
    PROVE  lines' \in Seq(Receipts \cup {Garbage}) /\ ended' \in BOOLEAN
<1>1. Written(Garbage) \in Seq(Receipts \cup {Garbage})
  BY WrittenType
<1>2. Written(receipt) \in Seq(Receipts \cup {Garbage})
  BY WrittenType
<1> QED
  BY <1>1, <1>2 DEF Write, Extents, TypeOK

\* The tail hash a new writer caches is a hash (receipts.py:99-109).
LEMMA TailHashType ==
    ASSUME TypeOK, lines # <<>> => lines[Len(lines)] # Garbage
    PROVE  tail_hash(lines) \in Hashes
<1>1. CASE lines = <<>>
  BY <1>1 DEF tail_hash, Hashes
<1>2. CASE lines # <<>>
  <2>1. lines[Len(lines)] \in Receipts
    BY <1>2 DEF TypeOK
  <2> QED
    BY <1>2, <2>1 DEF tail_hash, receipt_hash, Hashes, Receipts
<1> QED
  BY <1>1, <1>2

LEMMA TypeOK_Init == Init => TypeOK
BY ChainAssumption DEF Init, TypeOK, Hashes

LEMMA TypeOK_Next == TypeOK /\ [Next]_vars => TypeOK'
<1> SUFFICES ASSUME TypeOK, [Next]_vars PROVE TypeOK'
  OBVIOUS
<1>1. ASSUME NEW w \in Writers, Open(w) PROVE TypeOK'
  BY <1>1, TailHashType DEF Open, TypeOK
<1>2. ASSUME NEW w \in Writers, Close(w) PROVE TypeOK'
  BY <1>2 DEF Close, TypeOK
<1>3. ASSUME NEW w \in Writers, NEW body \in Bodies, append(w, body) PROVE TypeOK'
  <2> DEFINE receipt == build_receipt(prev_hash[w], body)
  <2>1. receipt \in Receipts
    BY <1>3, BuiltType DEF append
  <2>2. Write(receipt, "line")
    BY <1>3 DEF append
  <2>3. lines' \in Seq(Receipts \cup {Garbage}) /\ ended' \in BOOLEAN
    BY <2>1, <2>2, WriteType DEF Extents
  <2>4. receipt_hash(receipt) \in Hashes
    BY <2>1 DEF Receipts, receipt_hash, Hashes
  <2> QED
    BY <1>3, <2>3, <2>4 DEF append, TypeOK
<1>4. ASSUME NEW w \in Writers, NEW body \in Bodies, NEW extent \in Extents,
             append_raises(w, body, extent)
      PROVE  TypeOK'
  <2>1. build_receipt(prev_hash[w], body) \in Receipts
    BY <1>4, BuiltType DEF append_raises
  <2>2. lines' \in Seq(Receipts \cup {Garbage}) /\ ended' \in BOOLEAN
    BY <1>4, <2>1, WriteType DEF append_raises
  <2> QED
    BY <1>4, <2>2 DEF append_raises, TypeOK
<1>5. ASSUME NEW w \in Writers, NEW body \in Bodies, NEW extent \in Extents,
             append_dies(w, body, extent)
      PROVE  TypeOK'
  <2>1. build_receipt(prev_hash[w], body) \in Receipts
    BY <1>5, BuiltType DEF append_dies
  <2>2. lines' \in Seq(Receipts \cup {Garbage}) /\ ended' \in BOOLEAN
    BY <1>5, <2>1, WriteType DEF append_dies
  <2> QED
    BY <1>5, <2>2 DEF append_dies, TypeOK
<1>6. CASE UNCHANGED vars
  BY <1>6 DEF vars, TypeOK
<1> QED
  BY <1>1, <1>2, <1>3, <1>4, <1>5, <1>6 DEF Next

\* The log, the caches and the uuid counter keep their types
\* (receipts.py:92-97), whatever faults occur.
THEOREM ChainTyped == Spec => []TypeOK
<1> QED
  BY TypeOK_Init, TypeOK_Next, PTL DEF Spec

-----------------------------------------------------------------------------

\* The induction: the chain is linked up to a damaged tail, the open writer
\* (there is one at most) continues from the last line, and only a damaged
\* line lacks its newline.
ChainInv ==
    /\ TypeOK
    /\ OneOpen
    /\ ChainLinkedButTail
    /\ CacheIsTail
    /\ ~ended => lines # <<>> /\ lines[Len(lines)] = Garbage

LEMMA ChainInv_Init == Init => ChainInv
BY TypeOK_Init DEF Init, ChainInv, OneOpen, ChainLinkedButTail, CacheIsTail, TypeOK

\* In a file that ends in a newline and has an intact tail every line is
\* linked, so writing a receipt that continues from the tail keeps the chain.
LEMMA AppendKeepsChain ==
    ASSUME ChainInv, NEW w \in Writers, prev_hash[w] # Closed,
           NEW body \in Bodies, NEW ls, ls = Append(lines, build_receipt(prev_hash[w], body))
    PROVE  \A i \in 1 .. Len(ls) : Linked(ls, i)
<1> DEFINE receipt == build_receipt(prev_hash[w], body)
<1>1. lines \in Seq(Receipts \cup {Garbage}) /\ receipt \in Receipts
  BY BuiltType DEF ChainInv, TypeOK
<1>2. Len(ls) = Len(lines) + 1 /\ ls[Len(ls)] = receipt
      /\ \A i \in 1 .. Len(lines) : ls[i] = lines[i]
  BY <1>1
<1>3. \A i \in 1 .. Len(lines) : Linked(lines, i)
  BY <1>1 DEF ChainInv, ChainLinkedButTail, CacheIsTail
<1>4. ASSUME NEW i \in 1 .. Len(lines) PROVE Linked(ls, i)
  <2>1. Linked(lines, i)
    BY <1>3
  <2>2. i # 1 => i - 1 \in 1 .. Len(lines)
    BY <1>1
  <2> QED
    BY <1>2, <2>1, <2>2 DEF Linked
<1>5. Linked(ls, Len(ls))
  <2>1. receipt.prev_hash = tail_hash(lines)
    BY DEF build_receipt, ChainInv, CacheIsTail
  <2> QED
    BY <1>1, <1>2, <2>1, GarbageAssumption DEF Linked, tail_hash, receipt_hash
<1> QED
  BY <1>1, <1>2, <1>4, <1>5

LEMMA ChainInv_Next == ASSUME CleanFaults PROVE ChainInv /\ [Next]_vars => ChainInv'
<1> SUFFICES ASSUME ChainInv, [Next]_vars PROVE ChainInv'
  OBVIOUS
<1>0. TypeOK /\ TypeOK'
  BY TypeOK_Next DEF ChainInv
<1> USE ChainAssumption
<1>1. ASSUME NEW w \in Writers, Open(w) PROVE ChainInv'
  <2>1. OneOpen'
    BY <1>0, <1>1 DEF Open, OneOpen, TypeOK, CleanFaults
  <2>2. CacheIsTail'
    BY <1>0, <1>1 DEF Open, CacheIsTail, TypeOK, CleanFaults, ChainInv, tail_hash
  <2> QED
    BY <1>0, <1>1, <2>1, <2>2 DEF Open, ChainInv, ChainLinkedButTail, Linked
<1>2. ASSUME NEW w \in Writers, Close(w) PROVE ChainInv'
  BY <1>0, <1>2 DEF Close, ChainInv, OneOpen, ChainLinkedButTail, Linked,
                   CacheIsTail, tail_hash, TypeOK
\* an append that completes its line, whether it then returns or dies
<1>3. ASSUME NEW w \in Writers, NEW body \in Bodies, prev_hash[w] # Closed,
             Write(build_receipt(prev_hash[w], body), "line"),
             NEW h \in {receipt_hash(build_receipt(prev_hash[w], body)), Closed},
             prev_hash' = [prev_hash EXCEPT ![w] = h]
      PROVE  ChainInv'
  <2> DEFINE receipt == build_receipt(prev_hash[w], body)
  <2>1. ended /\ receipt \in Receipts
    BY <1>3, BuiltType DEF ChainInv, CacheIsTail
  <2>2. lines' = Append(lines, receipt) /\ ended'
    BY <1>3, <2>1 DEF Write, Written
  <2>3. \A i \in 1 .. Len(lines') : Linked(lines', i)
    BY <1>3, <2>2, AppendKeepsChain
  <2>4. Len(lines') = Len(lines) + 1 /\ lines'[Len(lines')] = receipt /\ lines' # <<>>
    BY <1>0, <2>1, <2>2 DEF TypeOK
  <2>5. ChainLinkedButTail'
    BY <1>0, <2>3, <2>4 DEF ChainLinkedButTail, Linked, TypeOK
  <2>6. OneOpen'
    BY <1>0, <1>3 DEF OneOpen, ChainInv, TypeOK
  <2>7. receipt # Garbage
    BY <2>3, <2>4, <1>0 DEF Linked, TypeOK
  <2>8. CacheIsTail'
    <3>1. tail_hash(lines') = receipt_hash(receipt)
      BY <2>4 DEF tail_hash
    <3>2. \A v \in Writers : prev_hash'[v] # Closed => v = w /\ prev_hash'[v] = h
      BY <1>0, <1>3 DEF OneOpen, ChainInv, TypeOK
    <3> QED
      BY <1>3, <2>2, <2>4, <2>7, <3>1, <3>2 DEF CacheIsTail, tail_hash
  <2> QED
    BY <1>0, <2>2, <2>5, <2>6, <2>8 DEF ChainInv
<1>4. ASSUME NEW w \in Writers, NEW body \in Bodies, append(w, body) PROVE ChainInv'
  <2> DEFINE receipt == build_receipt(prev_hash[w], body)
  <2>1. /\ prev_hash[w] # Closed
        /\ Write(receipt, "line")
        /\ prev_hash' = [prev_hash EXCEPT ![w] = receipt_hash(receipt)]
    BY <1>4 DEF append
  <2> HIDE DEF receipt
  <2> QED
    BY <1>3, <2>1 DEF receipt
<1>5. ASSUME NEW w \in Writers, NEW body \in Bodies, NEW extent \in Extents,
             append_raises(w, body, extent)
      PROVE  ChainInv'
  <2>1. extent = "nothing"
    BY <1>5 DEF append_raises, CleanFaults
  <2>2. UNCHANGED <<lines, ended, prev_hash>>
    BY <1>5, <2>1 DEF append_raises, Write
  <2> QED
    BY <1>0, <2>2 DEF ChainInv, OneOpen, ChainLinkedButTail, Linked, CacheIsTail, tail_hash
<1>6. ASSUME NEW w \in Writers, NEW body \in Bodies, NEW extent \in Extents,
             append_dies(w, body, extent)
      PROVE  ChainInv'
  <2>1. /\ prev_hash[w] # Closed
        /\ prev_hash' = [prev_hash EXCEPT ![w] = Closed]
        /\ Write(build_receipt(prev_hash[w], body), extent)
        /\ extent \in {"nothing", "prefix", "line"}
    BY <1>6 DEF append_dies, CleanFaults
  <2>2. OneOpen' /\ \A v \in Writers : prev_hash'[v] = Closed
    BY <1>0, <2>1 DEF OneOpen, ChainInv, TypeOK
  <2>3. CacheIsTail'
    BY <2>2 DEF CacheIsTail
  <2>4. CASE extent = "nothing"
    <3>1. UNCHANGED <<lines, ended>>
      BY <2>1, <2>4 DEF Write
    <3> QED
      BY <1>0, <2>2, <2>3, <3>1 DEF ChainInv, ChainLinkedButTail, Linked
  <2>5. CASE extent = "prefix"
    <3>1. ended /\ \A i \in 1 .. Len(lines) : Linked(lines, i)
      BY <1>0, <2>1 DEF ChainInv, CacheIsTail, ChainLinkedButTail, TypeOK
    <3>2. lines' = Append(lines, Garbage) /\ ended' = FALSE
      BY <2>1, <2>5, <3>1 DEF Write, Written
    <3>3. /\ Len(lines') = Len(lines) + 1
          /\ lines'[Len(lines')] = Garbage
          /\ \A i \in 1 .. Len(lines) : lines'[i] = lines[i]
      BY <1>0, <3>2 DEF TypeOK
    <3>4. \A i \in 1 .. Len(lines') - 1 : Linked(lines', i)
      <4> TAKE i \in 1 .. Len(lines') - 1
      <4>1. i \in 1 .. Len(lines) /\ (i # 1 => i - 1 \in 1 .. Len(lines))
        BY <1>0, <3>3 DEF TypeOK
      <4>2. Linked(lines, i)
        BY <3>1, <4>1
      <4> QED
        BY <3>3, <4>1, <4>2 DEF Linked
    <3>5. ChainLinkedButTail'
      BY <3>2, <3>3, <3>4 DEF ChainLinkedButTail, Linked
    <3> QED
      BY <1>0, <2>2, <2>3, <3>2, <3>3, <3>5 DEF ChainInv, TypeOK
  <2>6. CASE extent = "line"
    BY <1>3, <2>1, <2>6
  <2> QED
    BY <2>1, <2>4, <2>5, <2>6
<1>7. CASE UNCHANGED vars
  BY <1>0, <1>7 DEF vars, ChainInv, OneOpen, ChainLinkedButTail, Linked, CacheIsTail, tail_hash
<1> QED
  BY <1>1, <1>2, <1>4, <1>5, <1>6, <1>7 DEF Next

\* Crash consistency for any number of writers, receipts and restarts: at
\* most the last line is damaged, and every line before it verifies
\* (receipts.py:111-144).
THEOREM ChainSurvivesCrashes == ASSUME CleanFaults PROVE Spec => []ChainLinkedButTail
<1>1. ChainInv => ChainLinkedButTail
  BY DEF ChainInv
<1> QED
  BY <1>1, ChainInv_Init, ChainInv_Next, PTL DEF Spec

\* A writer's cached hash is always that of the file's last line
\* (receipts.py:97,143).
THEOREM CacheNeverStale == ASSUME CleanFaults PROVE Spec => []CacheIsTail
<1>1. ChainInv => CacheIsTail
  BY DEF ChainInv
<1> QED
  BY <1>1, ChainInv_Init, ChainInv_Next, PTL DEF Spec
-----------------------------------------------------------------------------

\* An open writer finds the file complete, so that what it writes is a line
\* of its own.
LEMMA WriteAppends ==
    ASSUME ChainInv, NEW w \in Writers, prev_hash[w] # Closed, NEW receipt,
           NEW extent \in Extents, Write(receipt, extent)
    PROVE  /\ ended
           /\ \/ UNCHANGED <<lines, ended>>
              \/ \E line \in {receipt, Garbage} : lines' = Append(lines, line)
<1>1. ended
  BY DEF ChainInv, CacheIsTail
<1> QED
  BY <1>1 DEF Write, Written, Extents

\* What a step does to the lines of the file
Grown(line) ==
    \/ UNCHANGED <<lines, ended>>
    \/ ended /\ lines' = Append(lines, line)

LEMMA GrownKeeps ==
    ASSUME ChainInv, NEW line \in Receipts \cup {Garbage}, Grown(line)
    PROVE  /\ Len(lines') \in Nat /\ Len(lines') >= Len(lines)
           /\ \A i \in 1 .. Len(lines) : lines'[i] = lines[i]
           /\ \A i \in 1 .. Len(lines') :
                 \/ i \in 1 .. Len(lines)
                 \/ ended /\ i = Len(lines) + 1 /\ lines'[i] = line
<1>1. lines \in Seq(Receipts \cup {Garbage})
  BY DEF ChainInv, TypeOK
<1> QED
  BY <1>1 DEF Grown

\* Every step of the log leaves its lines alone or adds one at the end.
LEMMA NextGrows ==
    ASSUME ChainInv, [Next]_vars
    PROVE  \E line \in Receipts \cup {Garbage} : Grown(line)
<1>1. ASSUME NEW w \in Writers, NEW body \in Bodies, NEW extent \in Extents,
             \/ append(w, body)
             \/ append_raises(w, body, extent)
             \/ append_dies(w, body, extent)
      PROVE  \E line \in Receipts \cup {Garbage} : Grown(line)
  <2> DEFINE receipt == build_receipt(prev_hash[w], body)
  <2>1. PICK reached \in Extents : prev_hash[w] # Closed /\ Write(receipt, reached)
    BY <1>1 DEF append, append_raises, append_dies, Extents
  <2>2. receipt \in Receipts
    BY <2>1, BuiltType DEF ChainInv
  <2> HIDE DEF receipt
  <2> QED
    BY <2>1, <2>2, WriteAppends DEF Grown
<1>2. CASE UNCHANGED <<lines, ended>>
  BY <1>2 DEF Grown
<1>3. "line" \in Extents
  BY DEF Extents
<1> QED
  BY <1>1, <1>2, <1>3 DEF Next, Open, Close, vars

\* No step of any writer changes or removes a line that is in the file
\* (receipts.py:139).
THEOREM LogNeverRewritten == ASSUME CleanFaults PROVE Spec => AppendOnly
<1>1. ChainInv /\ [Next]_vars =>
          [ /\ Len(lines') >= Len(lines)
            /\ \A i \in 1 .. Len(lines) : lines'[i] = lines[i] ]_vars
  BY NextGrows, GrownKeeps
<1> QED
  BY <1>1, ChainInv_Init, ChainInv_Next, PTL DEF Spec, AppendOnly

-----------------------------------------------------------------------------
(* Damage, without CleanFaults *)

\* A line that is not the unfinished one at the end
Finished(i) == i < Len(lines) \/ ended

\* receipts.py:139 for any faults and any number of writers: no step changes or
\* removes a line that ends in a newline.
FinishedLinesKept ==
    [][ /\ Len(lines') >= Len(lines)
        /\ \A i \in 1 .. Len(lines) : Finished(i) => lines'[i] = lines[i] ]_vars

\* The receipt of line i, if it has one, names that of the line before, if that
\* has one.
Names(ls, i) ==
    ls[i] # Garbage =>
        IF i = 1 THEN ls[i].prev_hash = NoHash
        ELSE ls[i - 1] # Garbage => ls[i].prev_hash = receipt_hash(ls[i - 1])

\* receipts.py:139: a line is damaged or names its predecessor; no damage
\* makes the receipts around it fork or restart the chain.
NeighboursLinked == \A i \in 1 .. Len(lines) : Names(lines, i)

\* One writer at a time, and no append raises after it wrote its whole line.
NoLateRaise == OneWriter /\ "line" \notin Raised

\* What a writer appends next lands on a line that is damaged thereby, or
\* follows a damaged line, or follows the receipt it names.
CacheFits ==
    \A w \in Writers : prev_hash[w] # Closed =>
        \/ ~ended
        \/ lines # <<>> /\ lines[Len(lines)] = Garbage
        \/ prev_hash[w] = tail_hash(lines)

DamageInv ==
    /\ TypeOK
    /\ OneOpen
    /\ NeighboursLinked
    /\ CacheFits
    /\ ~ended => lines # <<>>

\* What writing a line does to the lines of the file
LEMMA WrittenLines ==
    ASSUME TypeOK, NEW line \in Receipts \cup {Garbage}
    PROVE  /\ ended => /\ Len(Written(line)) = Len(lines) + 1
                       /\ Written(line)[Len(lines) + 1] = line
                       /\ \A i \in 1 .. Len(lines) : Written(line)[i] = lines[i]
           /\ ~ended => /\ Len(Written(line)) = Len(lines)
                        /\ lines # <<>> => Written(line)[Len(lines)] = Garbage
                        /\ \A i \in 1 .. Len(lines) - 1 : Written(line)[i] = lines[i]
<1>1. lines \in Seq(Receipts \cup {Garbage})
  BY DEF TypeOK
<1>2. CASE ended
  BY <1>1, <1>2 DEF Written
<1>3. CASE ~ended
  BY <1>1, <1>3 DEF Written
<1> QED
  BY <1>2, <1>3

\* A step leaves the file alone or writes one line.
LEMMA StepWrites ==
    ASSUME TypeOK, [Next]_vars
    PROVE  \/ UNCHANGED <<lines, ended>>
           \/ \E line \in Receipts \cup {Garbage} : lines' = Written(line)
<1>1. ASSUME NEW w \in Writers, NEW body \in Bodies, NEW extent \in Extents,
             \/ append(w, body)
             \/ append_raises(w, body, extent)
             \/ append_dies(w, body, extent)
      PROVE  \/ UNCHANGED <<lines, ended>>
             \/ \E line \in Receipts \cup {Garbage} : lines' = Written(line)
  <2> DEFINE receipt == build_receipt(prev_hash[w], body)
  <2>1. PICK reached \in Extents : prev_hash[w] # Closed /\ Write(receipt, reached)
    BY <1>1 DEF append, append_raises, append_dies, Extents
  <2>2. receipt \in Receipts
    BY <2>1, BuiltType
  <2> HIDE DEF receipt
  <2> QED
    BY <2>1, <2>2 DEF Write, Extents
<1>2. "line" \in Extents
  BY DEF Extents
<1> QED
  BY <1>1, <1>2 DEF Next, Open, Close, vars

\* The file grows by what is written at its end, whatever faults occur and
\* however many processes append to it (receipts.py:139).
THEOREM FinishedNeverRewritten == Spec => FinishedLinesKept
<1>1. ASSUME TypeOK, [Next]_vars
      PROVE  /\ Len(lines') >= Len(lines)
             /\ \A i \in 1 .. Len(lines) : Finished(i) => lines'[i] = lines[i]
  <2>1. Len(lines) \in Nat
    BY <1>1 DEF TypeOK
  <2>2. CASE UNCHANGED <<lines, ended>>
    BY <2>1, <2>2
  <2>3. ASSUME NEW line \in Receipts \cup {Garbage}, lines' = Written(line)
        PROVE  /\ Len(lines') >= Len(lines)
               /\ \A i \in 1 .. Len(lines) : Finished(i) => lines'[i] = lines[i]
    <3>1. CASE ended
      BY <1>1, <2>1, <2>3, <3>1, WrittenLines
    <3>2. CASE ~ended
      BY <1>1, <2>1, <2>3, <3>2, WrittenLines DEF Finished
    <3> QED
      BY <3>1, <3>2
  <2> QED
    BY <1>1, <2>2, <2>3, StepWrites
<1>2. TypeOK /\ [Next]_vars => [ /\ Len(lines') >= Len(lines)
        /\ \A i \in 1 .. Len(lines) : Finished(i) => lines'[i] = lines[i] ]_vars
  BY <1>1
<1> QED
  BY <1>2, TypeOK_Init, TypeOK_Next, PTL DEF Spec, FinishedLinesKept

-----------------------------------------------------------------------------

LEMMA DamageInit == Init => DamageInv
BY TypeOK_Init DEF Init, DamageInv, OneOpen, NeighboursLinked, CacheFits

\* Lines of their own, and lines that complete a damaged one, name the line
\* before them.
LEMMA WrittenNames ==
    ASSUME DamageInv, NEW w \in Writers, prev_hash[w] # Closed, NEW body \in Bodies,
           NEW line \in {build_receipt(prev_hash[w], body), Garbage}, lines' = Written(line)
    PROVE  NeighboursLinked'
<1> DEFINE receipt == build_receipt(prev_hash[w], body)
           n == Len(lines)
<1>1. receipt \in Receipts /\ line \in Receipts \cup {Garbage}
  BY BuiltType DEF DamageInv
<1>2. n \in Nat /\ TypeOK /\ (n = 0 <=> lines = <<>>)
  BY DEF DamageInv, TypeOK
<1>3. ASSUME NEW i \in 1 .. n, lines'[i] = lines[i] \/ lines'[i] = Garbage,
             i # 1 => lines'[i - 1] = lines[i - 1]
      PROVE  Names(lines', i)
  <2>1. Names(lines, i)
    BY DEF DamageInv, NeighboursLinked
  <2> QED
    BY <1>3, <2>1 DEF Names
<1>4. CASE ended
  <2>1. /\ Len(lines') = n + 1 /\ lines'[n + 1] = line
        /\ \A i \in 1 .. n : lines'[i] = lines[i]
    BY <1>1, <1>2, <1>4, WrittenLines
  <2>2. ASSUME NEW i \in 1 .. n PROVE Names(lines', i)
    <3>1. i # 1 => i - 1 \in 1 .. n
      BY <1>2
    <3> QED
      BY <1>3, <2>1, <3>1
  <2>3. Names(lines', n + 1)
    <3>1. CASE line = Garbage
      BY <2>1, <3>1 DEF Names
    <3>2. CASE n # 0 /\ lines[n] = Garbage
      <4>1. n + 1 # 1 /\ n + 1 - 1 = n /\ n \in 1 .. n
        BY <1>2, <3>2
      <4> QED
        BY <2>1, <3>2, <4>1 DEF Names
    <3>3. CASE line = receipt /\ prev_hash[w] = tail_hash(lines)
      <4>1. receipt.prev_hash = tail_hash(lines)
        BY <3>3 DEF build_receipt
      <4>2. CASE n = 0
        BY <1>2, <2>1, <3>3, <4>1, <4>2 DEF Names, tail_hash
      <4>3. CASE n # 0
        <5>1. n + 1 # 1 /\ n + 1 - 1 = n /\ n \in 1 .. n
          BY <1>2, <4>3
        <5> QED
          BY <1>2, <2>1, <3>3, <4>1, <4>3, <5>1 DEF Names, tail_hash
      <4> QED
        BY <4>2, <4>3
    <3> QED
      BY <1>2, <1>4, <3>1, <3>2, <3>3 DEF DamageInv, CacheFits
  <2>4. \A i \in 1 .. n + 1 : i \in 1 .. n \/ i = n + 1
    BY <1>2
  <2> QED
    BY <2>1, <2>2, <2>3, <2>4 DEF NeighboursLinked
<1>5. CASE ~ended
  <2>1. /\ Len(lines') = n /\ n # 0 /\ lines'[n] = Garbage
        /\ \A i \in 1 .. n - 1 : lines'[i] = lines[i]
    BY <1>1, <1>2, <1>5, WrittenLines DEF DamageInv
  <2>2. ASSUME NEW i \in 1 .. n PROVE Names(lines', i)
    <3>1. i = n \/ i \in 1 .. n - 1
      BY <1>2
    <3>2. i # 1 => i - 1 \in 1 .. n - 1
      BY <1>2
    <3> QED
      BY <1>3, <2>1, <3>1, <3>2
  <2> QED
    BY <2>1, <2>2 DEF NeighboursLinked
<1> QED
  BY <1>4, <1>5

\* After an append, however far it got, the cache fits: the writer is gone, or
\* it has advanced its cache if and only if it wrote the whole line.
LEMMA WriteKeepsDamage ==
    ASSUME DamageInv, TypeOK', NEW w \in Writers, prev_hash[w] # Closed, NEW body \in Bodies,
           NEW extent \in Extents, Write(build_receipt(prev_hash[w], body), extent),
           NEW h, prev_hash' = [prev_hash EXCEPT ![w] = h],
           \/ h = Closed
           \/ h = IF extent = "line" THEN receipt_hash(build_receipt(prev_hash[w], body))
                                     ELSE prev_hash[w]
    PROVE  DamageInv'
<1> DEFINE receipt == build_receipt(prev_hash[w], body)
           n == Len(lines)
<1>1. receipt \in Receipts /\ TypeOK /\ n \in Nat
  BY BuiltType DEF DamageInv, TypeOK
<1>2. receipt # Garbage
  BY <1>1, GarbageAssumption
<1>3. \A v \in Writers : prev_hash'[v] # Closed => v = w /\ prev_hash'[v] = h
  BY <1>1 DEF DamageInv, OneOpen, TypeOK
<1> HIDE DEF receipt
<1>4. \/ extent = "nothing" /\ UNCHANGED <<lines, ended>>
      \/ extent = "prefix" /\ lines' = Written(Garbage) /\ ~ended'
      \/ extent = "no_newline" /\ lines' = Written(receipt) /\ ~ended'
      \/ extent = "line" /\ lines' = Written(receipt) /\ ended'
  BY DEF Write, Extents, receipt
<1>5. OneOpen'
  BY <1>3 DEF OneOpen
<1>6. NeighboursLinked'
  <2>1. CASE UNCHANGED <<lines, ended>>
    BY <2>1 DEF DamageInv, NeighboursLinked, Names
  <2>2. ASSUME NEW line \in {receipt, Garbage}, lines' = Written(line) PROVE NeighboursLinked'
    BY <2>2, WrittenNames DEF receipt
  <2> QED
    BY <1>4, <2>1, <2>2
<1>7. ~ended' => lines' # <<>>
  <2>1. CASE UNCHANGED <<lines, ended>>
    BY <2>1 DEF DamageInv
  <2>2. ASSUME NEW line \in {receipt, Garbage}, lines' = Written(line) PROVE lines' # <<>>
    <3>1. line \in Receipts \cup {Garbage}
      BY <1>1, <2>2
    <3>2. Len(lines') # 0
      BY <1>1, <2>2, <3>1, WrittenLines DEF DamageInv, TypeOK
    <3> QED
      BY <3>2
  <2> QED
    BY <1>4, <2>1, <2>2
<1>8. CacheFits'
  <2>1. CASE extent = "nothing"
    <3>1. h # Closed => h = prev_hash[w]
      BY <2>1 DEF receipt
    <3> QED
      BY <1>3, <1>4, <2>1, <3>1 DEF DamageInv, CacheFits, tail_hash
  <2>2. CASE ~ended'
    BY <2>2 DEF CacheFits
  <2>3. CASE extent = "line"
    <3>1. h # Closed => h = receipt_hash(receipt)
      BY <2>3 DEF receipt
    <3>2. lines' = Written(receipt) /\ receipt \in Receipts \cup {Garbage}
      BY <1>1, <1>4, <2>3
    <3>3. CASE ended
      <4>1. Len(lines') = n + 1 /\ lines'[n + 1] = receipt
        BY <1>1, <3>2, <3>3, WrittenLines
      <4>2. lines' # <<>> /\ tail_hash(lines') = receipt_hash(receipt)
        BY <1>1, <4>1 DEF tail_hash
      <4> QED
        BY <1>3, <3>1, <4>2 DEF CacheFits
    <3>4. CASE ~ended
      <4>1. Len(lines') = n /\ lines # <<>> /\ lines'[n] = Garbage
        BY <1>1, <3>2, <3>4, WrittenLines DEF DamageInv
      <4>2. lines' # <<>>
        BY <1>1, <4>1 DEF TypeOK
      <4> QED
        BY <4>1, <4>2 DEF CacheFits
    <3> QED
      BY <3>3, <3>4
  <2> QED
    BY <1>4, <2>1, <2>2, <2>3
<1> QED
  BY <1>5, <1>6, <1>7, <1>8 DEF DamageInv

LEMMA DamageNext == ASSUME NoLateRaise PROVE DamageInv /\ [Next]_vars => DamageInv'
<1> SUFFICES ASSUME DamageInv, [Next]_vars PROVE DamageInv'
  OBVIOUS
<1>0. TypeOK /\ TypeOK'
  BY TypeOK_Next DEF DamageInv
<1>1. ASSUME NEW w \in Writers, Open(w) PROVE DamageInv'
  <2>1. /\ UNCHANGED <<lines, ended>>
        /\ \A v \in Writers : prev_hash'[v] # Closed => v = w /\ prev_hash'[v] = tail_hash(lines)
    BY <1>0, <1>1 DEF Open, TypeOK, NoLateRaise
  <2>2. OneOpen' /\ CacheFits'
    BY <2>1 DEF OneOpen, CacheFits, tail_hash
  <2> QED
    BY <1>0, <2>1, <2>2 DEF DamageInv, NeighboursLinked, Names
<1>2. ASSUME NEW w \in Writers, Close(w) PROVE DamageInv'
  <2>1. /\ UNCHANGED <<lines, ended>>
        /\ \A v \in Writers : prev_hash'[v] # Closed => prev_hash'[v] = prev_hash[v]
    BY <1>0, <1>2 DEF Close, TypeOK
  <2>2. OneOpen' /\ CacheFits'
    BY <2>1 DEF DamageInv, OneOpen, CacheFits, tail_hash
  <2> QED
    BY <1>0, <2>1, <2>2 DEF DamageInv, NeighboursLinked, Names
<1>3. ASSUME NEW w \in Writers, NEW body \in Bodies, append(w, body) PROVE DamageInv'
  <2> DEFINE h == receipt_hash(build_receipt(prev_hash[w], body))
  <2>1. /\ prev_hash[w] # Closed
        /\ Write(build_receipt(prev_hash[w], body), "line")
        /\ prev_hash' = [prev_hash EXCEPT ![w] = h]
    BY <1>3 DEF append
  <2>2. "line" \in Extents
    BY DEF Extents
  <2> QED
    BY <1>0, <2>1, <2>2, WriteKeepsDamage, Zenon
<1>4. ASSUME NEW w \in Writers, NEW body \in Bodies, NEW extent \in Extents,
             append_raises(w, body, extent)
      PROVE  DamageInv'
  <2>1. /\ prev_hash[w] # Closed /\ extent # "line"
        /\ Write(build_receipt(prev_hash[w], body), extent)
        /\ prev_hash' = [prev_hash EXCEPT ![w] = prev_hash[w]]
    BY <1>0, <1>4 DEF append_raises, NoLateRaise, TypeOK
  <2> QED
    BY <1>0, <2>1, WriteKeepsDamage, Zenon
<1>5. ASSUME NEW w \in Writers, NEW body \in Bodies, NEW extent \in Extents,
             append_dies(w, body, extent)
      PROVE  DamageInv'
  <2>1. /\ prev_hash[w] # Closed
        /\ Write(build_receipt(prev_hash[w], body), extent)
        /\ prev_hash' = [prev_hash EXCEPT ![w] = Closed]
    BY <1>5 DEF append_dies
  <2> QED
    BY <1>0, <2>1, WriteKeepsDamage, Zenon
<1>6. CASE UNCHANGED vars
  BY <1>0, <1>6 DEF vars, DamageInv, OneOpen, NeighboursLinked, Names, CacheFits, tail_hash
<1> QED
  BY <1>1, <1>2, <1>3, <1>4, <1>5, <1>6 DEF Next

\* A crash anywhere in an append, also between a receipt and its newline,
\* damages the line it was writing and the one that shares it, and nothing
\* around them (receipts.py:139).
THEOREM DamageStaysLocal == ASSUME NoLateRaise PROVE Spec => []NeighboursLinked
<1>1. DamageInv => NeighboursLinked
  BY DEF DamageInv
<1> QED
  BY <1>1, DamageInit, DamageNext, PTL DEF Spec
=============================================================================
