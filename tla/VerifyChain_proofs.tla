------------------------- MODULE VerifyChain_proofs -------------------------
(***************************************************************************)
(* The verifier accepts nothing but a beginning of a log that was written  *)
(* with the key, for every file, every set of logs and every length.       *)
(***************************************************************************)
EXTENDS VerifyChain, FiniteSetTheorems, TLAPS

\* The loop's variables keep their types (verify.py:68-72).
LEMMA TypeOK_Init == Init => TypeOK
BY VerifyAssumption DEF Init, TypeOK, Verdicts

LEMMA SignedRead ==
    ASSUME TypeOK, NEW line, Read(line)
    PROVE  pos' \in 0 .. Len(file') /\ file' \in Files
<1>1. file \in Seq(Lines)
  BY VerifyAssumption DEF TypeOK
<1> QED
  BY <1>1 DEF Read, TypeOK

LEMMA TypeOK_Next == TypeOK /\ [Next]_vars => TypeOK'
<1> SUFFICES ASSUME TypeOK, [Next]_vars PROVE TypeOK'
  OBVIOUS
<1>1. CASE SkipBlank
  BY <1>1, SignedRead DEF SkipBlank, TypeOK
<1>2. CASE NotJson \/ BadReceipt \/ Raises
  BY <1>2, SignedRead DEF NotJson, BadReceipt, Raises, Reject, TypeOK, Verdicts
<1>3. CASE Finish
  BY <1>3 DEF Finish, TypeOK, Verdicts
<1>4. ASSUME NEW r \in Signed, BadLink(r) PROVE TypeOK'
  BY <1>4, SignedRead DEF BadLink, Reject, TypeOK, Verdicts
<1>5. ASSUME NEW r \in Signed, Accept(r) PROVE TypeOK'
  <2>1. hash[r] \in Nat
    BY VerifyAssumption
  <2> QED
    BY <1>5, <2>1, SignedRead DEF Accept, TypeOK
<1>6. CASE UNCHANGED vars
  BY <1>6 DEF vars, TypeOK
<1> QED
  BY <1>1, <1>2, <1>3, <1>4, <1>5, <1>6 DEF Next

\* The types hold on every file.
THEOREM VerifierTyped == Spec => []TypeOK
BY TypeOK_Init, TypeOK_Next, PTL DEF Spec

-----------------------------------------------------------------------------

\* The induction: prev_hash is the hash of the last receipt accepted, and the
\* receipts accepted so far begin some log.
VerifyInv ==
    /\ TypeOK
    /\ prev_hash = IF accepted = <<>> THEN NoHash ELSE hash[accepted[Len(accepted)]]
    /\ AcceptedIsPrefix

LEMMA VerifyInv_Init == Init => VerifyInv
BY TypeOK_Init DEF Init, VerifyInv, AcceptedIsPrefix

\* A signed receipt whose prev_hash names the last one accepted is the next
\* one of the same log: hashes do not collide and logs share no receipt.
LEMMA NextOfLog ==
    ASSUME VerifyInv, NEW r \in Signed, prev[r] = prev_hash
    PROVE  \E log \in Logs : /\ Prefix(accepted, log)
                             /\ Len(accepted) < Len(log)
                             /\ log[Len(accepted) + 1] = r
<1> USE DEF Prefix, RangeOf
<1>0. PICK log \in Logs : r \in RangeOf(log)
  BY DEF Signed
<1>1. PICK j \in 1 .. Len(log) : log[j] = r
  BY <1>0
<1>2. log \in Seq(Signed) /\ prev[r] = Link(log, j)
  BY <1>1, VerifyAssumption
<1>3. CASE accepted = <<>>
  <2>1. prev[r] = NoHash
    BY <1>3 DEF VerifyInv
  <2>4. j # 1 => log[j - 1] \in Signed /\ Link(log, j) = hash[log[j - 1]]
    BY <1>2 DEF Link
  <2>5. j # 1 => hash[log[j - 1]] \in Nat
    BY <2>4, VerifyAssumption
  <2>2. j = 1
    BY <1>2, <2>1, <2>4, <2>5, VerifyAssumption
  <2> QED
    BY <1>1, <1>2, <1>3, <2>2
<1>4. CASE accepted # <<>>
  <2> DEFINE k == Len(accepted)
             last == accepted[k]
  <2>1. k \in Nat \ {0} /\ last \in Signed /\ prev_hash = hash[last]
    BY <1>4 DEF VerifyInv, TypeOK
  <2>4. PICK mine \in Logs : Prefix(accepted, mine)
    BY <1>4 DEF VerifyInv, AcceptedIsPrefix
  <2>5. mine \in Seq(Signed) /\ k \in 1 .. Len(mine) /\ mine[k] = last
    BY <2>1, <2>4, VerifyAssumption
  <2>2. hash[last] \in Nat
    BY <2>1, VerifyAssumption
  <2> HIDE DEF k, last
  <2>0. NoHash \notin Nat /\ Link(log, j) = hash[last]
    BY <1>2, <2>1, VerifyAssumption
  <2>3. j # 1
    BY <2>0, <2>2 DEF Link
  <2>6. j - 1 \in 1 .. Len(log) /\ log[j - 1] \in Signed
    BY <1>2, <2>3
  <2>7. log[j - 1] = last
    <3>1. hash[log[j - 1]] = hash[last]
      BY <2>0, <2>3 DEF Link
    <3>2. \A a, b \in Signed : hash[a] = hash[b] => a = b
      BY VerifyAssumption
    <3> QED
      BY <2>1, <2>6, <3>1, <3>2
  <2>8. log = mine /\ j - 1 = k
    <3>1. \A log1, log2 \in Logs : \A a \in 1 .. Len(log1), b \in 1 .. Len(log2) :
              log1[a] = log2[b] => log1 = log2 /\ a = b
      BY VerifyAssumption
    <3> QED
      BY <2>5, <2>6, <2>7, <3>1
  <2>9. Len(accepted) < Len(log) /\ log[Len(accepted) + 1] = r
    BY <1>1, <1>2, <2>1, <2>8 DEF k
  <2> QED
    BY <2>4, <2>8, <2>9
<1> QED
  BY <1>3, <1>4

LEMMA VerifyInv_Next == VerifyInv /\ [Next]_vars => VerifyInv'
<1> SUFFICES ASSUME VerifyInv, [Next]_vars PROVE VerifyInv'
  OBVIOUS
<1>0. TypeOK /\ TypeOK'
  BY TypeOK_Next DEF VerifyInv
<1>1. CASE UNCHANGED <<prev_hash, accepted>>
  BY <1>0, <1>1 DEF VerifyInv, AcceptedIsPrefix, Prefix
<1>2. ASSUME NEW r \in Signed, Accept(r) PROVE VerifyInv'
  <2>1. PICK log \in Logs : /\ Prefix(accepted, log)
                            /\ Len(accepted) < Len(log)
                            /\ log[Len(accepted) + 1] = r
    BY <1>2, NextOfLog DEF Accept
  <2>4. accepted \in Seq(Signed) /\ accepted' = Append(accepted, r)
    BY <1>0, <1>2 DEF Accept, TypeOK
  <2>5. /\ Len(accepted') = Len(accepted) + 1 /\ accepted'[Len(accepted')] = r
        /\ \A i \in 1 .. Len(accepted) : accepted'[i] = accepted[i]
        /\ accepted' # <<>>
    BY <2>4
  <2>2. Prefix(accepted', log)
    BY <2>1, <2>4, <2>5, VerifyAssumption DEF Prefix
  <2>3. prev_hash' = hash[accepted'[Len(accepted')]]
    BY <1>2, <2>5 DEF Accept
  <2> QED
    BY <1>0, <2>5, <2>2, <2>3 DEF VerifyInv, AcceptedIsPrefix
<1> QED
  BY <1>1, <1>2 DEF Next, SkipBlank, NotJson, BadReceipt, Raises, Finish, BadLink, Reject, vars

\* What the verifier accepts begins a log that was written with the key: in a
\* file it calls valid nothing was altered, dropped from the middle, moved or
\* spliced in (README.md:103-104, verify.py:66-113).
THEOREM VerifierSound == Spec => []AcceptedIsPrefix
<1>1. VerifyInv => AcceptedIsPrefix
  BY DEF VerifyInv
<1> QED
  BY <1>1, VerifyInv_Init, VerifyInv_Next, PTL DEF Spec

-----------------------------------------------------------------------------

LEMMA FilledFinite ==
    ASSUME NEW f, NEW n \in Nat
    PROVE  /\ Filled(f, n) \subseteq 1 .. n /\ IsFiniteSet(Filled(f, n))
           /\ Cardinality(Filled(f, n)) \in Nat
<1>1. IsFiniteSet(1 .. n) /\ Filled(f, n) \subseteq 1 .. n
  BY FS_Interval DEF Filled
<1> QED
  BY <1>1, FS_Subset, FS_CardinalityType

\* One more line: the lines that are not blank, and their number
LEMMA FilledOneMore ==
    ASSUME NEW f, NEW n \in Nat
    PROVE  IF f[n + 1] = Blank
             THEN Filled(f, n + 1) = Filled(f, n)
             ELSE /\ Filled(f, n + 1) = Filled(f, n) \cup {n + 1} /\ n + 1 \notin Filled(f, n)
                  /\ Cardinality(Filled(f, n + 1)) = Cardinality(Filled(f, n)) + 1
<1>1. CASE f[n + 1] = Blank
  BY <1>1 DEF Filled
<1>2. CASE f[n + 1] # Blank
  <2>1. Filled(f, n + 1) = Filled(f, n) \cup {n + 1} /\ n + 1 \notin Filled(f, n)
    BY <1>2 DEF Filled
  <2> QED
    BY <1>2, <2>1, FilledFinite, FS_AddElement
<1> QED
  BY <1>1, <1>2

\* A line is numbered at most as high as a later one.
LEMMA FilledMonotonic ==
    ASSUME NEW f, NEW n \in Nat, NEW i \in Filled(f, n)
    PROVE  Cardinality(Filled(f, i)) \in 1 .. Cardinality(Filled(f, n))
<1>1. i \in 1 .. n /\ i \in Nat /\ i \in Filled(f, i) /\ Filled(f, i) \subseteq Filled(f, n)
  BY DEF Filled
<1>2. IsFiniteSet(Filled(f, n)) /\ IsFiniteSet(Filled(f, i)) /\ Cardinality(Filled(f, n)) \in Nat
  BY <1>1, FilledFinite
<1>3. Cardinality(Filled(f, i)) <= Cardinality(Filled(f, n)) /\ Cardinality(Filled(f, i)) \in Nat
  BY <1>1, <1>2, FS_Subset, FilledFinite
<1>4. Cardinality(Filled(f, i)) # 0
  BY <1>1, <1>2, FS_EmptySet
<1> QED
  BY <1>2, <1>3, <1>4

\* What a receipt must carry as prev_hash is determined by the lines before it.
LEMMA LinkUnique ==
    ASSUME NEW f, NEW n \in Nat, NEW g, NEW h, LinksTo(f, n, g), LinksTo(f, n, h)
    PROVE  g = h
<1>1. CASE Filled(f, n) = {}
  BY <1>1 DEF LinksTo
<1>2. CASE Filled(f, n) # {}
  <2>1. PICK i \in Filled(f, n) : (\A j \in Filled(f, n) : j <= i) /\ g = hash[f[i]]
    BY <1>2 DEF LinksTo
  <2>4. PICK k \in Filled(f, n) : (\A j \in Filled(f, n) : j <= k) /\ h = hash[f[k]]
    BY <1>2 DEF LinksTo
  <2>5. i = k
    <3>1. i \in Nat /\ k \in Nat /\ i <= k /\ k <= i
      BY <2>1, <2>4 DEF Filled
    <3> QED
      BY <3>1
  <2> QED
    BY <2>1, <2>4, <2>5
<1> QED
  BY <1>1, <1>2

\* What the loop knows of the first n lines while it reads on: each continues
\* the chain and was accepted, and the loop carries the head and their number.
Chained(n) ==
    /\ LinksTo(file, n, prev_hash)
    /\ \A i \in Filled(file, n) :
          Continues(file, i) /\ accepted[Cardinality(Filled(file, i))] = file[i]
    /\ index = Cardinality(Filled(file, n))
    /\ checked = index /\ Len(accepted) = index

\* The induction
ReadInv ==
    /\ TypeOK
    /\ verdict = "none" => Chained(pos)
    /\ ValidIffLinked
    /\ FailsAtFirstBadLine

LEMMA ReadInv_Init == Init => ReadInv
<1> SUFFICES ASSUME Init PROVE ReadInv
  OBVIOUS
<1>1. Filled(file, 0) = {} /\ Cardinality(Filled(file, 0)) = 0
  BY FS_EmptySet DEF Filled
<1>2. Chained(0)
  BY <1>1 DEF Init, Chained, LinksTo
<1> QED
  BY <1>2, TypeOK_Init DEF Init, ReadInv, ValidIffLinked, FailsAtFirstBadLine

\* A line that does not continue the chain ends the loop: the verdict is not
\* "valid", and it is about this line.
LEMMA Rejected ==
    ASSUME ReadInv, TypeOK', NEW line, Read(line), line # Blank,
           NEW reason \in Verdicts \ {"none", "valid"}, Reject(reason),
           ~Continues(file, pos + 1)
    PROVE  ReadInv'
<1> DEFINE n == pos
<1>1. /\ file \in Seq(Lines) /\ n \in Nat /\ n + 1 \in 1 .. Len(file)
      /\ file' = file /\ pos' = n + 1 /\ verdict' = reason /\ Chained(n)
      /\ index' = index /\ checked' = checked /\ accepted' = accepted
  BY VerifyAssumption DEF Read, Reject, ReadInv, TypeOK
<1>2. file[n + 1] # Blank
  BY DEF Read
<1>3. n + 1 \in Filled(file, n + 1) /\ n + 1 \in Filled(file, Len(file))
  BY <1>1, <1>2 DEF Filled
<1>4. ValidIffLinked'
  BY <1>1, <1>3 DEF ValidIffLinked
<1>5. FailsAtFirstBadLine'
  <2>1. (n + 1) - 1 = n
    BY <1>1
  <2> QED
    BY <1>1, <1>3, <2>1 DEF FailsAtFirstBadLine, Chained
<1> QED
  BY <1>1, <1>4, <1>5 DEF ReadInv

\* A receipt accepted continues the chain, and is carried as its head.
LEMMA Accepted ==
    ASSUME ReadInv, TypeOK', NEW r \in Signed, Accept(r)
    PROVE  ReadInv'
<1> DEFINE n == pos
<1>1. /\ n \in Nat /\ file' = file /\ pos' = n + 1 /\ file[n + 1] = r
      /\ prev[r] = prev_hash /\ prev_hash' = hash[r]
      /\ verdict = "none" /\ verdict' = "none" /\ Chained(n)
  BY DEF Accept, Read, ReadInv, TypeOK
<1>2. /\ accepted \in Seq(Signed) /\ accepted' = Append(accepted, r)
      /\ index' = index + 1 /\ checked' = checked + 1
  BY DEF Accept, ReadInv, TypeOK
<1>3. /\ Filled(file, n + 1) = Filled(file, n) \cup {n + 1}
      /\ Cardinality(Filled(file, n + 1)) = Cardinality(Filled(file, n)) + 1
  BY <1>1, FilledOneMore, VerifyAssumption
<1>4. Continues(file, n + 1)
  <2>1. (n + 1) - 1 = n
    BY <1>1
  <2> QED
    BY <1>1, <2>1 DEF Chained, Continues
<1>5. LinksTo(file, n + 1, prev_hash')
  <2>1. n + 1 \in Filled(file, n + 1) /\ \A j \in Filled(file, n + 1) : j <= n + 1
    BY <1>1, <1>3 DEF Filled
  <2> QED
    BY <1>1, <2>1 DEF LinksTo
<1>6. /\ index' = Cardinality(Filled(file, n + 1))
      /\ checked' = index' /\ Len(accepted') = index'
  <2>1. index = Cardinality(Filled(file, n)) /\ checked = index /\ Len(accepted) = index
    BY <1>1 DEF Chained
  <2> QED
    BY <1>2, <1>3, <2>1
<1>7. ASSUME NEW i \in Filled(file, n + 1)
      PROVE  Continues(file, i) /\ accepted'[Cardinality(Filled(file, i))] = file[i]
  <2>1. CASE i = n + 1
    <3>1. accepted'[Len(accepted')] = r
      BY <1>2
    <3> QED
      BY <1>1, <1>4, <1>6, <2>1, <3>1
  <2>4. CASE i \in Filled(file, n)
    <3>1. Cardinality(Filled(file, i)) \in 1 .. Len(accepted)
      <4>1. Cardinality(Filled(file, i)) \in 1 .. Cardinality(Filled(file, n))
        BY <1>1, <2>4, FilledMonotonic
      <4> QED
        BY <1>1, <4>1 DEF Chained
    <3>2. \A k \in 1 .. Len(accepted) : accepted'[k] = accepted[k]
      BY <1>2
    <3>3. Continues(file, i) /\ accepted[Cardinality(Filled(file, i))] = file[i]
      BY <1>1, <2>4 DEF Chained
    <3> QED
      BY <3>1, <3>2, <3>3
  <2> QED
    BY <1>3, <2>1, <2>4
<1>8. Chained(pos)'
  <2> HIDE DEF n
  <2> QED
    BY <1>1, <1>5, <1>6, <1>7 DEF Chained
<1> QED
  BY <1>1, <1>8 DEF ReadInv, ValidIffLinked, FailsAtFirstBadLine

LEMMA ReadInv_Next == ReadInv /\ [Next]_vars => ReadInv'
<1> SUFFICES ASSUME ReadInv, [Next]_vars PROVE ReadInv'
  OBVIOUS
<1>0. TypeOK /\ TypeOK'
  BY TypeOK_Next DEF ReadInv
<1>1. CASE SkipBlank
  <2> DEFINE n == pos
  <2>1. /\ n \in Nat /\ file' = file /\ pos' = n + 1 /\ file[n + 1] = Blank
        /\ verdict' = "none" /\ Chained(n)
        /\ UNCHANGED <<prev_hash, checked, index, accepted>>
    BY <1>0, <1>1 DEF SkipBlank, Read, ReadInv, TypeOK
  <2>4. Filled(file, n + 1) = Filled(file, n)
    BY <2>1, FilledOneMore
  <2>5. LinksTo(file, n + 1, prev_hash)
    BY <2>1, <2>4 DEF LinksTo, Chained
  <2>2. Chained(pos)'
    BY <2>1, <2>4, <2>5 DEF Chained
  <2> QED
    BY <1>0, <2>1, <2>2 DEF ReadInv, ValidIffLinked, FailsAtFirstBadLine
<1>2. ASSUME NEW line \in {Garbage, Altered, Uncanonical},
             NEW reason \in {"not JSON", "bad receipt", "raised"},
             Read(line), Reject(reason)
      PROVE  ReadInv'
  <2>1. line \notin Signed /\ line # Blank
    BY <1>2, VerifyAssumption
  <2>4. ~Continues(file, pos + 1)
    BY <1>2, <2>1 DEF Read, Continues
  <2> QED
    BY <1>0, <1>2, <2>1, <2>4, Rejected DEF Verdicts
<1>3. CASE Finish
  <2>1. /\ file' = file /\ pos' = Len(file) /\ verdict = "none" /\ pos = Len(file)
        /\ verdict' = IF checked = 0 THEN "no receipts" ELSE "valid"
    BY <1>3 DEF Finish
  <2>2. Chained(Len(file))
    BY <2>1 DEF ReadInv
  <2>3. Len(file) \in Nat
    BY <1>0, VerifyAssumption DEF TypeOK
  <2>4. checked = 0 <=> Filled(file, Len(file)) = {}
    <3>1. IsFiniteSet(Filled(file, Len(file)))
      BY <2>3, FilledFinite
    <3> QED
      BY <2>2, <3>1, FS_EmptySet DEF Chained
  <2>5. ValidIffLinked'
    BY <2>1, <2>2, <2>4 DEF ValidIffLinked, Chained
  <2> QED
    BY <1>0, <2>1, <2>5 DEF ReadInv, FailsAtFirstBadLine
<1>4. ASSUME NEW r \in Signed, BadLink(r) PROVE ReadInv'
  <2>0. pos \in Nat /\ r # Blank
    BY <1>0, VerifyAssumption DEF TypeOK
  <2>1. /\ Read(r) /\ Reject("bad link") /\ prev[r] # prev_hash
        /\ LinksTo(file, pos, prev_hash) /\ file[pos + 1] = r
    BY <1>4 DEF BadLink, Read, ReadInv, Chained
  <2>2. ~LinksTo(file, pos, prev[r])
    BY <2>0, <2>1, LinkUnique
  <2>3. (pos + 1) - 1 = pos
    BY <2>0
  <2>4. ~Continues(file, pos + 1)
    BY <2>1, <2>2, <2>3 DEF Continues
  <2> QED
    BY <1>0, <2>0, <2>1, <2>4, Rejected DEF Verdicts
<1>5. ASSUME NEW r \in Signed, Accept(r) PROVE ReadInv'
  BY <1>0, <1>5, Accepted
<1>6. CASE UNCHANGED vars
  BY <1>0, <1>6 DEF vars, ReadInv, Chained, ValidIffLinked, FailsAtFirstBadLine
<1> QED
  BY <1>1, <1>2, <1>3, <1>4, <1>5, <1>6 DEF Next, NotJson, BadReceipt, Raises

\* The verdict is "valid" exactly on the files whose lines that are not blank
\* are a non-empty run of signed receipts each linked to the one before: on
\* whatever file, of whatever length (verify.py:66-113).  SCHEMA.md:81-84 allows
\* no blank lines; of files without any it says the same.
THEOREM VerdictExact == Spec => []ValidIffLinked
<1>1. ReadInv => ValidIffLinked
  BY DEF ReadInv
<1> QED
  BY <1>1, ReadInv_Init, ReadInv_Next, PTL DEF Spec

\* A verification that fails names the first line that does not continue the
\* chain, after having accepted every receipt before it (verify.py:75-104).
THEOREM FailureLocated == Spec => []FailsAtFirstBadLine
<1>1. ReadInv => FailsAtFirstBadLine
  BY DEF ReadInv
<1> QED
  BY <1>1, ReadInv_Init, ReadInv_Next, PTL DEF Spec
=============================================================================
