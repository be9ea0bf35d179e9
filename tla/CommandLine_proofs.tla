------------------------- MODULE CommandLine_proofs -------------------------
(***************************************************************************)
(* Theorems about CommandLine, for any number of keygens, wraps, receipts  *)
(* and lines: the commands use the log as ChainWriter does, and verify     *)
(* refuses it as RefusedForCause says.  The second needs the CleanFaults   *)
(* of ChainWriter_proofs, as ChainSurvivesCrashes does.                    *)
(***************************************************************************)
EXTENDS CommandLine, ChainWriter_proofs

\* The keys drawn so far
Keys == 1 .. drawn

KeysDrawn ==
    /\ drawn \in Nat /\ drawn <= MaxKeys
    /\ keygen # "idle" => drawn >= 1

\* Key files hold nothing or a key that was drawn, and so does the memory of
\* each wrap; one that has the log open has a key.
KeysHeld ==
    /\ signing_key \in Keys \cup {NoKey}
    /\ signing_pub \in Keys \cup {NoKey}
    /\ private_key \in [Writers -> Keys \cup {NoKey}]
    /\ \A w \in Writers : prev_hash[w] # Closed => private_key[w] \in Keys

KeysInv == TypeOK /\ KeysDrawn /\ KeysHeld

\* A key that was drawn is something a receipt can say, and is no NoKey.
LEMMA KeyIsBody ==
    ASSUME KeysDrawn
    PROVE  drawn \in Nat /\ Keys \subseteq Bodies /\ NoKey \notin Keys
<1>1. MaxKeys \in Nat /\ Bodies = 1 .. MaxKeys /\ NoKey \notin Nat
  BY CommandLineAssumption
<1>2. drawn \in Nat /\ drawn <= MaxKeys
  BY DEF KeysDrawn
<1> QED
  BY <1>1, <1>2 DEF Keys

LEMMA KeysInv_Init == CommandInit => KeysInv
BY CommandLineAssumption, TypeOK_Init DEF CommandInit, Init, KeysInv, KeysDrawn, KeysHeld

\* To the log, every step of a command is a step of a writer or a stutter.
LEMMA CommandChainStep == KeysInv /\ [CommandNext]_commandVars => [Next]_vars
<1> SUFFICES ASSUME KeysInv, [CommandNext]_commandVars PROVE [Next]_vars
  OBVIOUS
<1>1. ASSUME NEW w \in Writers, Wrapping(w) PROVE Next
  <2>1. prev_hash[w] # Closed
    BY <1>1 DEF Wrapping, append, append_raises, append_dies
  <2>2. private_key[w] \in Keys
    BY <2>1 DEF KeysInv, KeysHeld
  <2>3. private_key[w] \in Bodies
    BY <2>2, KeyIsBody DEF KeysInv
  <2> QED
    BY <1>1, <2>3 DEF Wrapping, Next
<1>2. ASSUME NEW w \in Writers, _cmd_wrap(w) \/ WrapEnds(w) PROVE Next
  BY <1>2 DEF _cmd_wrap, WrapEnds, Next
<1>3. CASE _cmd_keygen \/ KeygenDies
  BY <1>3 DEF _cmd_keygen, KeygenDies, generate_keypair, WritePrivate, OpenPublic, WritePublic
<1>4. CASE _cmd_verify \/ VerifySingle \/ VerifyLine \/ VerifyEnds \/ UNCHANGED commandVars
  BY <1>4 DEF _cmd_verify, VerifySingle, VerifyLine, VerifyEnds, commandVars
<1> QED
  BY <1>1, <1>2, <1>3, <1>4 DEF CommandNext

\* What keygens do not draw, nobody has.
LEMMA KeygenKeepsKeys ==
    ASSUME KeysInv, _cmd_keygen \/ KeygenDies
    PROVE  /\ KeysInv'
           /\ drawn' \in Nat /\ drawn' >= drawn /\ Keys \subseteq Keys'
           /\ UNCHANGED <<lines, ended, verifier>>
<1>1. drawn \in Nat /\ drawn <= MaxKeys /\ MaxKeys \in Nat
  BY CommandLineAssumption DEF KeysInv, KeysDrawn
<1>2. keygen # "idle" => drawn >= 1
  BY DEF KeysInv, KeysDrawn
<1> DEFINE idle == keygen = "idle"
           idles == keygen' = "idle"
<1>3. /\ \/ idle /\ ~idles /\ drawn < MaxKeys /\ drawn' = drawn + 1
         \/ ~idle /\ drawn' = drawn
      /\ \/ signing_key' \in {signing_key, NoKey}
         \/ ~idle /\ signing_key' = drawn
      /\ \/ signing_pub' \in {signing_pub, NoKey}
         \/ ~idle /\ signing_pub' = drawn
      /\ UNCHANGED <<vars, private_key, verifier>>
  BY DEF _cmd_keygen, KeygenDies, generate_keypair, WritePrivate, OpenPublic, WritePublic
<1>4. UNCHANGED <<lines, ended, prev_hash, uuids, private_key, verifier>>
  BY <1>3 DEF vars
<1>5. ~idle => drawn >= 1
  BY <1>2
<1> HIDE DEF idle, idles
<1>6. /\ drawn' \in Nat /\ drawn' >= drawn /\ drawn' <= MaxKeys
      /\ ~idles => drawn' >= 1
  BY <1>1, <1>3, <1>5
<1>7. Keys \subseteq Keys'
  BY <1>1, <1>6 DEF Keys
<1>8. ~idle => drawn \in Keys
  BY <1>1, <1>5 DEF Keys
<1>9. /\ signing_key' \in Keys' \cup {NoKey}
      /\ signing_pub' \in Keys' \cup {NoKey}
  BY <1>3, <1>7, <1>8 DEF KeysInv, KeysHeld
<1>10. KeysHeld'
  BY <1>4, <1>7, <1>9 DEF KeysInv, KeysHeld
<1>11. TypeOK'
  BY <1>4 DEF KeysInv, TypeOK
<1>12. KeysDrawn'
  BY <1>6 DEF KeysDrawn, idles
<1> QED
  BY <1>4, <1>6, <1>7, <1>10, <1>11, <1>12 DEF KeysInv

LEMMA KeysInv_Next == KeysInv /\ [CommandNext]_commandVars => KeysInv'
<1> SUFFICES ASSUME KeysInv, [CommandNext]_commandVars PROVE KeysInv'
  OBVIOUS
<1>0. TypeOK'
  BY CommandChainStep, TypeOK_Next DEF KeysInv
<1>1. CASE _cmd_keygen \/ KeygenDies
  BY <1>1, KeygenKeepsKeys
<1>2. ASSUME UNCHANGED keyFiles PROVE Keys' = Keys /\ KeysDrawn'
  BY <1>2 DEF KeysInv, KeysDrawn, keyFiles, Keys
<1>3. ASSUME NEW w \in Writers, _cmd_wrap(w) PROVE KeysInv'
  <2>1. UNCHANGED keyFiles /\ private_key' = [private_key EXCEPT ![w] = signing_key]
    BY <1>3 DEF _cmd_wrap
  <2>2. signing_key \in Keys
    BY <1>3 DEF _cmd_wrap, load, KeysInv, KeysHeld
  <2>3. \A v \in Writers \ {w} : prev_hash'[v] = prev_hash[v]
    BY <1>3 DEF _cmd_wrap, Open, KeysInv, TypeOK
  <2>4. KeysHeld'
    BY <1>2, <2>1, <2>2, <2>3 DEF KeysInv, KeysHeld, keyFiles
  <2> QED
    BY <1>0, <1>2, <2>1, <2>4 DEF KeysInv
<1>4. ASSUME NEW w \in Writers, Wrapping(w) \/ WrapEnds(w) PROVE KeysInv'
  <2>1. /\ UNCHANGED <<keyFiles, private_key>>
        /\ prev_hash[w] # Closed
        /\ \A v \in Writers \ {w} : prev_hash'[v] = prev_hash[v]
    BY <1>4 DEF Wrapping, WrapEnds, append, append_raises, append_dies, Close, KeysInv, TypeOK
  <2>2. KeysHeld'
    BY <1>2, <2>1 DEF KeysInv, KeysHeld, keyFiles
  <2> QED
    BY <1>0, <1>2, <2>1, <2>2 DEF KeysInv
<1>5. CASE _cmd_verify \/ VerifySingle \/ VerifyLine \/ VerifyEnds \/ UNCHANGED commandVars
  <2>1. UNCHANGED <<keyFiles, private_key, prev_hash>>
    BY <1>5 DEF _cmd_verify, VerifySingle, VerifyLine, VerifyEnds, commandVars, vars
  <2>2. KeysHeld'
    BY <1>2, <2>1 DEF KeysInv, KeysHeld, keyFiles
  <2> QED
    BY <1>0, <1>2, <2>1, <2>2 DEF KeysInv
<1> QED
  BY <1>1, <1>3, <1>4, <1>5 DEF CommandNext

\* Whatever keygen, wrap and verify do, with whatever faults, the log is that
\* of ChainWriter (cli.py:50-135): every step of a command is one of its
\* steps or leaves the log alone, and what is proved of it holds here.
THEOREM CommandsImplementChainWriter == CommandSpec => Spec
<1>1. CommandInit => Init
  BY DEF CommandInit
<1> QED
  BY <1>1, KeysInv_Init, KeysInv_Next, CommandChainStep, PTL DEF CommandSpec, Spec

-----------------------------------------------------------------------------
(* The verifier. *)

\* Every receipt is signed with a key that was drawn.
LogSigned == \A i \in 1 .. Len(lines) : lines[i] # Garbage => lines[i].body \in Keys

\* What the verifier has read is the start of the log.
AtLine(n, prev) ==
    /\ n \in Nat /\ n <= Len(lines)
    /\ n = 0 => prev = NoHash
    /\ n # 0 => prev = receipt_hash(lines[n])

\* The verdict was right, and stays so.
VerdictRight(verdict, key, n) ==
    /\ verdict # "none" => key \in Keys
    /\ verdict # "bad link"
    /\ verdict = "not JSON" => n = Len(lines) - 1 /\ ~ended
    /\ verdict = "bad signature" => drawn > 1

VerifierInv ==
    /\ LogSigned
    /\ verifier = [key |-> verifier.key, checked |-> verifier.checked,
                   prev_hash |-> verifier.prev_hash, verdict |-> verifier.verdict]
    /\ AtLine(verifier.checked, verifier.prev_hash)
    /\ VerdictRight(verifier.verdict, verifier.key, verifier.checked)

CommandInv == KeysInv /\ ChainInv /\ VerifierInv

LEMMA CommandInv_Init == CommandInit => CommandInv
<1> SUFFICES ASSUME CommandInit PROVE CommandInv
  OBVIOUS
<1>1. KeysInv /\ ChainInv
  BY KeysInv_Init, ChainInv_Init DEF CommandInit
<1>2. VerifierInv
  BY DEF CommandInit, Init, VerifierInv, LogSigned, AtLine, VerdictRight
<1> QED
  BY <1>1, <1>2 DEF CommandInv

\* The log and the keys under the verifier: lines stay where they are, those
\* that come are signed with drawn keys, and a damaged tail is the end.
Grows ==
    /\ Len(lines') \in Nat /\ Len(lines') >= Len(lines)
    /\ \A i \in 1 .. Len(lines) : lines'[i] = lines[i]
    /\ ~ended => Len(lines') = Len(lines) /\ ~ended'
    /\ LogSigned'
    /\ Keys \subseteq Keys' /\ drawn' \in Nat /\ drawn' >= drawn

LEMMA GrowthKeepsVerifier ==
    ASSUME CommandInv, Grows, UNCHANGED verifier
    PROVE  VerifierInv'
<1>1. Len(lines) \in Nat /\ drawn \in Nat
  BY DEF CommandInv, ChainInv, KeysInv, KeysDrawn, TypeOK
<1>2. ASSUME NEW n, NEW prev, AtLine(n, prev) PROVE AtLine(n, prev)'
  BY <1>1, <1>2 DEF Grows, AtLine, receipt_hash
<1>3. ASSUME NEW verdict, NEW key, NEW n, VerdictRight(verdict, key, n)
      PROVE  VerdictRight(verdict, key, n)'
  <2>1. verdict # "none" => key \in Keys'
    BY <1>3 DEF Grows, VerdictRight
  <2>2. verdict = "not JSON" => n = Len(lines') - 1 /\ ~ended'
    BY <1>3 DEF Grows, VerdictRight
  <2>3. drawn > 1 => drawn' > 1
    BY <1>1 DEF Grows
  <2> QED
    BY <1>3, <2>1, <2>2, <2>3 DEF VerdictRight
<1> QED
  BY <1>2, <1>3 DEF CommandInv, VerifierInv, Grows

LEMMA GrownGrows ==
    ASSUME CommandInv, UNCHANGED drawn, NEW line \in Receipts \cup {Garbage}, Grown(line),
           line # Garbage => line.body \in Keys
    PROVE  Grows
<1>1. /\ Len(lines') \in Nat /\ Len(lines') >= Len(lines)
      /\ \A i \in 1 .. Len(lines) : lines'[i] = lines[i]
      /\ \A i \in 1 .. Len(lines') :
            \/ i \in 1 .. Len(lines)
            \/ ended /\ i = Len(lines) + 1 /\ lines'[i] = line
  BY GrownKeeps DEF CommandInv
<1>2. ~ended => UNCHANGED <<lines, ended>>
  BY DEF Grown
<1>3. Keys' = Keys /\ drawn \in Nat /\ drawn' >= drawn
  BY DEF Keys, CommandInv, KeysInv, KeysDrawn
<1>4. LogSigned'
  BY <1>1, <1>3 DEF CommandInv, VerifierInv, LogSigned
<1>5. Len(lines) \in Nat
  BY DEF CommandInv, ChainInv, TypeOK
<1> QED
  BY <1>1, <1>2, <1>3, <1>4, <1>5 DEF Grows

\* A step of verify leaves log and keys alone.
LEMMA VerifyKeeps ==
    ASSUME CommandInv, UNCHANGED <<vars, keyFiles>>,
           NEW verdict, NEW key, NEW n, NEW prev,
           verifier' = [key |-> key, checked |-> n, prev_hash |-> prev, verdict |-> verdict],
           AtLine(n, prev), VerdictRight(verdict, key, n)
    PROVE  VerifierInv'
<1>1. UNCHANGED <<lines, ended, drawn>>
  BY DEF vars, keyFiles
<1>2. AtLine(n, prev)' /\ VerdictRight(verdict, key, n)' /\ LogSigned'
  BY <1>1 DEF AtLine, VerdictRight, LogSigned, CommandInv, VerifierInv, Keys, receipt_hash
<1> QED
  BY <1>2 DEF VerifierInv

LEMMA VerifierInv_Next ==
    ASSUME CleanFaults
    PROVE  CommandInv /\ [CommandNext]_commandVars => VerifierInv'
<1> SUFFICES ASSUME CommandInv, [CommandNext]_commandVars PROVE VerifierInv'
  OBVIOUS
<1>0. /\ lines \in Seq(Receipts \cup {Garbage}) /\ Len(lines) \in Nat
      /\ drawn \in Nat /\ NoKey \notin Keys
  BY KeyIsBody DEF CommandInv, ChainInv, KeysInv, TypeOK
<1>00. AtLine(0, NoHash)
  BY <1>0 DEF AtLine
<1>1. ASSUME UNCHANGED <<lines, ended, drawn, verifier>> PROVE VerifierInv'
  <2>1. Grows
    BY <1>0, <1>1 DEF Grows, CommandInv, VerifierInv, LogSigned, Keys
  <2> QED
    BY <1>1, <2>1, GrowthKeepsVerifier
<1>2. CASE _cmd_keygen \/ KeygenDies
  <2>1. /\ drawn' \in Nat /\ drawn' >= drawn /\ Keys \subseteq Keys'
        /\ UNCHANGED <<lines, ended, verifier>>
    BY <1>2, KeygenKeepsKeys DEF CommandInv
  <2>2. LogSigned'
    BY <2>1 DEF CommandInv, VerifierInv, LogSigned
  <2> QED
    BY <1>0, <2>1, <2>2, GrowthKeepsVerifier DEF Grows
<1>3. ASSUME NEW w \in Writers, _cmd_wrap(w) \/ WrapEnds(w) PROVE VerifierInv'
  BY <1>1, <1>3 DEF _cmd_wrap, WrapEnds, Open, Close, keyFiles
<1>4. ASSUME NEW w \in Writers, Wrapping(w) PROVE VerifierInv'
  <2> DEFINE receipt == build_receipt(prev_hash[w], private_key[w])
  <2>1. PICK reached \in Extents : prev_hash[w] # Closed /\ Write(receipt, reached)
    BY <1>4 DEF Wrapping, append, append_raises, append_dies, Extents
  <2>2. receipt \in Receipts /\ receipt.body \in Keys
    <3>1. private_key[w] \in Keys /\ private_key[w] \in Bodies
      BY <2>1, KeyIsBody DEF CommandInv, KeysInv, KeysHeld
    <3> QED
      BY <2>1, <3>1, BuiltType DEF CommandInv, ChainInv, build_receipt
  <2> HIDE DEF receipt
  <2>3. PICK line \in {receipt, Garbage} : Grown(line)
    BY <2>1, WriteAppends DEF Grown, CommandInv
  <2>4. UNCHANGED <<drawn, verifier>>
    BY <1>4 DEF Wrapping, keyFiles
  <2> QED
    BY <2>2, <2>3, <2>4, GrownGrows, GrowthKeepsVerifier
<1>5. CASE _cmd_verify
  <2>1. VerdictRight("reading", signing_pub, 0)
    BY <1>5 DEF _cmd_verify, load, CommandInv, KeysInv, KeysHeld, VerdictRight
  <2> QED
    BY <1>00, <1>5, <2>1, VerifyKeeps DEF _cmd_verify, Verifier
<1>6. CASE VerifySingle
  <2>1. signing_pub \in Keys /\ lines[1].body \in Keys
    <3>1. signing_pub \in Keys
      BY <1>6 DEF VerifySingle, load, CommandInv, KeysInv, KeysHeld
    <3>2. Len(lines) = 1 /\ lines[1] # Garbage
      BY <1>6 DEF VerifySingle
    <3>3. 1 \in 1 .. Len(lines)
      BY <3>2
    <3> QED
      BY <3>1, <3>2, <3>3 DEF CommandInv, VerifierInv, LogSigned
  <2>2. lines[1].body # signing_pub => drawn > 1
    BY <1>0, <2>1 DEF Keys
  <2>3. PICK verdict \in {"valid", "bad signature"} :
            /\ verifier' = Verifier(verdict)
            /\ verdict = "bad signature" => drawn > 1
    BY <1>6, <2>2 DEF VerifySingle
  <2>4. VerdictRight(verdict, signing_pub, 0)
    <3>1. verdict # "bad link" /\ verdict # "not JSON"
      BY <2>3
    <3> QED
      BY <2>1, <2>3, <3>1, Zenon DEF VerdictRight
  <2> QED
    BY <1>00, <1>6, <2>3, <2>4, VerifyKeeps DEF VerifySingle, Verifier
<1>7. CASE VerifyLine \/ VerifyEnds
  <2> DEFINE n == verifier.checked
             line == lines[n + 1]
  <2>1. /\ AtLine(n, verifier.prev_hash) /\ n \in Nat
        /\ VerdictRight("reading", verifier.key, n) /\ verifier.key \in Keys
        /\ UNCHANGED <<vars, keyFiles>>
    BY <1>7 DEF VerifyLine, VerifyEnds, CommandInv, VerifierInv, VerdictRight, AtLine
  <2>2. ASSUME NEW verdict, Conclude(verdict), VerdictRight(verdict, verifier.key, n)
        PROVE  VerifierInv'
    <3>1. verifier' = [key |-> verifier.key, checked |-> n,
                       prev_hash |-> verifier.prev_hash, verdict |-> verdict]
      BY <2>2 DEF Conclude, CommandInv, VerifierInv
    <3> QED
      BY <2>1, <2>2, <3>1, VerifyKeeps
  <2>3. CASE VerifyEnds
    <3>1. PICK verdict \in {"no receipts", "valid"} : Conclude(verdict)
      BY <2>3 DEF VerifyEnds
    <3>2. VerdictRight(verdict, verifier.key, n)
      BY <2>1, <3>1 DEF VerdictRight
    <3> QED
      BY <2>2, <3>1, <3>2
  <2>4. CASE VerifyLine
    <3>1. n + 1 \in 1 .. Len(lines)
      <4>1. n < Len(lines)
        BY <2>4 DEF VerifyLine
      <4> HIDE DEF n
      <4> QED
        BY <1>0, <2>1, <4>1
    <3>2. \/ Linked(lines, n + 1)
          \/ line = Garbage /\ n + 1 = Len(lines) /\ ~ended
      BY <1>0, <3>1 DEF CommandInv, ChainInv, ChainLinkedButTail
    <3>3. CASE line = Garbage
      <4>1. n = Len(lines) - 1 /\ ~ended
        BY <1>0, <2>1, <3>2, <3>3 DEF Linked
      <4>2. VerdictRight("not JSON", verifier.key, n)
        BY <2>1, <4>1 DEF VerdictRight
      <4>3. Conclude("not JSON")
        BY <2>4, <3>3 DEF VerifyLine
      <4> QED
        BY <2>2, <4>2, <4>3
    <3>4. CASE line # Garbage /\ line.body # verifier.key
      <4>1. line.body \in Keys
        BY <3>1, <3>4 DEF CommandInv, VerifierInv, LogSigned
      <4>2. drawn > 1
        BY <1>0, <2>1, <3>4, <4>1 DEF Keys
      <4>3. VerdictRight("bad signature", verifier.key, n)
        BY <2>1, <4>2 DEF VerdictRight
      <4>4. Conclude("bad signature")
        BY <2>4, <3>4 DEF VerifyLine
      <4> QED
        BY <2>2, <4>3, <4>4
    <3>5. CASE line # Garbage /\ line.body = verifier.key
      <4>1. line.prev_hash = verifier.prev_hash
        <5>1. Linked(lines, n + 1)
          BY <3>2, <3>5
        <5> QED
          BY <2>1, <5>1 DEF Linked, AtLine
      <4>2. verifier' = [verifier EXCEPT !.checked = n + 1, !.prev_hash = receipt_hash(line)]
        BY <2>4, <3>5, <4>1 DEF VerifyLine
      <4>3. verifier' = [key |-> verifier.key, checked |-> n + 1,
                         prev_hash |-> receipt_hash(line), verdict |-> "reading"]
        BY <2>4, <4>2 DEF VerifyLine, CommandInv, VerifierInv
      <4>4. AtLine(n + 1, receipt_hash(line)) /\ VerdictRight("reading", verifier.key, n + 1)
        BY <1>0, <2>1, <3>1 DEF AtLine, VerdictRight
      <4> QED
        BY <2>1, <4>3, <4>4, VerifyKeeps
    <3> QED
      BY <3>3, <3>4, <3>5
  <2> QED
    BY <1>7, <2>3, <2>4
<1>8. CASE UNCHANGED commandVars
  BY <1>1, <1>8 DEF commandVars, vars, keyFiles
<1> QED
  BY <1>2, <1>3, <1>4, <1>5, <1>6, <1>7, <1>8 DEF CommandNext

LEMMA CommandInv_Next ==
    ASSUME CleanFaults
    PROVE  CommandInv /\ [CommandNext]_commandVars => CommandInv'
<1>1. CommandInv /\ [CommandNext]_commandVars => KeysInv' /\ ChainInv'
  BY KeysInv_Next, CommandChainStep, ChainInv_Next DEF CommandInv
<1> QED
  BY <1>1, VerifierInv_Next DEF CommandInv

\* A log that only wrap wrote, crashes and restarts apart, and that is not
\* empty, is refused by verify, also while a wrap is writing it, only for a
\* tail that a crash cut or for a second keygen (cli.py:103-135, SCHEMA.md:4-5).
THEOREM RefusedOnlyForCause == ASSUME CleanFaults PROVE CommandSpec => []RefusedForCause
<1>1. CommandInv => RefusedForCause
  <2> SUFFICES ASSUME CommandInv PROVE RefusedForCause
    OBVIOUS
  <2>1. lines \in Seq(Receipts \cup {Garbage}) /\ verifier.checked \in 0 .. Len(lines)
    BY DEF CommandInv, ChainInv, TypeOK, VerifierInv, AtLine
  <2>2. Len(SubSeq(lines, verifier.checked + 1, Len(lines))) = Len(lines) - verifier.checked
    BY <2>1
  <2>3. VerdictRight(verifier.verdict, verifier.key, verifier.checked)
    BY DEF CommandInv, VerifierInv
  <2>4. verifier.checked = Len(lines) - 1 =>
            Len(SubSeq(lines, verifier.checked + 1, Len(lines))) = 1
    BY <2>1, <2>2
  <2> QED
    BY <2>3, <2>4 DEF VerdictRight, RefusedForCause
<1> QED
  BY <1>1, CommandInv_Init, CommandInv_Next, PTL DEF CommandSpec
=============================================================================
