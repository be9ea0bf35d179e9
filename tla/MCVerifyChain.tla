---------------------------- MODULE MCVerifyChain ----------------------------
(***************************************************************************)
(* Two logs of one key, and every file of up to MaxLines lines.            *)
(***************************************************************************)
EXTENDS VerifyChain

CONSTANTS w1, w2, w3, o1, o2, MaxLines

MCLogs == {<<w1, w2, w3>>, <<o1, o2>>}
MCHash == [r \in {w1, w2, w3, o1, o2} |->
    CASE r = w1 -> 1 [] r = w2 -> 2 [] r = w3 -> 3 [] r = o1 -> 4 [] r = o2 -> 5]
MCPrev == [r \in {w1, w2, w3, o1, o2} |->
    CASE r \in {w1, o1} -> NoHash [] r = w2 -> 1 [] r = w3 -> 2 [] r = o2 -> 4]

MCFiles == UNION {[1 .. n -> Lines] : n \in 0 .. MaxLines}
=============================================================================
