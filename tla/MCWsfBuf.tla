------------------------------- MODULE MCWsfBuf -------------------------------
(* WsfBuf for TLC, with the layout WsfBufInit computes.                       *)
EXTENDS WsfBuf

MCLen == <<1, 2, 4>>
MCNum == <<2, 1, 2>>

(* WsfBufInit: pools one behind the other.                                    *)
MCStart[p \in 1..4] == IF p = 1 THEN 0 ELSE MCStart[p - 1] + MCNum[p - 1] * MCLen[p - 1]
=============================================================================
