---------------------------- MODULE MCMcpClient -----------------------------
(* Small instances of McpClient for TLC. *)
EXTENDS McpClient, TLC

CONSTANTS a1, a2, a3, k1, k2

TwoCalls == {a1, a2}
ThreeCalls == {a1, a2, a3}
OneKey == {k1}
TwoKeys == {k1, k2}

Symmetric == Permutations(Call) \cup Permutations(Key)
=============================================================================
