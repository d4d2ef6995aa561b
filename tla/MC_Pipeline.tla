----------------------------- MODULE MC_Pipeline -----------------------------
(* Pipeline with two interchangeable pages.                                *)
EXTENDS Pipeline, TLC

CONSTANTS p1, p2, c1, f1

MCPaths    == {p1, p2}
MCClients  == {c1}
MCFlushers == {f1}
PathsAreInterchangeable == Permutations(MCPaths)
=============================================================================
