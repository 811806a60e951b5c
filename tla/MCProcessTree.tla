---------------------------- MODULE MCProcessTree ----------------------------
(* Small instances of ProcessTree for TLC.                                  *)
EXTENDS ProcessTree, TLC

\* "10" sorts before "2": a child can be read before or after its parent.
MCPids == {1, 2, 3, 10}
MCNameRank == (1 :> 1) @@ (10 :> 2) @@ (2 :> 3) @@ (3 :> 4)
=============================================================================
