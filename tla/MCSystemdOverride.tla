-------------------------- MODULE MCSystemdOverride --------------------------
(* Small instances of SystemdOverride for TLC.                              *)
EXTENDS SystemdOverride, TLC

CONSTANTS tmp, home, mem, cli, web

\* PrivateTmp and ProtectHome come before MemoryMax in the list.
MCRank == (home :> 1) @@ (tmp :> 2) @@ (mem :> 3)

\* A command-line run and a web request apply an override the same way.
Interchangeable == Permutations(Appliers)
=============================================================================
