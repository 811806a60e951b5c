---------------------------- MODULE MCSeccompFetch ----------------------------
(* Small instances of SeccompFetch for TLC.                                  *)
EXTENDS SeccompFetch

CONSTANTS a1, a2
=============================================================================
