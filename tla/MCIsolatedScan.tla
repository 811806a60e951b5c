---------------------------- MODULE MCIsolatedScan ----------------------------
(* A small instance of IsolatedScan for TLC.                                 *)
EXTENDS IsolatedScan, TLC

CONSTANTS p1, p2, self

\* The PID p1 can be given out a second time.
MCMaxGen == (self :> 1) @@ (p1 :> 2) @@ (p2 :> 1)
=============================================================================
