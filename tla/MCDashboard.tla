----------------------------- MODULE MCDashboard -----------------------------
(***************************************************************************)
(* A small instance of Dashboard for TLC: a PID of two processes, one      *)
(* after the other, each with an override of its own, beside the init of   *)
(* the host, which has none.                                               *)
(***************************************************************************)
EXTENDS Dashboard

CONSTANTS Web, WebAgain, HostProcess

MCProcesses == {Web, WebAgain, HostProcess}
MCPidOf == [p \in MCProcesses |-> IF p = HostProcess THEN 1 ELSE 42]
MCInitial == {Web, HostProcess}
MCIsolated == {Web}
MCImprovable == {Web, WebAgain}
=============================================================================
