---------------------------- MODULE ScanContract ----------------------------
(***************************************************************************)
(* What a caller of FindIsolatedProcesses (pkg/auditor/auditor.go) is      *)
(* promised, with no goroutine in sight: a call fixes the processes it is  *)
(* about, gives each of them one verdict, and returns when none is open;   *)
(* what it has returned no longer changes.  A report may stall for ever;   *)
(* then the call never returns, but the other processes get their verdicts *)
(* as long as not every slot has a stalled report in it.                   *)
(***************************************************************************)
EXTENDS Naturals, FiniteSets

CONSTANTS Pids, Slots

VARIABLES
    phase,    \* "idle", "open" while the call runs, "returned"
    verdict   \* for each PID: "none" (not listed), "open", "stalled", "score", "placeholder"

vars == <<phase, verdict>>

Init ==
    /\ phase = "idle"
    /\ verdict = [p \in Pids |-> "none"]

\* The call decides which processes are isolated.
Select(S) ==
    /\ phase = "idle"
    /\ phase' = "open"
    /\ verdict' = [p \in Pids |-> IF p \in S THEN "open" ELSE "none"]

\* A verdict is given once.
Settle(p) ==
    /\ phase = "open"
    /\ verdict[p] = "open"
    /\ \E v \in {"score", "placeholder"} : verdict' = [verdict EXCEPT ![p] = v]
    /\ UNCHANGED phase

\* A verdict that never comes.
Stall(p) ==
    /\ phase = "open"
    /\ verdict[p] = "open"
    /\ verdict' = [verdict EXCEPT ![p] = "stalled"]
    /\ UNCHANGED phase

Deliver ==
    /\ phase = "open"
    /\ \A p \in Pids : verdict[p] \notin {"open", "stalled"}
    /\ phase' = "returned"
    /\ UNCHANGED verdict

\* The caller drops the result; the next call starts from nothing.
Forget ==
    /\ phase = "returned"
    /\ phase' = "idle"
    /\ verdict' = [p \in Pids |-> "none"]

Next ==
    \/ \E S \in SUBSET Pids : Select(S)
    \/ \E p \in Pids : Settle(p) \/ Stall(p)
    \/ Deliver
    \/ Forget

Stalled == {p \in Pids : verdict[p] = "stalled"}

Spec ==
    /\ Init
    /\ [][Next]_vars
    /\ WF_vars(Cardinality(Stalled) < Slots /\ (Deliver \/ \E p \in Pids : Settle(p)))
=============================================================================
