------------------------------- MODULE Overview -------------------------------
(***************************************************************************)
(* The Overview tab of pkg/server/dashboard.go: the six metrics that       *)
(* populateReport fills in from a report, and which of them it colours     *)
(* green.                                                                  *)
(***************************************************************************)
EXTENDS Report

Metrics == {"namespaces", "capabilities", "user", "risks", "kernel", "breakout"}

\* The verdicts that the page calls Safe and Low Risk.
IsSafeVerdict(worst) == worst <= FeasibilityLow

\* Wrong variant: the risks of the file system are not counted.
Mut_IsGreen(metric, r, worst) ==
    CASE metric = "namespaces" -> r["ns"].score = 100
      [] metric = "capabilities" -> r["caps"].audited = {}
      [] metric = "user" -> ~r["sec"].hostUser
      [] metric = "risks" -> r["mounts"].found = {} /\ r["sec"].score = 100
      [] metric = "kernel" -> TRUE
      [] metric = "breakout" -> IsSafeVerdict(worst)

\* The page looks at the real UID, the assertions at the effective one.  A
\* deduction of AuditSecurity comes with a risk; its risks without a deduction are
\* left out.  No report has a part on the kernel: the metric reads 100.
IsGreen(metric, r, worst) ==
    CASE metric = "namespaces" -> r["ns"].score = 100
      [] metric = "capabilities" -> r["caps"].audited = {}
      [] metric = "user" -> ~r["sec"].hostUser
      [] metric = "risks" -> r["mounts"].found = {} /\ ~r["fs"].risky /\ r["sec"].score = 100
      [] metric = "kernel" -> TRUE
      [] metric = "breakout" -> IsSafeVerdict(worst)

AllGreen == \A metric \in Metrics : IsGreen(metric, report, verdict)

\* An overview that is green throughout belongs to a report that no assertion
\* refuses and from which there is no way out, but for secrets in the
\* environment and leaked descriptors, which no metric counts
\* (dashboard.go:2586-2674, main.go:238-300).
GreenPasses ==
    Reported /\ AllGreen =>
        /\ FailedAssertions(report) \subseteq {"secrets", "fd-leaks"}
        /\ verdict = FeasibilityNone
=============================================================================
