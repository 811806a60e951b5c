-------------------------------- MODULE Report --------------------------------
(***************************************************************************)
(* GenerateReport of pkg/auditor/report.go, and the assertions main.go     *)
(* makes on its result.  The parts of a report read one process one after  *)
(* the other, the audits of mounts and of security in several reads each;  *)
(* meanwhile its administrator, or the process itself, may take rights     *)
(* away from it, and it may exit.  What a part makes of what it reads is   *)
(* in Scoring, Mounts and Breakout.  AuditNetwork and AuditProcessTree     *)
(* have no score; that the latter may not return is in ProcessTree and     *)
(* IsolatedScan.  The texts of GenerateRemediations are in SystemdOverride. *)
(***************************************************************************)
EXTENDS Breakout

CONSTANTS
    Processes,   \* the processes a report may be asked for
    Changes,     \* bound: how often each of them changes during a report
    FlagSets,    \* the sets of --fail-on-... flags an invocation may have
    Thresholds,  \* the values of --fail-score
    NotRead      \* a part that has not been read yet, a process not looked at

AssertionFlags == {"shared-ns", "caps", "mount-risks", "secrets", "fd-leaks", "fs-risks", "root",
                   "seccomp-disabled"}

ASSUME ReportAssumption ==
    /\ \A c \in Processes : /\ c \in ProcessesWith(Mount)
                            /\ IsFiniteSet(c.mounts)
                            /\ c.eff \subseteq c.prm
    /\ Changes \in [Processes -> Nat]
    /\ FlagSets \subseteq SUBSET AssertionFlags
    /\ Thresholds \subseteq 0 .. 100

VARIABLES
    proc,      \* the audited process as it is
    before,    \* the audited process as it was when the report began
    alive,     \* does it still exist?
    left,      \* how many changes are left to it
    pc,        \* what GenerateReport, or main after it, does next
    view,      \* the process as the audit under way has read it so far
    torn,      \* did it exit, or leave its mount namespace, in the middle of
               \* AuditSecurity? (history)
    report,    \* the parts read so far
    overall,   \* OverallScore
    verdict,   \* OverallVerdict of the breakout assessment
    flags,     \* the flags main was given, once it looks at them
    threshold, \* the value of --fail-score, likewise
    exit       \* the exit status

vars == <<proc, before, alive, left, pc, view, torn, report, overall, verdict, flags, threshold, exit>>

Parts == {"fs", "ns", "caps", "mounts", "sec", "env", "fd", "sysd"}
Unread == [p \in Parts |-> NotRead]

\* The reads of AuditMounts after mountinfo, and of AuditSecurity after status.
Later == {"access", "uidmap", "filter", "profile", "setgroups", "init", "cgroup", "link",
          "gidmap", "helpers"}
Reads == Parts \cup Later

InRange == \A p \in Parts : report[p] # NotRead => report[p].score \in 0 .. 100

\* Every score is within its range at all times (report.go:90, the clamps of each part).
TypeOK ==
    /\ proc \in ProcessesWith(Mount)
    /\ before \in ProcessesWith(Mount)
    /\ alive \in BOOLEAN
    /\ left \in Nat
    /\ pc \in Reads \cup {"sum", "assert", "exited", "failed"}
    /\ view = NotRead \/ view \in ProcessesWith(Mount)
    /\ torn \in BOOLEAN
    /\ DOMAIN report = Parts
    /\ InRange
    /\ overall \in 0 .. 100
    /\ verdict \in FeasibilityNone .. FeasibilityTrivial
    /\ flags \in SUBSET AssertionFlags
    /\ threshold \in 0 .. 100
    /\ exit \in {0, 1}

Init ==
    /\ proc \in Processes
    /\ before = proc
    /\ alive = TRUE
    /\ left = Changes[proc]
    /\ pc = "fs"
    /\ view = NotRead
    /\ torn = FALSE
    /\ report = Unread
    /\ overall = 0
    /\ verdict = FeasibilityNone
    /\ flags = {}
    /\ threshold = 0
    /\ exit = 0

process    == <<proc, before, alive, left>>
outcome    == <<overall, verdict>>
invocation == <<flags, threshold, exit>>

(***************************************************************************)
(* The parts.  A process that has exited can no longer be looked into, and *)
(* its status, mountinfo, maps, cgroup and attr/current are gone.  The     *)
(* audits of mounts and of security only look at the first of their files  *)
(* for an error; of the others each is taken for what its absence means.   *)
(***************************************************************************)
Seen ==
    IF alive THEN proc
    ELSE [proc EXCEPT !.peek = FALSE, !.mapped = FALSE, !.seccomp = "unknown", !.lsm = "unconfined",
                      !.setgroups = FALSE, !.oddInit = FALSE, !.limits = {}, !.gids = 0, !.helpers = {}]

Put(part, result, then) ==
    /\ report' = [report EXCEPT ![part] = result]
    /\ view' = NotRead
    /\ pc' = then
    /\ UNCHANGED <<process, torn, outcome, invocation>>

Look(seen, then) ==
    /\ view' = seen
    /\ pc' = then
    /\ UNCHANGED <<process, report, outcome, invocation>>

\* AuditFilesystem fails never: a root that is not accessible is a report of its own.
ReadFilesystem == pc = "fs" /\ Put("fs", AuditFilesystem(Seen), "ns")

ReadNamespaces == pc = "ns" /\ Put("ns", AuditNamespaces(Seen), "caps")

\* Without /proc/[pid]/status there are no capabilities and no report.  The uid_map
\* that is read next never changes while the process lives.
ReadCapabilities ==
    /\ pc = "caps" /\ alive
    /\ Put("caps", AuditCapabilities(proc, report["fs"]), "mounts")

ReadMountInfo == pc = "mounts" /\ alive /\ Look(proc, "access") /\ UNCHANGED torn

\* attr/current and uid_map.
ReadAccess ==
    /\ pc = "access"
    /\ Put("mounts", AuditMounts([view EXCEPT !.lsm = Seen.lsm, !.mapped = Seen.mapped], report["caps"]), "sec")

(***************************************************************************)
(* AuditSecurity, read by read.  Its status has the UIDs, NoNewPrivs and   *)
(* whether there is a filter; AuditSeccomp asks for the filter itself.     *)
(***************************************************************************)
ReadStatus == pc = "sec" /\ alive /\ Look(proc, "uidmap") /\ UNCHANGED torn

ReadUidMap == pc = "uidmap" /\ Look([view EXCEPT !.mapped = Seen.mapped], "filter") /\ UNCHANGED torn

ReadFilter ==
    /\ pc = "filter"
    /\ Look([view EXCEPT !.seccomp = IF @ = "off" THEN "off" ELSE Seen.seccomp], "profile")
    /\ UNCHANGED torn

ReadProfile == pc = "profile" /\ Look([view EXCEPT !.lsm = Seen.lsm], "setgroups") /\ UNCHANGED torn

ReadSetgroups == pc = "setgroups" /\ Look([view EXCEPT !.setgroups = Seen.setgroups], "init") /\ UNCHANGED torn

\* Without the link of its PID namespace nothing is said of its init.
ReadInit == pc = "init" /\ Look([view EXCEPT !.oddInit = Seen.oddInit], "cgroup") /\ UNCHANGED torn

ReadCgroup == pc = "cgroup" /\ Look([view EXCEPT !.limits = Seen.limits], "link") /\ UNCHANGED torn

\* The limits count only against a mount namespace of its own.
ReadLink ==
    /\ pc = "link"
    /\ Look([view EXCEPT !.shared = IF alive THEN proc.shared ELSE @ \cup {"mnt"}], "gidmap")
    /\ torn' = (torn \/ (alive /\ "mnt" \in view.shared \ proc.shared /\ view.limits # {"memory", "pids"}))

ReadGIDMap == pc = "gidmap" /\ Look([view EXCEPT !.gids = Seen.gids], "helpers") /\ UNCHANGED torn

ReadHelpers ==
    /\ pc = "helpers"
    /\ Put("sec", AuditSecurity([view EXCEPT !.helpers = Seen.helpers], report["fs"]), "env")

\* A part that GenerateReport needs cannot be read: main prints the error and exits.
Fail ==
    /\ pc \in {"caps", "mounts", "sec"} /\ ~alive
    /\ pc' = "failed"
    /\ exit' = 1
    /\ UNCHANGED <<process, view, torn, report, outcome, flags, threshold>>

ReadEnv == pc = "env" /\ Put("env", AuditEnv(Seen), "fd")

ReadFD == pc = "fd" /\ Put("fd", AuditFD(Seen), "sysd")

\* Without the cgroup file the unit is looked for by the name of the process.
ReadSystemd ==
    /\ pc = "sysd"
    /\ \E unit \in IF alive THEN {proc.unit} ELSE {proc.unit, "none"} :
          Put("sysd", AuditSystemd(proc, unit), "sum")

Mut_Weighted(r) ==
    (r["ns"].score * 20 + r["caps"].score * 20 + r["mounts"].score * 15 + r["sec"].score * 15
     + r["env"].score * 10 + r["fs"].score * 10 + r["fd"].score * 10
     + (IF r["sysd"].found THEN r["sysd"].score * 8 ELSE 0)) \div 100

\* The weighted average of the parts, in integers.
Weighted(r) ==
    IF r["sysd"].found
    THEN (r["ns"].score * 18 + r["caps"].score * 18 + r["mounts"].score * 14 + r["sec"].score * 14
          + r["env"].score * 10 + r["fs"].score * 10 + r["fd"].score * 8 + r["sysd"].score * 8) \div 100
    ELSE (r["ns"].score * 20 + r["caps"].score * 20 + r["mounts"].score * 15 + r["sec"].score * 15
          + r["env"].score * 10 + r["fs"].score * 10 + r["fd"].score * 10) \div 100

BreakoutOf(r) == Verdict(r["caps"], r["ns"], r["mounts"], r["fs"])

Assemble ==
    /\ pc = "sum"
    /\ overall' = Weighted(report)
    /\ verdict' = BreakoutOf(report)
    /\ pc' = "assert"
    /\ UNCHANGED <<process, view, torn, report, invocation>>

(***************************************************************************)
(* The assertions: the flags whose condition the report meets.             *)
(***************************************************************************)
Severe == {"Critical", "High", "Medium"}

FailedAssertions(r) ==
    {f \in AssertionFlags :
        CASE f = "shared-ns" -> r["ns"].shared \ {"user", "cgroup", "time"} # {}
          [] f = "caps" -> r["caps"].risky
          [] f = "mount-risks" -> \E x \in r["mounts"].found : x.level \in Severe
          [] f = "secrets" -> r["env"].secrets
          [] f = "fd-leaks" -> r["fd"].leaks
          [] f = "fs-risks" -> r["fs"].risky
          [] f = "root" -> r["sec"].hostRoot
          [] f = "seccomp-disabled" -> r["sec"].seccomp \in {"off", "allow"}}

AssertFlags ==
    /\ pc = "assert"
    /\ pc' = "exited"
    /\ flags' \in FlagSets
    /\ threshold' \in Thresholds
    /\ exit' = IF overall < threshold' \/ flags' \cap FailedAssertions(report) # {} THEN 1 ELSE 0
    /\ UNCHANGED <<process, view, torn, report, outcome>>

\* The next invocation of nspect, for the process or for one started in its place.
Again ==
    /\ pc \in {"exited", "failed"}
    /\ before' = proc
    /\ alive' = TRUE
    /\ pc' = "fs"
    /\ view' = NotRead
    /\ torn' = FALSE
    /\ report' = Unread
    /\ overall' = 0
    /\ verdict' = FeasibilityNone
    /\ flags' = {}
    /\ threshold' = 0
    /\ exit' = 0
    /\ UNCHANGED <<proc, left>>

(***************************************************************************)
(* What may happen to the process.  Each change takes something away that  *)
(* an audit counts against it.  Three that one might expect are not here,  *)
(* as the code counts them against the process: leaving the mount          *)
(* namespace without cgroup limits, leaving the PID namespace with an init *)
(* the code does not know, and entering a user namespace.                  *)
(***************************************************************************)
Without(c, k) ==
    {[c EXCEPT !.eff = @ \ {k}],
     [c EXCEPT !.eff = @ \ {k}, !.prm = @ \ {k}],
     [c EXCEPT !.bnd = @ \ {k}]}

Left(c, n) ==
    IF \/ n \in {"user", "pid"}
       \/ n = "mnt" /\ c.limits # {"memory", "pids"}
    THEN {} ELSE {[c EXCEPT !.shared = @ \ {n}]}

Replaced(c, m) ==
    {[c EXCEPT !.mounts = (@ \ {m}) \cup S] :
        S \in {{}, {[m EXCEPT !.modes = {"ro"}]}, {[m EXCEPT !.flags = Flags]}, {[m EXCEPT !.shared = FALSE]}}}

Confined(c) ==
    {[c EXCEPT !.nnp = TRUE], [c EXCEPT !.lsm = "enforce"], [c EXCEPT !.limits = {"memory", "pids"}],
     [c EXCEPT !.root = FALSE, !.uid0 = FALSE, !.eff = {}, !.prm = {}]}
    \cup (IF c.seccomp = "off" THEN {[c EXCEPT !.seccomp = s] : s \in {"allow", "deny", "unknown"}}
          ELSE IF c.seccomp = "allow" THEN {[c EXCEPT !.seccomp = "deny"]} ELSE {})

Cleaned(c) ==
    {[c EXCEPT !.suid = 0], [c EXCEPT !.exposed = {}], [c EXCEPT !.dotenv = FALSE],
     [c EXCEPT !.dirs = 0], [c EXCEPT !.accounts = 0], [c EXCEPT !.disks = 0],
     [c EXCEPT !.helpers = {}], [c EXCEPT !.insecure = {}]}
    \cup {[c EXCEPT !.programs = @ \ {x}] : x \in c.programs}

Hardened(c) ==
    ((UNION {Without(c, k) : k \in c.prm \cup c.bnd}) \cup (UNION {Left(c, n) : n \in c.shared})
     \cup (UNION {Replaced(c, m) : m \in c.mounts}) \cup Confined(c) \cup Cleaned(c)) \ {c}

Harden ==
    /\ pc \in Reads /\ alive /\ left > 0
    /\ proc' \in Hardened(proc)
    /\ left' = left - 1
    /\ UNCHANGED <<before, alive, pc, view, torn, report, outcome, invocation>>

\* Torn while attr/current, or more, is still to be read.
Exit ==
    /\ pc \in Reads /\ alive
    /\ alive' = FALSE
    /\ torn' = (torn \/ pc \in {"uidmap", "filter", "profile"})
    /\ UNCHANGED <<proc, before, left, pc, view, report, outcome, invocation>>

Generate ==
    \/ ReadFilesystem \/ ReadNamespaces \/ ReadCapabilities \/ ReadMountInfo \/ ReadAccess
    \/ ReadStatus \/ ReadUidMap \/ ReadFilter \/ ReadProfile \/ ReadSetgroups \/ ReadInit
    \/ ReadCgroup \/ ReadLink \/ ReadGIDMap \/ ReadHelpers
    \/ ReadEnv \/ ReadFD \/ ReadSystemd \/ Fail \/ Assemble

Next == Generate \/ AssertFlags \/ Again \/ Harden \/ Exit

Spec == Init /\ [][Next]_vars

(***************************************************************************)
(* Properties.                                                             *)
(***************************************************************************)
\* The report of an audit that reads everything in one moment.
Snapshot(c) ==
    LET fs == AuditFilesystem(c)
        caps == AuditCapabilities(c, fs)
    IN  [p \in Parts |->
            CASE p = "fs" -> fs
              [] p = "ns" -> AuditNamespaces(c)
              [] p = "caps" -> caps
              [] p = "mounts" -> AuditMounts(c, caps)
              [] p = "sec" -> AuditSecurity(c, fs)
              [] p = "env" -> AuditEnv(c)
              [] p = "fd" -> AuditFD(c)
              [] p = "sysd" -> AuditSystemd(c, c.unit)]

Reported == pc \in {"assert", "exited"}

\* A report whose parts are of different moments never scores outside of what
\* the process was when the report began and what it had become when it ended:
\* no weight, limit, downgrade or correlation between two parts (fs.suid and
\* NoNewPrivs, programs and capabilities, capabilities and mounts) lets a
\* process that only gives things up lose by it, and a process that exits, or
\* changes late, is not scored better than it came to be (report.go:33-93).
\* The exception is a process that exits, or leaves its mount namespace, in the
\* middle of AuditSecurity: an unreadable uid_map or attr/current, and limits of
\* an earlier moment than the link, are held against it; what it never deserved
\* is 8 points overall at most (security.go:77, 158, 206).
ScoreBetween ==
    Reported =>
        /\ report["sysd"].found = AuditSystemd(before, before.unit).found
              => overall + (IF torn THEN 8 ELSE 0) >= Weighted(Snapshot(before))
        /\ alive => overall <= Weighted(Snapshot(proc))

\* The same of the verdict of the breakout assessment, which combines parts
\* read at four different moments (report.go:112, breakout.go:105).
VerdictBetween ==
    Reported =>
        /\ verdict <= BreakoutOf(Snapshot(before))
        /\ alive => verdict >= BreakoutOf(Snapshot(proc))

\* The assertions and the weights agree: whatever an assertion refuses has cost
\* the report a point, so a score of 100 passes every flag, and --fail-score 100
\* is at least as strict as all of them (main.go:238-300, report.go:90).
PerfectPasses ==
    Reported /\ overall = 100 => FailedAssertions(report) = {}

\* A way out of the container that the breakout assessment calls feasible at
\* all has cost the capabilities a point: the seven capabilities of breakout.go
\* are all in CapabilityRiskDatabase, and no downgrade makes one free.
FeasibleCosts ==
    Reported /\ verdict > FeasibilityNone => report["caps"].score < 100 /\ overall < 100

\* --fail-on-shared-ns, as the usage says: "Fail if any namespace (mnt, pid,
\* net, ipc, uts) is shared with host" (main.go:90).
SharedFails ==
    pc = "exited" /\ exit = 0 /\ "shared-ns" \in flags
        => proc.shared \cap {"mnt", "pid", "net", "ipc", "uts"} = {}
=============================================================================
