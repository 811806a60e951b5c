----------------------------- MODULE BetweenProofs -----------------------------
(***************************************************************************)
(* That the score and the verdict of a report lie between those of the     *)
(* first and of the last moment of the audit, for every process that only  *)
(* gives things up.  Processes are ordered by what they have given up      *)
(* (Tamer) and parts by how they come out (Milder); every audit respects   *)
(* the two orders, in the process and in the parts handed over to it, and  *)
(* so do the weights and the breakout assessment.                          *)
(***************************************************************************)
EXTENDS ReportProofs

(***************************************************************************)
(* The orders.                                                             *)
(***************************************************************************)
\* Mount x has, or allows, no more than y.
Softer(x, y) ==
    /\ x.at = y.at /\ x.fs = y.fs /\ x.socket = y.socket /\ x.modules = y.modules
    /\ x.weak = y.weak
    /\ IsRW(x) => IsRW(y)
    /\ y.flags \subseteq x.flags
    /\ x.shared => y.shared

\* Each mount is a softer form of one there was, no two of the same.
Derives(g, new, old) == g \in Injection(new, old) /\ \A x \in new : Softer(x, g[x])

SameIdentity(d, c) ==
    /\ d.peek = c.peek /\ d.mapped = c.mapped /\ d.boxed = c.boxed
    /\ d.minimal = c.minimal /\ d.pebble = c.pebble /\ d.unit = c.unit
    /\ d.setgroups = c.setgroups /\ d.gids = c.gids /\ d.oddInit = c.oddInit
    /\ d.secrets = c.secrets

FewerRights(d, c) ==
    /\ d.shared \subseteq c.shared /\ ("pid" \in c.shared => "pid" \in d.shared)
    /\ d.eff \subseteq c.eff
    /\ AuditedCapabilities(d) \subseteq AuditedCapabilities(c)
    /\ d.root => c.root

MoreConfined(d, c) ==
    /\ c.nnp => d.nnp
    /\ d.seccomp = "off" => c.seccomp = "off"
    /\ d.seccomp = "allow" => c.seccomp \in {"off", "allow"}
    /\ d.lsm = "unconfined" => c.lsm = "unconfined"
    /\ c.lsm = "enforce" => d.lsm = "enforce"
    /\ c.limits \subseteq d.limits
    /\ \A l \in {"memory", "pids"} :
          Isolated(d, "mnt") /\ l \notin d.limits => Isolated(c, "mnt") /\ l \notin c.limits

Cleaner(d, c) ==
    /\ d.helpers \subseteq c.helpers /\ d.exposed \subseteq c.exposed
    /\ d.programs \subseteq c.programs /\ d.insecure \subseteq c.insecure
    /\ d.suid <= c.suid /\ (d.dotenv => c.dotenv)
    /\ d.dirs <= c.dirs /\ d.accounts <= c.accounts /\ d.disks <= c.disks

\* Process d is c after it has given things up.
Tamer(d, c) ==
    /\ SameIdentity(d, c) /\ FewerRights(d, c) /\ MoreConfined(d, c) /\ Cleaner(d, c)
    /\ \E g : Derives(g, d.mounts, c.mounts)

\* Whether a severe risk is found on a mount the breakout assessment asks for.
OpenProc(r) == \E m \in SevereMounts(r) : m.at = "/proc"
OpenDev(r)  == \E m \in SevereMounts(r) : m.at = "/dev" \/ m.fs = "devtmpfs"
Propagates(r) == \E m \in r.mounts : m.shared

\* Part r comes out no worse than s, for the weights and for all that read it.
Milder(p, r, s) ==
    /\ r.score \in 0 .. 100 /\ s.score \in 0 .. 100
    /\ p # "sysd" => r.score >= s.score
    /\ p = "fs" => /\ r.suid > 0 => s.suid > 0
                   /\ r.programs \subseteq s.programs
                   /\ s.distroless => r.distroless
    /\ p = "ns" => r.shared \subseteq s.shared
    /\ p = "caps" => r.eff \subseteq s.eff
    /\ p = "mounts" => /\ RootfsWritable(r) => RootfsWritable(s)
                       /\ OpenProc(r) => OpenProc(s)
                       /\ OpenDev(r) => OpenDev(s)
                       /\ Propagates(r) => Propagates(s)
    /\ p = "sysd" => r.found = s.found /\ (r.found => r.score >= s.score)

\* Scores are ordered as numbers are.
LEMMA ScoresTransitive ==
    ASSUME NEW a \in 0 .. 100, NEW b \in 0 .. 100, NEW c \in 0 .. 100, a >= b, b >= c
    PROVE  a >= c
OBVIOUS

\* Milder is transitive, for each part.
LEMMA MilderTransitive ==
    ASSUME NEW p, NEW r, NEW s, NEW t, Milder(p, r, s), Milder(p, s, t)
    PROVE  Milder(p, r, t)
<1>1. /\ r.score \in 0 .. 100 /\ s.score \in 0 .. 100 /\ t.score \in 0 .. 100
      /\ p # "sysd" => r.score >= s.score /\ s.score >= t.score
  BY DEF Milder
<1>2. p # "sysd" => r.score >= t.score
  BY <1>1, ScoresTransitive
<1>3. p = "sysd" => r.found = t.found /\ (r.found => r.score >= t.score)
  <2> SUFFICES ASSUME p = "sysd" PROVE r.found = t.found /\ (r.found => r.score >= t.score)
    OBVIOUS
  <2>1. r.found = s.found /\ s.found = t.found
    BY DEF Milder
  <2>2. r.found => r.score >= s.score /\ s.score >= t.score
    BY <2>1 DEF Milder
  <2> QED
    BY <1>1, <2>1, <2>2, ScoresTransitive
<1>4. p = "fs" => (r.suid > 0 => t.suid > 0) /\ r.programs \subseteq t.programs /\ (t.distroless => r.distroless)
  BY DEF Milder
<1>5. p = "ns" => r.shared \subseteq t.shared
  BY DEF Milder
<1>6. p = "caps" => r.eff \subseteq t.eff
  BY DEF Milder
<1>7. p = "mounts" => /\ RootfsWritable(r) => RootfsWritable(t)
                      /\ OpenProc(r) => OpenProc(t)
                      /\ OpenDev(r) => OpenDev(t)
                      /\ Propagates(r) => Propagates(t)
  BY DEF Milder
<1> QED
  BY <1>1, <1>2, <1>3, <1>4, <1>5, <1>6, <1>7 DEF Milder

\* Every process is as tame as itself.
LEMMA TamerReflexive ==
    ASSUME NEW c, Auditable(c)
    PROVE  Tamer(c, c)
<1>1. c.suid \in Nat /\ c.dirs \in Nat /\ c.accounts \in Nat /\ c.disks \in Nat
  BY DEF Auditable, ProcessesWith
<1>2. SameIdentity(c, c) /\ FewerRights(c, c) /\ MoreConfined(c, c) /\ Cleaner(c, c)
  BY <1>1 DEF SameIdentity, FewerRights, MoreConfined, Cleaner
<1> DEFINE g == [x \in c.mounts |-> x]
<1>3. g \in Injection(c.mounts, c.mounts)
  BY Fun_IsInj
<1>4. Derives(g, c.mounts, c.mounts)
  BY <1>3 DEF Derives, Softer
<1> QED
  BY <1>2, <1>4 DEF Tamer

\* Giving up more, after some was given up.
LEMMA TamerTransitive ==
    ASSUME NEW e, NEW d, NEW c, Auditable(e), Auditable(d), Auditable(c), Tamer(e, d), Tamer(d, c)
    PROVE  Tamer(e, c)
<1>1. SameIdentity(e, c)
  BY DEF Tamer, SameIdentity
<1>2. FewerRights(e, c)
  BY DEF Tamer, FewerRights
<1>3. MoreConfined(e, c)
  BY DEF Tamer, MoreConfined
<1>4. Cleaner(e, c)
  <2>1. /\ e.suid \in Nat /\ e.dirs \in Nat /\ e.accounts \in Nat /\ e.disks \in Nat
        /\ d.suid \in Nat /\ d.dirs \in Nat /\ d.accounts \in Nat /\ d.disks \in Nat
        /\ c.suid \in Nat /\ c.dirs \in Nat /\ c.accounts \in Nat /\ c.disks \in Nat
    BY DEF Auditable, ProcessesWith
  <2> QED
    BY <2>1 DEF Tamer, Cleaner
<1>5. \E g : Derives(g, e.mounts, c.mounts)
  <2>1. PICK g : Derives(g, e.mounts, d.mounts)
    BY DEF Tamer
  <2>2. PICK h : Derives(h, d.mounts, c.mounts)
    BY DEF Tamer
  <2> DEFINE j == [x \in e.mounts |-> h[g[x]]]
  <2>3. j \in Injection(e.mounts, c.mounts)
    BY <2>1, <2>2, Fun_InjTransitive DEF Derives
  <2>4. \A x \in e.mounts : g[x] \in d.mounts
    BY <2>1, Fun_InjectionProperties DEF Derives, Injection
  <2>5. ASSUME NEW x \in e.mounts PROVE Softer(x, j[x])
    <3>1. Softer(x, g[x]) /\ Softer(g[x], h[g[x]])
      BY <2>1, <2>2, <2>4 DEF Derives
    <3> QED
      BY <3>1 DEF Softer
  <2>6. Derives(j, e.mounts, c.mounts)
    BY <2>3, <2>5 DEF Derives
  <2> QED
    BY <2>6
<1> QED
  BY <1>1, <1>2, <1>3, <1>4, <1>5 DEF Tamer

(***************************************************************************)
(* The parts, except for mounts.                                           *)
(***************************************************************************)
\* The less is deducted the better the score.
LEMMA ClampKeeps ==
    ASSUME NEW x \in Nat, NEW y \in Nat, x <= y
    PROVE  Clamp(100 - x) >= Clamp(100 - y)
BY DEF Clamp

\* A graver fault costs as much, or more.
LEMMA CostKeeps ==
    ASSUME NEW a, NEW b, a => b, NEW points \in Nat
    PROVE  Cost(a, points) \in Nat /\ Cost(b, points) \in Nat /\ Cost(a, points) <= Cost(b, points)
BY DEF Cost

\* A limit keeps the order.
LEMMA AtMostKeeps ==
    ASSUME NEW x \in Nat, NEW y \in Nat, x <= y, NEW limit \in Nat
    PROVE  AtMost(x, limit) \in Nat /\ AtMost(y, limit) \in Nat /\ AtMost(x, limit) <= AtMost(y, limit)
BY DEF AtMost

\* AuditFilesystem.
LEMMA FilesystemMilder ==
    ASSUME NEW d, NEW c, Auditable(d), Auditable(c), Tamer(d, c)
    PROVE  Milder("fs", AuditFilesystem(d), AuditFilesystem(c))
<1>1. d.peek = c.peek /\ d.pebble = c.pebble /\ d.minimal = c.minimal
  BY DEF Tamer, SameIdentity
<1>2. d.exposed \subseteq c.exposed /\ d.programs \subseteq c.programs /\ d.suid <= c.suid /\ (d.dotenv => c.dotenv)
  BY DEF Tamer, Cleaner
<1>3. d.suid \in Nat /\ c.suid \in Nat /\ c.exposed \subseteq {"shadow", "passwd", "hosts", "resolv.conf"}
  BY DEF Auditable, ProcessesWith
<1>4. AuditFilesystem(d).score \in 0 .. 100 /\ AuditFilesystem(c).score \in 0 .. 100
  BY FilesystemPart
<1>5. CASE ~c.peek
  BY <1>1, <1>4, <1>5 DEF AuditFilesystem, Milder
<1>6. CASE c.peek
  <2> DEFINE lost(x) == AtMost(3 * x.suid, 30) + 15 * Cardinality(x.exposed) + Cost(x.dotenv, 15)
  <2>1. AuditFilesystem(d).score = Clamp(100 - lost(d)) /\ AuditFilesystem(c).score = Clamp(100 - lost(c))
    BY <1>1, <1>6 DEF AuditFilesystem
  <2>2. lost(d) \in Nat /\ lost(c) \in Nat /\ lost(d) <= lost(c)
    <3>1. 3 * d.suid \in Nat /\ 3 * c.suid \in Nat /\ 3 * d.suid <= 3 * c.suid
      BY <1>2, <1>3
    <3>2. /\ AtMost(3 * d.suid, 30) \in Nat /\ AtMost(3 * c.suid, 30) \in Nat
          /\ AtMost(3 * d.suid, 30) <= AtMost(3 * c.suid, 30)
      BY <3>1, AtMostKeeps
    <3>3. IsFiniteSet(c.exposed)
      BY <1>3, NamesFinite, FS_Subset
    <3>4. /\ Cardinality(d.exposed) \in Nat /\ Cardinality(c.exposed) \in Nat
          /\ Cardinality(d.exposed) <= Cardinality(c.exposed)
      BY <1>2, <3>3, FS_Subset, FS_CardinalityType
    <3>5. Cost(d.dotenv, 15) \in Nat /\ Cost(c.dotenv, 15) \in Nat /\ Cost(d.dotenv, 15) <= Cost(c.dotenv, 15)
      BY <1>2, CostKeeps
    <3> QED
      BY <3>2, <3>4, <3>5
  <2> HIDE DEF lost
  <2>3. AuditFilesystem(d).score >= AuditFilesystem(c).score
    BY <2>1, <2>2, ClampKeeps
  <2>4. Distroless(c) => Distroless(d)
    BY <1>1, <1>2 DEF Distroless
  <2>5. /\ AuditFilesystem(d).suid = d.suid /\ AuditFilesystem(c).suid = c.suid
        /\ AuditFilesystem(d).programs = d.programs /\ AuditFilesystem(c).programs = c.programs
        /\ AuditFilesystem(d).distroless = Distroless(d) /\ AuditFilesystem(c).distroless = Distroless(c)
    BY <1>1, <1>6 DEF AuditFilesystem
  <2>6. d.suid > 0 => c.suid > 0
    BY <1>2, <1>3
  <2> QED
    BY <1>2, <1>4, <2>3, <2>4, <2>5, <2>6 DEF Milder
<1> QED
  BY <1>5, <1>6

\* AuditNamespaces.
LEMMA NamespacesMilder ==
    ASSUME NEW d, NEW c, Auditable(d), Auditable(c), Tamer(d, c)
    PROVE  Milder("ns", AuditNamespaces(d), AuditNamespaces(c))
<1> DEFINE shared(x) == IF x.peek THEN x.shared ELSE {}
           in == c.mapped \/ c.boxed
           lost(x, n) == IF n \notin shared(x) THEN 0
                         ELSE IF in THEN SandboxedPenalty[n] ELSE NamespacePenalty[n]
           all(x) == lost(x, "mnt") + lost(x, "pid") + lost(x, "net") + lost(x, "ipc")
                     + lost(x, "uts") + lost(x, "user") + lost(x, "cgroup") + lost(x, "time")
<1>1. d.peek = c.peek /\ d.mapped = c.mapped /\ d.boxed = c.boxed /\ d.shared \subseteq c.shared
  BY DEF Tamer, SameIdentity, FewerRights
<1>2. AuditNamespaces(d).score \in 0 .. 100 /\ AuditNamespaces(c).score \in 0 .. 100
  BY NamespacePart
<1>3. /\ AuditNamespaces(d).score = Clamp(100 - all(d)) /\ AuditNamespaces(d).shared = shared(d)
      /\ AuditNamespaces(c).score = Clamp(100 - all(c)) /\ AuditNamespaces(c).shared = shared(c)
  BY <1>1 DEF AuditNamespaces
<1>4. shared(d) \subseteq shared(c)
  BY <1>1
<1>5. \A n \in Namespaces : lost(d, n) \in Nat /\ lost(c, n) \in Nat /\ lost(d, n) <= lost(c, n)
  <2>1. \A n \in Namespaces : (IF in THEN SandboxedPenalty[n] ELSE NamespacePenalty[n]) \in Nat
    BY DEF Namespaces, SandboxedPenalty, NamespacePenalty
  <2> HIDE DEF in, shared
  <2> QED
    BY <1>4, <2>1
<1> HIDE DEF lost
<1>6. all(d) \in Nat /\ all(c) \in Nat /\ all(d) <= all(c)
  <2> DEFINE a(x) == lost(x, "mnt") + lost(x, "pid")
             b(x) == lost(x, "net") + lost(x, "ipc")
             e(x) == lost(x, "uts") + lost(x, "user")
             f(x) == lost(x, "cgroup") + lost(x, "time")
  <2>1. a(d) \in Nat /\ a(c) \in Nat /\ a(d) <= a(c)
    BY <1>5 DEF Namespaces
  <2>2. b(d) \in Nat /\ b(c) \in Nat /\ b(d) <= b(c)
    BY <1>5 DEF Namespaces
  <2>3. e(d) \in Nat /\ e(c) \in Nat /\ e(d) <= e(c)
    BY <1>5 DEF Namespaces
  <2>4. f(d) \in Nat /\ f(c) \in Nat /\ f(d) <= f(c)
    BY <1>5 DEF Namespaces
  <2>5. all(d) = a(d) + b(d) + e(d) + f(d) /\ all(c) = a(c) + b(c) + e(c) + f(c)
    BY <1>5 DEF Namespaces
  <2> HIDE DEF a, b, e, f, all
  <2> QED
    BY <2>1, <2>2, <2>3, <2>4, <2>5
<1> HIDE DEF all
<1>7. AuditNamespaces(d).score >= AuditNamespaces(c).score
  BY <1>3, <1>6, ClampKeeps
<1> QED
  BY <1>2, <1>3, <1>4, <1>7 DEF Milder

(***************************************************************************)
(* AuditSecurity, whose record is of several moments: what of it must have *)
(* come about by giving things up for the part to be milder.               *)
(***************************************************************************)
\* What the first read of AuditSecurity, and the namespace links, tell.
Steady(d, c) ==
    /\ d.peek = c.peek
    /\ "pid" \in c.shared => "pid" \in d.shared
    /\ c.nnp => d.nnp

\* What is missing or not there is not held against the process.
Fewer(d, c) ==
    /\ d.mapped => c.mapped
    /\ d.setgroups => c.setgroups
    /\ d.oddInit => c.oddInit
    /\ d.gids <= c.gids
    /\ d.seccomp = "off" => c.seccomp = "off"
    /\ d.seccomp = "allow" => c.seccomp \in {"off", "allow"}
    /\ d.helpers \subseteq c.helpers

\* The UIDs and the confinement are those of a process that exists.
Owned(d, c) ==
    /\ d.mapped = c.mapped
    /\ d.root => c.root
    /\ d.lsm = "unconfined" => c.lsm = "unconfined"

\* The limits are of a moment at which the mount namespace was the same.
Limited(d, c) ==
    \A l \in {"memory", "pids"} :
        Isolated(d, "mnt") /\ l \notin d.limits => Isolated(c, "mnt") /\ l \notin c.limits

\* A tamer process has all of it.
LEMMA TamerIsFewer ==
    ASSUME NEW d, NEW c, Auditable(d), Auditable(c), Tamer(d, c)
    PROVE  Steady(d, c) /\ Fewer(d, c) /\ Owned(d, c) /\ Limited(d, c) /\ c.limits \subseteq d.limits
<1>1. d.gids = c.gids /\ c.gids \in Nat
  BY DEF Tamer, SameIdentity, Auditable, ProcessesWith
<1> QED
  BY <1>1 DEF Tamer, SameIdentity, FewerRights, MoreConfined, Cleaner, Steady, Fewer, Owned, Limited

\* What AuditSecurity deducts for the UIDs and the confinement, and for the rest.
OwnReduction(c) == Cost(HostRoot(c), 30) + Cost(c.lsm = "unconfined", 20)
OtherReduction(c, fs) ==
    Cost(~c.nnp /\ fs.suid > 0, 15) + (Cost(c.seccomp = "off", 20) + Cost(c.seccomp = "allow", 15))
    + Cost(c.setgroups /\ c.mapped, 10) + InitReduction(c) + GIDMapReduction(c) + KernelHelperReduction(c)

\* The deductions of AuditSecurity, in three.
LEMMA SecurityScore ==
    ASSUME NEW c, Auditable(c), NEW fs
    PROVE  /\ OwnReduction(c) \in 0 .. 50
           /\ CgroupReduction(c) \in 0 .. 20
           /\ OtherReduction(c, fs) \in Nat
           /\ AuditSecurity(c, fs).score = Clamp(100 - (OwnReduction(c) + CgroupReduction(c) + OtherReduction(c, fs)))
<1> DEFINE host == Cost(HostRoot(c), 30)
           lsm == Cost(c.lsm = "unconfined", 20)
           nnp == Cost(~c.nnp /\ fs.suid > 0, 15)
           off == Cost(c.seccomp = "off", 20)
           allow == Cost(c.seccomp = "allow", 15)
           groups == Cost(c.setgroups /\ c.mapped, 10)
           init == InitReduction(c)
           cgroup == CgroupReduction(c)
           gids == GIDMapReduction(c)
           helpers == KernelHelperReduction(c)
<1>1. host + lsm \in 0 .. 50 /\ cgroup \in 0 .. 20
  BY DEF Cost, CgroupReduction
<1>2. host \in Nat /\ lsm \in Nat /\ nnp \in Nat /\ off \in Nat /\ allow \in Nat /\ groups \in Nat /\ init \in Nat
  BY CostIsNat DEF InitReduction
<1>3. gids \in Nat
  <2>1. c.gids \in Nat
    BY DEF Auditable, ProcessesWith
  <2> QED
    BY <2>1 DEF GIDMapReduction
<1>4. helpers \in Nat
  <2>1. c.helpers \subseteq {"core_pattern", "uevent_helper"}
    BY DEF Auditable, ProcessesWith
  <2>2. Cardinality(c.helpers) \in Nat
    BY <2>1, NamesFinite, FS_Subset, FS_CardinalityType
  <2> QED
    BY <2>2 DEF KernelHelperReduction
<1>5. OwnReduction(c) = host + lsm /\ OtherReduction(c, fs) = nnp + (off + allow) + groups + init + gids + helpers
  BY DEF OwnReduction, OtherReduction
<1>6. AuditSecurity(c, fs).score
        = Clamp(100 - (host + nnp + off + allow + lsm + groups + init + cgroup + gids + helpers))
  BY DEF AuditSecurity
<1> HIDE DEF host, lsm, nnp, off, allow, groups, init, cgroup, gids, helpers
<1>7. cgroup \in Nat /\ CgroupReduction(c) = cgroup
  BY <1>1 DEF cgroup
<1>8. host + nnp + off + allow + lsm + groups + init + cgroup + gids + helpers
        = OwnReduction(c) + cgroup + OtherReduction(c, fs)
  BY <1>2, <1>3, <1>4, <1>5, <1>7
<1>9. OwnReduction(c) \in 0 .. 50 /\ OtherReduction(c, fs) \in Nat
  BY <1>1, <1>2, <1>3, <1>4, <1>5
<1> QED
  BY <1>1, <1>6, <1>7, <1>8, <1>9

\* The rest of the deductions is no more.
LEMMA OtherKeeps ==
    ASSUME NEW d, NEW c, Auditable(d), Auditable(c), Steady(d, c), Fewer(d, c),
           NEW r, NEW s, Milder("fs", r, s)
    PROVE  OtherReduction(d, r) <= OtherReduction(c, s)
<1> DEFINE nnp(x, fs) == Cost(~x.nnp /\ fs.suid > 0, 15)
           seccomp(x) == Cost(x.seccomp = "off", 20) + Cost(x.seccomp = "allow", 15)
           groups(x) == Cost(x.setgroups /\ x.mapped, 10)
           AreLess(a, b) == a \in Nat /\ b \in Nat /\ a <= b
<1>1. AreLess(nnp(d, r), nnp(c, s))
  <2>1. ~d.nnp /\ r.suid > 0 => ~c.nnp /\ s.suid > 0
    BY DEF Steady, Milder
  <2> QED
    BY <2>1, CostKeeps
<1>2. AreLess(seccomp(d), seccomp(c))
  BY DEF Fewer, Cost
<1>3. AreLess(groups(d), groups(c))
  <2>1. d.setgroups /\ d.mapped => c.setgroups /\ c.mapped
    BY DEF Fewer
  <2> QED
    BY <2>1, CostKeeps
<1>4. AreLess(InitReduction(d), InitReduction(c))
  <2>1. Isolated(d, "pid") /\ d.oddInit => Isolated(c, "pid") /\ c.oddInit
    BY DEF Steady, Fewer, Isolated
  <2> QED
    BY <2>1, CostKeeps DEF InitReduction
<1>5. AreLess(GIDMapReduction(d), GIDMapReduction(c))
  <2>1. d.gids \in Nat /\ c.gids \in Nat /\ d.gids <= c.gids /\ (d.mapped => c.mapped)
    BY DEF Auditable, ProcessesWith, Fewer
  <2> QED
    BY <2>1 DEF GIDMapReduction
<1>6. AreLess(KernelHelperReduction(d), KernelHelperReduction(c))
  <2>1. c.helpers \subseteq {"core_pattern", "uevent_helper"} /\ d.helpers \subseteq c.helpers /\ d.peek = c.peek
    BY DEF Auditable, ProcessesWith, Fewer, Steady
  <2>2. IsFiniteSet(c.helpers)
    BY <2>1, NamesFinite, FS_Subset
  <2>3. AreLess(Cardinality(d.helpers), Cardinality(c.helpers))
    BY <2>1, <2>2, FS_Subset, FS_CardinalityType
  <2> QED
    BY <2>1, <2>3 DEF KernelHelperReduction
<1>7. /\ OtherReduction(d, r) = nnp(d, r) + seccomp(d) + groups(d) + InitReduction(d)
                                + GIDMapReduction(d) + KernelHelperReduction(d)
      /\ OtherReduction(c, s) = nnp(c, s) + seccomp(c) + groups(c) + InitReduction(c)
                                + GIDMapReduction(c) + KernelHelperReduction(c)
  BY DEF OtherReduction
<1> HIDE DEF nnp, seccomp, groups
<1> QED
  BY <1>1, <1>2, <1>3, <1>4, <1>5, <1>6, <1>7

\* AuditSecurity, with file systems one milder than the other.
LEMMA SecurityMilder ==
    ASSUME NEW d, NEW c, Auditable(d), Auditable(c), Steady(d, c), Fewer(d, c), Owned(d, c), Limited(d, c),
           NEW r, NEW s, Milder("fs", r, s)
    PROVE  Milder("sec", AuditSecurity(d, r), AuditSecurity(c, s))
<1> DEFINE lost(x, fs) == OwnReduction(x) + CgroupReduction(x) + OtherReduction(x, fs)
<1>1. OwnReduction(d) <= OwnReduction(c)
  BY DEF Owned, OwnReduction, HostRoot, Cost
<1>2. CgroupReduction(d) <= CgroupReduction(c)
  BY DEF Limited, CgroupReduction, Cost
<1>3. OtherReduction(d, r) <= OtherReduction(c, s)
  BY OtherKeeps
<1>a. /\ OwnReduction(d) \in 0 .. 50 /\ CgroupReduction(d) \in 0 .. 20 /\ OtherReduction(d, r) \in Nat
      /\ OwnReduction(c) \in 0 .. 50 /\ CgroupReduction(c) \in 0 .. 20 /\ OtherReduction(c, s) \in Nat
      /\ AuditSecurity(d, r).score = Clamp(100 - lost(d, r)) /\ AuditSecurity(c, s).score = Clamp(100 - lost(c, s))
  BY SecurityScore
<1>4. lost(d, r) \in Nat /\ lost(c, s) \in Nat /\ lost(d, r) <= lost(c, s)
  <2> DEFINE a == OwnReduction(d)
             b == CgroupReduction(d)
             e == OtherReduction(d, r)
             f == OwnReduction(c)
             g == CgroupReduction(c)
             h == OtherReduction(c, s)
  <2>1. a \in Nat /\ b \in Nat /\ e \in Nat /\ f \in Nat /\ g \in Nat /\ h \in Nat
    BY <1>a
  <2>2. a <= f /\ b <= g /\ e <= h
    BY <1>1, <1>2, <1>3
  <2> HIDE DEF a, b, e, f, g, h
  <2>3. a + b + e \in Nat /\ f + g + h \in Nat /\ a + b + e <= f + g + h
    BY <2>1, <2>2
  <2> QED
    BY <2>3 DEF a, b, e, f, g, h
<1> HIDE DEF lost
<1>5. AuditSecurity(d, r).score >= AuditSecurity(c, s).score
  BY <1>4, <1>a, ClampKeeps
<1>6. AuditSecurity(d, r).score \in 0 .. 100 /\ AuditSecurity(c, s).score \in 0 .. 100
  BY SecurityPart
<1> QED
  BY <1>5, <1>6 DEF Milder

\* At most fifty points are between the two parts.
Near(r, s) == r.score \in 0 .. 100 /\ s.score \in 0 .. 100 /\ r.score + 50 >= s.score

\* Even with one of the two missing: root on the host without confinement, or
\* without limits, is what is held against the process at most.
LEMMA SecurityNear ==
    ASSUME NEW d, NEW c, Auditable(d), Auditable(c), Steady(d, c), Fewer(d, c), Owned(d, c) \/ Limited(d, c),
           NEW r, NEW s, Milder("fs", r, s)
    PROVE  Near(AuditSecurity(d, r), AuditSecurity(c, s))
<1> DEFINE lost(x, fs) == OwnReduction(x) + CgroupReduction(x) + OtherReduction(x, fs)
<1>1. Owned(d, c) => OwnReduction(d) <= OwnReduction(c)
  BY DEF Owned, OwnReduction, HostRoot, Cost
<1>2. Limited(d, c) => CgroupReduction(d) <= CgroupReduction(c)
  BY DEF Limited, CgroupReduction, Cost
<1>3. OtherReduction(d, r) <= OtherReduction(c, s)
  BY OtherKeeps
<1>a. /\ OwnReduction(d) \in 0 .. 50 /\ CgroupReduction(d) \in 0 .. 20 /\ OtherReduction(d, r) \in Nat
      /\ OwnReduction(c) \in 0 .. 50 /\ CgroupReduction(c) \in 0 .. 20 /\ OtherReduction(c, s) \in Nat
      /\ AuditSecurity(d, r).score = Clamp(100 - lost(d, r)) /\ AuditSecurity(c, s).score = Clamp(100 - lost(c, s))
  BY SecurityScore
<1>4. lost(d, r) \in Nat /\ lost(c, s) \in Nat /\ lost(d, r) <= lost(c, s) + 50
  <2> DEFINE a == OwnReduction(d)
             b == CgroupReduction(d)
             e == OtherReduction(d, r)
             f == OwnReduction(c)
             g == CgroupReduction(c)
             h == OtherReduction(c, s)
  <2>1. a \in 0 .. 50 /\ b \in 0 .. 20 /\ e \in Nat /\ f \in 0 .. 50 /\ g \in 0 .. 20 /\ h \in Nat
    BY <1>a
  <2>2. (a <= f \/ b <= g) /\ e <= h
    BY <1>1, <1>2, <1>3
  <2> HIDE DEF a, b, e, f, g, h
  <2>3. a + b + e \in Nat /\ f + g + h \in Nat /\ a + b + e <= (f + g + h) + 50
    BY <2>1, <2>2
  <2> QED
    BY <2>3 DEF a, b, e, f, g, h
<1> HIDE DEF lost
<1>5. Clamp(100 - lost(d, r)) + 50 >= Clamp(100 - lost(c, s))
  BY <1>4 DEF Clamp
<1>6. AuditSecurity(d, r).score \in 0 .. 100 /\ AuditSecurity(c, s).score \in 0 .. 100
  BY SecurityPart
<1> QED
  BY <1>5, <1>6, <1>a DEF Near

\* AuditEnv, AuditFD and AuditSystemd.
LEMMA RestMilder ==
    ASSUME NEW d, NEW c, Auditable(d), Auditable(c), Tamer(d, c)
    PROVE  /\ Milder("env", AuditEnv(d), AuditEnv(c))
           /\ Milder("fd", AuditFD(d), AuditFD(c))
           /\ \A unit : Milder("sysd", AuditSystemd(d, unit), AuditSystemd(c, unit))
<1>1. /\ d.peek = c.peek /\ d.secrets = c.secrets
      /\ d.dirs <= c.dirs /\ d.accounts <= c.accounts /\ d.disks <= c.disks
      /\ d.insecure \subseteq c.insecure
  BY DEF Tamer, SameIdentity, Cleaner
<1>2. /\ d.dirs \in Nat /\ d.accounts \in Nat /\ d.disks \in Nat
      /\ c.dirs \in Nat /\ c.accounts \in Nat /\ c.disks \in Nat /\ c.secrets \in Nat
  BY DEF Auditable, ProcessesWith
<1>3. Milder("env", AuditEnv(d), AuditEnv(c))
  <2>1. AuditEnv(d).score \in 0 .. 100 /\ AuditEnv(c).score \in 0 .. 100
    BY EnvPart
  <2>2. AuditEnv(d).score = AuditEnv(c).score
    BY <1>1 DEF AuditEnv
  <2> QED
    BY <2>1, <2>2 DEF Milder
<1>4. Milder("fd", AuditFD(d), AuditFD(c))
  <2>1. AuditFD(d).score \in 0 .. 100 /\ AuditFD(c).score \in 0 .. 100
    BY FDPart
  <2>2. AuditFD(d).score >= AuditFD(c).score
    <3> DEFINE lost(x) == 15 * x.dirs + 20 * x.accounts + 25 * x.disks
    <3>1. lost(d) \in Nat /\ lost(c) \in Nat /\ lost(d) <= lost(c)
      BY <1>1, <1>2
    <3>2. CASE c.peek
      <4>1. AuditFD(d).score = Clamp(100 - lost(d)) /\ AuditFD(c).score = Clamp(100 - lost(c))
        BY <1>1, <3>2 DEF AuditFD
      <4> HIDE DEF lost
      <4> QED
        BY <3>1, <4>1, ClampKeeps
    <3>3. CASE ~c.peek
      BY <1>1, <3>3 DEF AuditFD
    <3> QED
      BY <3>2, <3>3
  <2> QED
    BY <2>1, <2>2 DEF Milder
<1>5. ASSUME NEW unit PROVE Milder("sysd", AuditSystemd(d, unit), AuditSystemd(c, unit))
  <2> DEFINE lost(x) == 10 * Cardinality(x.insecure \cap TenPoints) + 5 * Cardinality(x.insecure \cap FivePoints)
             score(x) == CASE unit = "absent" -> 50
                           [] unit = "file" -> Clamp(100 - lost(x))
                           [] OTHER -> 0
  <2>1. AuditSystemd(d, unit).score \in 0 .. 100 /\ AuditSystemd(c, unit).score \in 0 .. 100
    BY SystemdPart
  <2>2. /\ AuditSystemd(d, unit).found = AuditSystemd(c, unit).found
        /\ AuditSystemd(d, unit).score = score(d) /\ AuditSystemd(c, unit).score = score(c)
    BY DEF AuditSystemd
  <2>3. lost(d) \in Nat /\ lost(c) \in Nat /\ lost(d) <= lost(c)
    <3> DEFINE n(x, S) == Cardinality(x.insecure \cap S)
    <3>1. ASSUME NEW S, IsFiniteSet(S)
          PROVE  n(d, S) \in Nat /\ n(c, S) \in Nat /\ n(d, S) <= n(c, S)
      <4>1. IsFiniteSet(c.insecure \cap S) /\ d.insecure \cap S \subseteq c.insecure \cap S
        BY <1>1, <3>1, FS_Subset
      <4> QED
        BY <4>1, FS_Subset, FS_CardinalityType
    <3>2. /\ n(d, TenPoints) \in Nat /\ n(c, TenPoints) \in Nat /\ n(d, TenPoints) <= n(c, TenPoints)
          /\ n(d, FivePoints) \in Nat /\ n(c, FivePoints) \in Nat /\ n(d, FivePoints) <= n(c, FivePoints)
      BY <3>1, NamesFinite
    <3> QED
      BY <3>2
  <2> HIDE DEF lost
  <2>4. Clamp(100 - lost(d)) >= Clamp(100 - lost(c))
    BY <2>3, ClampKeeps
  <2>5. score(d) >= score(c)
    BY <2>4
  <2> QED
    BY <2>1, <2>2, <2>5 DEF Milder
<1> QED
  BY <1>3, <1>4, <1>5

(***************************************************************************)
(* Counts by level.  What an audit deducts for the findings of each level  *)
(* grows with the number of those of a level or of a worse one.            *)
(***************************************************************************)
Grades == Levels \cup {"Info"}

Rank == [Info |-> 0, Low |-> 1, Medium |-> 2, High |-> 3, Critical |-> 4]

\* How many of S are of this level; and how many are of this rank or above.
Count(S, level, l) == Cardinality({x \in S : level[x] = l})
Tally(S, level, r) == Cardinality({x \in S : Rank[level[x]] >= r})

\* What each of S becomes in T is as bad or worse, and no two become the same.
Worsens(h, S, a, T, b) ==
    /\ \A x, y \in S : h[x] = h[y] => x = y
    /\ \A x \in S : h[x] \in T /\ Rank[a[x]] <= Rank[b[h[x]]]

\* Each level is a layer on those above it.
LEMMA Layers ==
    ASSUME NEW S, IsFiniteSet(S), NEW level, \A x \in S : level[x] \in Grades
    PROVE  /\ \A l \in Grades : Count(S, level, l) \in Nat
           /\ Tally(S, level, 4) = Count(S, level, "Critical")
           /\ Tally(S, level, 3) = Count(S, level, "High") + Tally(S, level, 4)
           /\ Tally(S, level, 2) = Count(S, level, "Medium") + Tally(S, level, 3)
           /\ Tally(S, level, 1) = Count(S, level, "Low") + Tally(S, level, 2)
<1> DEFINE Of(l) == {x \in S : level[x] = l}
           From(r) == {x \in S : Rank[level[x]] >= r}
<1>1. \A l : IsFiniteSet(Of(l))
  BY FS_Subset
<1>2. \A r : IsFiniteSet(From(r))
  BY FS_Subset
<1>3. ASSUME NEW A, NEW B, IsFiniteSet(A), IsFiniteSet(B), A \cap B = {}
      PROVE  Cardinality(A \cup B) = Cardinality(A) + Cardinality(B)
  <2>1. Cardinality(A \cup B) = Cardinality(A) + Cardinality(B) - Cardinality(A \cap B)
    BY <1>3, FS_Union
  <2>2. Cardinality(A \cap B) = 0
    BY <1>3, FS_EmptySet
  <2>3. Cardinality(A) \in Nat /\ Cardinality(B) \in Nat
    BY <1>3, FS_CardinalityType
  <2> QED
    BY <2>1, <2>2, <2>3
<1>4. From(4) = Of("Critical")
  BY DEF Grades, Levels, Rank
<1>5. From(3) = Of("High") \cup From(4) /\ Of("High") \cap From(4) = {}
  BY DEF Grades, Levels, Rank
<1>6. From(2) = Of("Medium") \cup From(3) /\ Of("Medium") \cap From(3) = {}
  BY DEF Grades, Levels, Rank
<1>7. From(1) = Of("Low") \cup From(2) /\ Of("Low") \cap From(2) = {}
  BY DEF Grades, Levels, Rank
<1>8. \A r : Tally(S, level, r) = Cardinality(From(r))
  BY DEF Tally
<1>9. \A l : Count(S, level, l) = Cardinality(Of(l))
  BY DEF Count
<1>10. \A l \in Grades : Count(S, level, l) \in Nat
  BY <1>1, <1>9, FS_CardinalityType
<1> HIDE DEF Of, From
<1>11. Tally(S, level, 4) = Count(S, level, "Critical")
  BY <1>4, <1>8, <1>9
<1>12. Tally(S, level, 3) = Count(S, level, "High") + Tally(S, level, 4)
  BY <1>1, <1>2, <1>3, <1>5, <1>8, <1>9
<1>13. Tally(S, level, 2) = Count(S, level, "Medium") + Tally(S, level, 3)
  BY <1>1, <1>2, <1>3, <1>6, <1>8, <1>9
<1>14. Tally(S, level, 1) = Count(S, level, "Low") + Tally(S, level, 2)
  BY <1>1, <1>2, <1>3, <1>7, <1>8, <1>9
<1> QED
  BY <1>10, <1>11, <1>12, <1>13, <1>14

\* The counts from each rank on grow.
LEMMA TallyKeeps ==
    ASSUME NEW S, NEW T, IsFiniteSet(T), NEW a, NEW b, \A x \in S : a[x] \in Grades,
           \A x \in T : b[x] \in Grades, NEW h, Worsens(h, S, a, T, b), NEW r \in 1 .. 4
    PROVE  Tally(S, a, r) <= Tally(T, b, r)
<1> DEFINE A == {x \in S : Rank[a[x]] >= r}
           B == {x \in T : Rank[b[x]] >= r}
           j == [x \in A |-> h[x]]
<1>1. \A l \in Grades : Rank[l] \in 0 .. 4
  BY DEF Grades, Levels, Rank
<1>2. \A x \in A : h[x] \in B
  <2> SUFFICES ASSUME NEW x \in A PROVE h[x] \in T /\ Rank[b[h[x]]] >= r
    OBVIOUS
  <2>1. h[x] \in T /\ Rank[a[x]] <= Rank[b[h[x]]] /\ Rank[a[x]] >= r
    BY DEF Worsens
  <2>2. Rank[a[x]] \in 0 .. 4 /\ Rank[b[h[x]]] \in 0 .. 4
    BY <1>1, <2>1
  <2> QED
    BY <2>1, <2>2
<1>3. j \in [A -> B] /\ \A x, y \in A : j[x] = j[y] => x = y
  BY <1>2 DEF Worsens
<1>4. j \in Injection(A, B)
  BY <1>3 DEF Injection, IsInjective
<1>5. IsFiniteSet(B)
  BY FS_Subset
<1>6. Cardinality(A) <= Cardinality(B)
  BY <1>4, <1>5, FS_Injection
<1> QED
  BY <1>6 DEF Tally

\* Level by level: there may be fewer of one only with as many more of the worse ones.
LEMMA CountsKeep ==
    ASSUME NEW S, IsFiniteSet(S), NEW T, IsFiniteSet(T), NEW a, NEW b, \A x \in S : a[x] \in Grades,
           \A x \in T : b[x] \in Grades, NEW h, Worsens(h, S, a, T, b)
    PROVE  /\ \A l \in Levels : Count(S, a, l) \in Nat /\ Count(T, b, l) \in Nat
           /\ Count(S, a, "Critical") <= Count(T, b, "Critical")
           /\ Count(S, a, "Critical") + Count(S, a, "High") <= Count(T, b, "Critical") + Count(T, b, "High")
           /\ Count(S, a, "Critical") + Count(S, a, "High") + Count(S, a, "Medium")
                  <= Count(T, b, "Critical") + Count(T, b, "High") + Count(T, b, "Medium")
           /\ Count(S, a, "Critical") + Count(S, a, "High") + Count(S, a, "Medium") + Count(S, a, "Low")
                  <= Count(T, b, "Critical") + Count(T, b, "High") + Count(T, b, "Medium") + Count(T, b, "Low")
<1>1. \A r \in 1 .. 4 : Tally(S, a, r) <= Tally(T, b, r)
  BY TallyKeeps
<1>2. Tally(S, a, 1) <= Tally(T, b, 1) /\ Tally(S, a, 2) <= Tally(T, b, 2)
      /\ Tally(S, a, 3) <= Tally(T, b, 3) /\ Tally(S, a, 4) <= Tally(T, b, 4)
  BY <1>1
<1>3. \A l \in Levels : Count(S, a, l) \in Nat /\ Count(T, b, l) \in Nat
  BY Layers DEF Grades
<1>4. /\ Tally(S, a, 4) = Count(S, a, "Critical")
      /\ Tally(S, a, 3) = Count(S, a, "High") + Tally(S, a, 4)
      /\ Tally(S, a, 2) = Count(S, a, "Medium") + Tally(S, a, 3)
      /\ Tally(S, a, 1) = Count(S, a, "Low") + Tally(S, a, 2)
  BY Layers
<1>5. /\ Tally(T, b, 4) = Count(T, b, "Critical")
      /\ Tally(T, b, 3) = Count(T, b, "High") + Tally(T, b, 4)
      /\ Tally(T, b, 2) = Count(T, b, "Medium") + Tally(T, b, 3)
      /\ Tally(T, b, 1) = Count(T, b, "Low") + Tally(T, b, 2)
  BY Layers
<1>6. /\ Count(S, a, "Critical") \in Nat /\ Count(S, a, "High") \in Nat
      /\ Count(S, a, "Medium") \in Nat /\ Count(S, a, "Low") \in Nat
      /\ Count(T, b, "Critical") \in Nat /\ Count(T, b, "High") \in Nat
      /\ Count(T, b, "Medium") \in Nat /\ Count(T, b, "Low") \in Nat
  BY <1>3 DEF Levels
<1> QED
  BY <1>2, <1>3, <1>4, <1>5, <1>6

\* The level of a capability, in roots one milder than the other.
LEMMA LevelKeeps ==
    ASSUME NEW d, NEW c, Tamer(d, c), NEW r, NEW s, Milder("fs", r, s), NEW k \in Capabilities
    PROVE  Rank[EffectiveLevel(k, d, r)] <= Rank[EffectiveLevel(k, c, s)]
<1>1. d.mapped = c.mapped /\ d.boxed = c.boxed
  BY DEF Tamer, SameIdentity
<1>2. r.programs \subseteq s.programs /\ (s.distroless => r.distroless)
  BY DEF Milder
<1> DEFINE level == CapabilityLevel(k)
<1>3. level \in {"Critical", "High", "Medium"}
  <2>1. \E l \in {"Critical", "High", "Medium"} : k \in RiskDatabase[l]
    BY DEF Capabilities, RiskDatabase
  <2>2. DOMAIN RiskDatabase = {"Critical", "High", "Medium"}
    BY DEF RiskDatabase
  <2> QED
    BY <2>1, <2>2 DEF CapabilityLevel
<1>4. CASE c.mapped \/ c.boxed
  BY <1>1, <1>3, <1>4 DEF EffectiveLevel, Rank
<1>5. CASE ~(c.mapped \/ c.boxed)
  <2> DEFINE Downgraded(fs) ==
               CASE fs.distroless /\ k = "CAP_SYS_CHROOT" /\ "chroot" \notin fs.programs -> "Low"
                 [] fs.distroless /\ k = "CAP_MKNOD" /\ "mknod" \notin fs.programs -> "Medium"
                 [] fs.distroless /\ k = "CAP_NET_RAW" /\ fs.programs \cap NetworkScans = {} -> "Low"
                 [] OTHER -> level
  <2>1. EffectiveLevel(k, d, r) = Downgraded(r) /\ EffectiveLevel(k, c, s) = Downgraded(s)
    BY <1>1, <1>5 DEF EffectiveLevel
  <2> HIDE DEF level
  <2>2. CASE s.distroless /\ k = "CAP_SYS_CHROOT" /\ "chroot" \notin s.programs
    <3>1. Downgraded(s) = "Low" /\ Downgraded(r) = "Low"
      BY <1>2, <2>2
    <3> QED
      BY <2>1, <3>1 DEF Rank
  <2>3. CASE s.distroless /\ k = "CAP_MKNOD" /\ "mknod" \notin s.programs
    <3>1. Downgraded(s) = "Medium" /\ Downgraded(r) = "Medium"
      BY <1>2, <2>3
    <3> QED
      BY <2>1, <3>1 DEF Rank
  <2>4. CASE s.distroless /\ k = "CAP_NET_RAW" /\ s.programs \cap NetworkScans = {}
    <3>1. Downgraded(s) = "Low" /\ Downgraded(r) = "Low"
      BY <1>2, <2>4
    <3> QED
      BY <2>1, <3>1 DEF Rank
  <2>5. CASE /\ ~(s.distroless /\ k = "CAP_SYS_CHROOT" /\ "chroot" \notin s.programs)
             /\ ~(s.distroless /\ k = "CAP_MKNOD" /\ "mknod" \notin s.programs)
             /\ ~(s.distroless /\ k = "CAP_NET_RAW" /\ s.programs \cap NetworkScans = {})
    <3>1. Downgraded(s) = level
      BY <2>5
    <3>2. Downgraded(r) \in {level, "Low", "Medium"}
      OBVIOUS
    <3> QED
      BY <1>3, <2>1, <3>1, <3>2 DEF Rank
  <2> QED
    BY <2>2, <2>3, <2>4, <2>5
<1> QED
  BY <1>4, <1>5

\* AuditCapabilities, with file systems one milder than the other.
LEMMA CapabilitiesMilder ==
    ASSUME NEW d, NEW c, Auditable(d), Auditable(c), Tamer(d, c), NEW r, NEW s, Milder("fs", r, s)
    PROVE  Milder("caps", AuditCapabilities(d, r), AuditCapabilities(c, s))
<1> DEFINE S == AuditedCapabilities(d)
           T == AuditedCapabilities(c)
           a == [k \in S |-> EffectiveLevel(k, d, r)]
           b == [k \in T |-> EffectiveLevel(k, c, s)]
           h == [k \in S |-> k]
           lost(X, level) == 30 * Count(X, level, "Critical") + 20 * Count(X, level, "High")
                             + 10 * Count(X, level, "Medium") + 3 * Count(X, level, "Low")
<1>1. S \subseteq T /\ d.eff \subseteq c.eff
  BY DEF Tamer, FewerRights
<1>2. S \subseteq Capabilities /\ T \subseteq Capabilities
  BY DEF AuditedCapabilities, Auditable, ProcessesWith
<1>3. IsFiniteSet(S) /\ IsFiniteSet(T)
  BY <1>2, NamesFinite, FS_Subset
<1>4. a \in [S -> Grades] /\ b \in [T -> Grades]
  BY <1>2, LevelCosts DEF Grades
<1>5. \A k \in S : Rank[a[k]] <= Rank[b[h[k]]]
  <2> TAKE k \in S
  <2>1. a[k] = EffectiveLevel(k, d, r) /\ b[h[k]] = EffectiveLevel(k, c, s)
    BY <1>1
  <2> QED
    BY <1>2, <2>1, LevelKeeps
<1>6. Worsens(h, S, a, T, b)
  BY <1>1, <1>5 DEF Worsens
<1>7. /\ AuditCapabilities(d, r).score = Clamp(100 - lost(S, a))
      /\ AuditCapabilities(c, s).score = Clamp(100 - lost(T, b))
  <2>1. \A l : {k \in S : EffectiveLevel(k, d, r) = l} = {k \in S : a[k] = l}
    OBVIOUS
  <2>2. \A l : {k \in T : EffectiveLevel(k, c, s) = l} = {k \in T : b[k] = l}
    OBVIOUS
  <2> HIDE DEF a, b
  <2> QED
    BY <2>1, <2>2 DEF AuditCapabilities, Count
<1>8. AuditCapabilities(d, r).eff = d.eff /\ AuditCapabilities(c, s).eff = c.eff
  BY DEF AuditCapabilities
<1>9. AuditCapabilities(d, r).score \in 0 .. 100 /\ AuditCapabilities(c, s).score \in 0 .. 100
  BY CapabilityPart
<1> HIDE DEF S, T, a, b, h
<1>10. lost(S, a) \in Nat /\ lost(T, b) \in Nat /\ lost(S, a) <= lost(T, b)
  <2> DEFINE n(X, level, l) == Count(X, level, l)
  <2>1. /\ n(S, a, "Critical") <= n(T, b, "Critical")
        /\ n(S, a, "Critical") + n(S, a, "High") <= n(T, b, "Critical") + n(T, b, "High")
        /\ n(S, a, "Critical") + n(S, a, "High") + n(S, a, "Medium")
               <= n(T, b, "Critical") + n(T, b, "High") + n(T, b, "Medium")
        /\ n(S, a, "Critical") + n(S, a, "High") + n(S, a, "Medium") + n(S, a, "Low")
               <= n(T, b, "Critical") + n(T, b, "High") + n(T, b, "Medium") + n(T, b, "Low")
    BY <1>3, <1>4, <1>6, CountsKeep
  <2>2. \A l \in Levels : n(S, a, l) \in Nat /\ n(T, b, l) \in Nat
    BY <1>3, <1>4, <1>6, CountsKeep
  <2>3. /\ n(S, a, "Critical") \in Nat /\ n(S, a, "High") \in Nat
        /\ n(S, a, "Medium") \in Nat /\ n(S, a, "Low") \in Nat
        /\ n(T, b, "Critical") \in Nat /\ n(T, b, "High") \in Nat
        /\ n(T, b, "Medium") \in Nat /\ n(T, b, "Low") \in Nat
    BY <2>2 DEF Levels
  <2> QED
    BY <2>1, <2>3
<1> HIDE DEF lost
<1>11. AuditCapabilities(d, r).score >= AuditCapabilities(c, s).score
  BY <1>7, <1>10, ClampKeeps
<1> QED
  BY <1>1, <1>8, <1>9, <1>11 DEF Milder

(***************************************************************************)
(* Mounts.                                                                 *)
(***************************************************************************)
\* Mount m has a risk of this kind, about this flag or weakness.
Applies(m, kind, what) ==
    CASE kind = "docker_socket" -> what = "" /\ m.socket
      [] kind \in {"proc", "sys", "dev", "libmodules", "root_rw"} -> what = "" /\ IsRW(m) /\ Place(m) = kind
      [] kind = "tmpfs_scratch" -> what \in Flags \ m.flags /\ IsRW(m) /\ m.at = "scratch"
      [] kind = "host_root_mount" -> what = "" /\ IsRW(m) /\ m.at = "/host"
      [] kind \in Flags -> what = kind /\ what \notin m.flags /\ IsRW(m) /\ IsExternal(m)
      [] kind = "nfs" -> what \in Weaknesses \cap m.weak /\ m.fs = "nfs"
      [] kind = "shared" -> what = "" /\ IsRW(m) /\ m.shared
      [] OTHER -> FALSE

\* And this is its level.
Grade(m, kind, what, c, eff) ==
    CASE kind = "docker_socket" -> "Critical"
      [] kind \in {"proc", "sys", "dev", "libmodules", "root_rw"} -> PlaceLevel(m, c, eff)
      [] kind \in Flags -> FlagLevel(what, c)
      [] kind = "host_root_mount" -> "High"
      [] kind = "nfs" -> WeakLevel(what)
      [] kind = "shared" -> SharedLevel(c, eff)
      [] OTHER -> "Low"

Risk(m, kind, what, c, eff) == Finding(m, kind, what, Grade(m, kind, what, c, eff))

\* The findings are the risks that apply.
LEMMA FindingsAreRisks ==
    ASSUME NEW c, NEW eff
    PROVE  /\ \A f \in Findings(c, eff) :
                /\ f.mount \in c.mounts /\ f.kind \in Kinds
                /\ Applies(f.mount, f.kind, f.what)
                /\ f = Risk(f.mount, f.kind, f.what, c, eff)
           /\ \A m \in c.mounts : \A kind, what :
                Applies(m, kind, what) => Risk(m, kind, what, c, eff) \in Findings(c, eff)
<1> DEFINE writable == {m \in c.mounts : IsRW(m)}
           lacking(S) == {p \in S \X Flags : p[2] \notin p[1].flags}
           A == {Finding(m, "docker_socket", "", "Critical") : m \in {n \in c.mounts : n.socket}}
           B == {Finding(m, Place(m), "", PlaceLevel(m, c, eff)) : m \in {n \in writable : Place(n) # "none"}}
           C == {Finding(p[1], "tmpfs_scratch", p[2], "Low") : p \in lacking({m \in writable : m.at = "scratch"})}
           D == {Finding(m, "host_root_mount", "", "High") : m \in {n \in writable : n.at = "/host"}}
           E == {Finding(p[1], p[2], p[2], FlagLevel(p[2], c)) : p \in lacking({m \in writable : IsExternal(m)})}
           F == {Finding(p[1], "nfs", p[2], WeakLevel(p[2])) :
                    p \in {q \in {m \in c.mounts : m.fs = "nfs"} \X {"sec", "noresvport", "udp", "v3"} :
                             q[2] \in q[1].weak}}
           H == {Finding(m, "shared", "", SharedLevel(c, eff)) : m \in {n \in writable : n.shared}}
           Is(f) == \E m \in c.mounts, k \in Kinds : \E w :
                       f = Risk(m, k, w, c, eff) /\ Applies(m, k, w)
           places == {"proc", "sys", "dev", "libmodules", "root_rw"}
<1>1. Findings(c, eff) = UNION {A, B, C, D, E, F, H}
  BY DEF Findings
<1>2. \A m : Place(m) \in places \cup {"none"}
  BY DEF Place
<1>3. ASSUME NEW f \in Findings(c, eff) PROVE Is(f)
  <2>1. CASE f \in A
    <3>1. PICK m \in c.mounts : f = Finding(m, "docker_socket", "", "Critical") /\ m.socket
      BY <2>1
    <3>2. f = Risk(m, "docker_socket", "", c, eff) /\ Applies(m, "docker_socket", "")
      BY <3>1 DEF Risk, Grade, Applies, Flags
    <3> QED
      BY <3>2 DEF Kinds, EscapeKinds
  <2>2. CASE f \in B
    <3>1. PICK m \in c.mounts : f = Finding(m, Place(m), "", PlaceLevel(m, c, eff)) /\ IsRW(m) /\ Place(m) # "none"
      BY <2>2
    <3>2. Place(m) \in places
      BY <1>2, <3>1
    <3>3. f = Risk(m, Place(m), "", c, eff) /\ Applies(m, Place(m), "")
      BY <3>1, <3>2 DEF Risk, Grade, Applies, Flags
    <3> QED
      BY <3>2, <3>3 DEF Kinds, EscapeKinds, OtherKinds
  <2>3. CASE f \in C
    <3>1. PICK m \in c.mounts, w \in Flags : /\ f = Finding(m, "tmpfs_scratch", w, "Low")
                                            /\ IsRW(m) /\ m.at = "scratch" /\ w \notin m.flags
      BY <2>3
    <3>2. f = Risk(m, "tmpfs_scratch", w, c, eff) /\ Applies(m, "tmpfs_scratch", w)
      BY <3>1 DEF Risk, Grade, Applies, Flags
    <3> QED
      BY <3>2 DEF Kinds, OtherKinds
  <2>4. CASE f \in D
    <3>1. PICK m \in c.mounts : f = Finding(m, "host_root_mount", "", "High") /\ IsRW(m) /\ m.at = "/host"
      BY <2>4
    <3>2. f = Risk(m, "host_root_mount", "", c, eff) /\ Applies(m, "host_root_mount", "")
      BY <3>1 DEF Risk, Grade, Applies, Flags
    <3> QED
      BY <3>2 DEF Kinds, EscapeKinds
  <2>5. CASE f \in E
    <3>1. PICK m \in c.mounts, w \in Flags : /\ f = Finding(m, w, w, FlagLevel(w, c))
                                            /\ IsRW(m) /\ IsExternal(m) /\ w \notin m.flags
      BY <2>5
    <3>2. f = Risk(m, w, w, c, eff) /\ Applies(m, w, w)
      BY <3>1 DEF Risk, Grade, Applies, Flags
    <3>3. w \in Kinds
      BY DEF Flags, Kinds, OtherKinds
    <3> QED
      BY <3>2, <3>3
  <2>6. CASE f \in F
    <3>1. PICK m \in c.mounts, w \in Weaknesses : f = Finding(m, "nfs", w, WeakLevel(w)) /\ m.fs = "nfs" /\ w \in m.weak
      BY <2>6 DEF Weaknesses
    <3>2. f = Risk(m, "nfs", w, c, eff) /\ Applies(m, "nfs", w)
      BY <3>1 DEF Risk, Grade, Applies, Flags
    <3> QED
      BY <3>2 DEF Kinds, OtherKinds
  <2>7. CASE f \in H
    <3>1. PICK m \in c.mounts : f = Finding(m, "shared", "", SharedLevel(c, eff)) /\ IsRW(m) /\ m.shared
      BY <2>7
    <3>2. f = Risk(m, "shared", "", c, eff) /\ Applies(m, "shared", "")
      BY <3>1 DEF Risk, Grade, Applies, Flags
    <3> QED
      BY <3>2 DEF Kinds, OtherKinds
  <2> HIDE DEF A, B, C, D, E, F, H
  <2> QED
    BY <1>1, <2>1, <2>2, <2>3, <2>4, <2>5, <2>6, <2>7
<1>4. ASSUME NEW f \in Findings(c, eff)
      PROVE  /\ f.mount \in c.mounts /\ f.kind \in Kinds
             /\ Applies(f.mount, f.kind, f.what)
             /\ f = Risk(f.mount, f.kind, f.what, c, eff)
  <2>0. PICK m \in c.mounts, k \in Kinds : \E w : f = Risk(m, k, w, c, eff) /\ Applies(m, k, w)
    BY <1>3
  <2>1. PICK w : f = Risk(m, k, w, c, eff) /\ Applies(m, k, w)
    BY <2>0
  <2>2. f.mount = m /\ f.kind = k /\ f.what = w
    BY <2>1 DEF Risk, Finding
  <2> QED
    BY <2>1, <2>2
<1>5. ASSUME NEW m \in c.mounts, NEW k, NEW w, Applies(m, k, w)
      PROVE  Risk(m, k, w, c, eff) \in Findings(c, eff)
  <2>1. CASE k = "docker_socket"
    <3>1. Risk(m, k, w, c, eff) = Finding(m, "docker_socket", "", "Critical") /\ m.socket
      BY <1>5, <2>1 DEF Risk, Grade, Applies, Flags
    <3>2. Risk(m, k, w, c, eff) \in A
      BY <3>1
    <3> QED
      BY <1>1, <3>2
  <2>2. CASE k \in places
    <3>1. Risk(m, k, w, c, eff) = Finding(m, Place(m), "", PlaceLevel(m, c, eff)) /\ IsRW(m) /\ Place(m) # "none"
      BY <1>5, <2>2 DEF Risk, Grade, Applies, Flags
    <3>2. Risk(m, k, w, c, eff) \in B
      BY <3>1
    <3> QED
      BY <1>1, <3>2
  <2>3. CASE k = "tmpfs_scratch"
    <3>1. /\ Risk(m, k, w, c, eff) = Finding(m, "tmpfs_scratch", w, "Low")
          /\ w \in Flags /\ w \notin m.flags /\ IsRW(m) /\ m.at = "scratch"
      BY <1>5, <2>3 DEF Risk, Grade, Applies, Flags
    <3>2. <<m, w>> \in lacking({n \in writable : n.at = "scratch"})
      BY <3>1
    <3>3. Risk(m, k, w, c, eff) \in C
      BY <3>1, <3>2
    <3> QED
      BY <1>1, <3>3
  <2>4. CASE k = "host_root_mount"
    <3>1. Risk(m, k, w, c, eff) = Finding(m, "host_root_mount", "", "High") /\ IsRW(m) /\ m.at = "/host"
      BY <1>5, <2>4 DEF Risk, Grade, Applies, Flags
    <3>2. Risk(m, k, w, c, eff) \in D
      BY <3>1
    <3> QED
      BY <1>1, <3>2
  <2>5. CASE k \in Flags
    <3>1. /\ Risk(m, k, w, c, eff) = Finding(m, w, w, FlagLevel(w, c))
          /\ w \in Flags /\ w \notin m.flags /\ IsRW(m) /\ IsExternal(m)
      BY <1>5, <2>5 DEF Risk, Grade, Applies, Flags
    <3>2. <<m, w>> \in lacking({n \in writable : IsExternal(n)})
      BY <3>1
    <3>3. Risk(m, k, w, c, eff) \in E
      BY <3>1, <3>2
    <3> QED
      BY <1>1, <3>3
  <2>6. CASE k = "nfs"
    <3>1. /\ Risk(m, k, w, c, eff) = Finding(m, "nfs", w, WeakLevel(w))
          /\ w \in {"sec", "noresvport", "udp", "v3"} /\ w \in m.weak /\ m.fs = "nfs"
      BY <1>5, <2>6 DEF Risk, Grade, Applies, Flags, Weaknesses
    <3>2. <<m, w>> \in {q \in {n \in c.mounts : n.fs = "nfs"} \X {"sec", "noresvport", "udp", "v3"} :
                          q[2] \in q[1].weak}
      BY <3>1
    <3>3. Risk(m, k, w, c, eff) \in F
      BY <3>1, <3>2
    <3> QED
      BY <1>1, <3>3
  <2>7. CASE k = "shared"
    <3>1. Risk(m, k, w, c, eff) = Finding(m, "shared", "", SharedLevel(c, eff)) /\ IsRW(m) /\ m.shared
      BY <1>5, <2>7 DEF Risk, Grade, Applies, Flags
    <3>2. Risk(m, k, w, c, eff) \in H
      BY <3>1
    <3> QED
      BY <1>1, <3>2
  <2> QED
    BY <1>5, <2>1, <2>2, <2>3, <2>4, <2>5, <2>6, <2>7 DEF Applies
<1> QED
  BY <1>4, <1>5

\* A softer mount of a tamer process, audited with fewer capabilities, has no
\* other risks, and of no worse level.
LEMMA RiskKeeps ==
    ASSUME NEW d, NEW c, Tamer(d, c), NEW f, NEW e, f \subseteq e, NEW x, NEW y, Softer(x, y),
           NEW k \in Kinds, NEW w, Applies(x, k, w)
    PROVE  /\ Applies(y, k, w)
           /\ Rank[Grade(x, k, w, d, f)] <= Rank[Grade(y, k, w, c, e)]
<1>1. /\ x.at = y.at /\ x.fs = y.fs /\ x.socket = y.socket /\ x.modules = y.modules
      /\ x.weak = y.weak
      /\ IsRW(x) => IsRW(y)
      /\ y.flags \subseteq x.flags
      /\ x.shared => y.shared
  BY DEF Softer
<1>2. Place(x) = Place(y) /\ IsExternal(x) = IsExternal(y)
  BY <1>1 DEF Place, IsExternal
<1>3. d.mapped = c.mapped /\ (c.lsm = "enforce" => d.lsm = "enforce")
  BY DEF Tamer, SameIdentity, MoreConfined
<1>4. ASSUME NEW level \in {"Critical", "High"}, NEW needed
      PROVE  /\ Mitigated(f, level, needed) \in {level, "Low"}
             /\ Rank[Mitigated(f, level, needed)] <= Rank[Mitigated(e, level, needed)]
  BY DEF Mitigated, Rank
<1> DEFINE places == {"proc", "sys", "dev", "libmodules", "root_rw"}
<1>5. CASE k \in places
  <2>1. Applies(y, k, w) /\ Place(x) = k /\ Place(y) = k
    BY <1>1, <1>2, <1>5 DEF Applies, Flags
  <2>2. Grade(x, k, w, d, f) = PlaceLevel(x, d, f) /\ Grade(y, k, w, c, e) = PlaceLevel(y, c, e)
    BY <1>5 DEF Grade, Flags
  <2>3. CASE k \in {"proc", "sys"}
    <3> DEFINE l(eff) == Mitigated(eff, "Critical", {"CAP_SYS_ADMIN"})
    <3>1. l(f) \in {"Critical", "Low"} /\ l(e) \in {"Critical", "Low"} /\ Rank[l(f)] <= Rank[l(e)]
      BY DEF Mitigated, Rank
    <3>2. /\ PlaceLevel(x, d, f) = IF d.lsm = "enforce" THEN "Info" ELSE IF d.mapped THEN "Medium" ELSE l(f)
          /\ PlaceLevel(y, c, e) = IF c.lsm = "enforce" THEN "Info" ELSE IF c.mapped THEN "Medium" ELSE l(e)
      BY <2>1, <2>3 DEF PlaceLevel
    <3> HIDE DEF l
    <3>3. Rank[PlaceLevel(x, d, f)] <= Rank[PlaceLevel(y, c, e)]
      BY <1>3, <3>1, <3>2 DEF Rank
    <3> QED
      BY <2>1, <2>2, <3>3
  <2>4. CASE k = "dev"
    <3> DEFINE l(eff) == Mitigated(eff, "High", {"CAP_MKNOD", "CAP_SYS_ADMIN"})
               harmless(m, p) == m.at = "char" \/ p.mapped \/ (p.lsm = "enforce" /\ m.fs = "tmpfs")
    <3>1. l(f) \in {"High", "Low"} /\ l(e) \in {"High", "Low"} /\ Rank[l(f)] <= Rank[l(e)]
      BY DEF Mitigated, Rank
    <3>2. /\ PlaceLevel(x, d, f) = IF harmless(x, d) THEN "Info" ELSE l(f)
          /\ PlaceLevel(y, c, e) = IF harmless(y, c) THEN "Info" ELSE l(e)
      BY <2>1, <2>4 DEF PlaceLevel
    <3>3. harmless(y, c) => harmless(x, d)
      BY <1>1, <1>3
    <3> HIDE DEF l, harmless
    <3>4. Rank[PlaceLevel(x, d, f)] <= Rank[PlaceLevel(y, c, e)]
      BY <3>1, <3>2, <3>3 DEF Rank
    <3> QED
      BY <2>1, <2>2, <3>4
  <2>5. CASE k = "libmodules"
    <3>1. Rank[PlaceLevel(x, d, f)] <= Rank[PlaceLevel(y, c, e)]
      BY <1>4, <2>1, <2>5 DEF PlaceLevel
    <3> QED
      BY <2>1, <2>2, <3>1
  <2>6. CASE k = "root_rw"
    <3>1. PlaceLevel(x, d, f) = "Low" /\ PlaceLevel(y, c, e) = "Low"
      BY <2>1, <2>6 DEF PlaceLevel
    <3> QED
      BY <2>1, <2>2, <3>1 DEF Rank
  <2> QED
    BY <1>5, <2>3, <2>4, <2>5, <2>6
<1>6. CASE k \in Flags
  <2>1. Applies(y, k, w)
    BY <1>1, <1>2, <1>6 DEF Applies, Flags
  <2>2. Grade(x, k, w, d, f) = FlagLevel(w, d) /\ Grade(y, k, w, c, e) = FlagLevel(w, c)
    BY <1>6 DEF Grade, Flags
  <2>3. FlagLevel(w, d) = FlagLevel(w, c) /\ FlagLevel(w, c) \in {"Medium", "Low", "High"}
    BY <1>3 DEF FlagLevel
  <2> QED
    BY <2>1, <2>2, <2>3 DEF Rank
<1>7. CASE k = "shared"
  <2>1. Applies(y, k, w)
    BY <1>1, <1>7 DEF Applies, Flags
  <2>2. Grade(x, k, w, d, f) = SharedLevel(d, f) /\ Grade(y, k, w, c, e) = SharedLevel(c, e)
    BY <1>7 DEF Grade, Flags
  <2>3. Rank[SharedLevel(d, f)] <= Rank[SharedLevel(c, e)]
    BY <1>3, <1>4 DEF SharedLevel, Rank
  <2> QED
    BY <2>1, <2>2, <2>3
<1>8. CASE k \in {"docker_socket", "tmpfs_scratch", "host_root_mount", "nfs"}
  <2>1. Applies(y, k, w)
    BY <1>1, <1>8 DEF Applies, Flags
  <2>2. Grade(x, k, w, d, f) = Grade(y, k, w, c, e) /\ Grade(x, k, w, d, f) \in Levels
    BY <1>8 DEF Grade, Flags, Levels, WeakLevel
  <2> QED
    BY <2>1, <2>2 DEF Levels, Rank
<1> QED
  BY <1>5, <1>6, <1>7, <1>8 DEF Kinds, EscapeKinds, OtherKinds, Flags

\* Each finding of S is one of T, of a softer mount and a level no worse.
Follows(h, S, T) ==
    /\ \A x, y \in S : h[x] = h[y] => x = y
    /\ \A x \in S : /\ h[x] \in T
                    /\ h[x].kind = x.kind /\ h[x].what = x.what
                    /\ Softer(x.mount, h[x].mount)
                    /\ Rank[x.level] <= Rank[h[x].level]

\* What is found of a tamer process was found of it before.
LEMMA FindingsFollow ==
    ASSUME NEW d, NEW c, Tamer(d, c), NEW f, NEW e, f \subseteq e
    PROVE  \E h : Follows(h, Findings(d, f), Findings(c, e))
<1>1. PICK g : Derives(g, d.mounts, c.mounts)
  BY DEF Tamer
<1>2. /\ \A x \in d.mounts : g[x] \in c.mounts /\ Softer(x, g[x])
      /\ \A x, y \in d.mounts : g[x] = g[y] => x = y
  BY <1>1, Fun_InjectionProperties DEF Derives
<1> DEFINE S == Findings(d, f)
           T == Findings(c, e)
           h == [x \in S |-> Risk(g[x.mount], x.kind, x.what, c, e)]
<1>3. \A x \in S : /\ x.mount \in d.mounts /\ x.kind \in Kinds
                   /\ Applies(x.mount, x.kind, x.what)
                   /\ x = Risk(x.mount, x.kind, x.what, d, f)
  BY FindingsAreRisks
<1>4. \A m \in c.mounts : \A kind, what : Applies(m, kind, what) => Risk(m, kind, what, c, e) \in T
  BY FindingsAreRisks
<1>5. \A m, k, w, p, eff : LET r == Risk(m, k, w, p, eff) IN
          r.mount = m /\ r.kind = k /\ r.what = w /\ r.level = Grade(m, k, w, p, eff)
  BY DEF Risk, Finding
<1>6. \A x \in S : h[x] = Risk(g[x.mount], x.kind, x.what, c, e)
  OBVIOUS
<1> HIDE DEF S, T, h
<1>7. ASSUME NEW x \in S
      PROVE  /\ h[x] \in T
             /\ h[x].kind = x.kind /\ h[x].what = x.what
             /\ Softer(x.mount, h[x].mount)
             /\ Rank[x.level] <= Rank[h[x].level]
  <2>1. g[x.mount] \in c.mounts /\ Softer(x.mount, g[x.mount])
    BY <1>2, <1>3
  <2>2. /\ Applies(g[x.mount], x.kind, x.what)
        /\ Rank[Grade(x.mount, x.kind, x.what, d, f)] <= Rank[Grade(g[x.mount], x.kind, x.what, c, e)]
    BY <1>3, <2>1, RiskKeeps
  <2>3. x.level = Grade(x.mount, x.kind, x.what, d, f)
    BY <1>3, <1>5
  <2>4. h[x].level = Grade(g[x.mount], x.kind, x.what, c, e) /\ h[x].mount = g[x.mount]
        /\ h[x].kind = x.kind /\ h[x].what = x.what
    BY <1>5, <1>6
  <2>5. h[x] \in T
    BY <1>4, <1>6, <2>1, <2>2
  <2> QED
    BY <2>1, <2>2, <2>3, <2>4, <2>5
<1>8. ASSUME NEW x \in S, NEW y \in S, h[x] = h[y] PROVE x = y
  <2>1. g[x.mount] = g[y.mount] /\ x.kind = y.kind /\ x.what = y.what
    BY <1>5, <1>6, <1>8
  <2>2. x.mount = y.mount
    BY <1>2, <1>3, <2>1
  <2> QED
    BY <1>3, <2>1, <2>2
<1>9. Follows(h, S, T)
  BY <1>7, <1>8 DEF Follows
<1> QED
  BY <1>9 DEF S, T

\* Findings that can be counted: finitely many, each graded by its kind.
Countable(found) ==
    IsFiniteSet(found) /\ \A x \in found : x.level \in Grades /\ Graded(x.kind, x.what, x.level)

OfKind(found, kind) == {x \in found : x.kind = kind}
LevelOf(found) == [x \in found |-> x.level]

\* How often a category is found on each level.
Found(found, kind, level) == Cardinality({x \in found : x.kind = kind /\ x.level = level})

\* Level by level, of each category.
LEMMA KindsKeep ==
    ASSUME NEW S, Countable(S), NEW T, Countable(T), NEW h, Follows(h, S, T), NEW kind
    PROVE  /\ \A l \in Levels : Found(S, kind, l) \in Nat /\ Found(T, kind, l) \in Nat
           /\ Found(S, kind, "Critical") <= Found(T, kind, "Critical")
           /\ Found(S, kind, "Critical") + Found(S, kind, "High")
                  <= Found(T, kind, "Critical") + Found(T, kind, "High")
           /\ Found(S, kind, "Critical") + Found(S, kind, "High") + Found(S, kind, "Medium")
                  <= Found(T, kind, "Critical") + Found(T, kind, "High") + Found(T, kind, "Medium")
           /\ Found(S, kind, "Critical") + Found(S, kind, "High") + Found(S, kind, "Medium") + Found(S, kind, "Low")
                  <= Found(T, kind, "Critical") + Found(T, kind, "High") + Found(T, kind, "Medium")
                     + Found(T, kind, "Low")
<1> DEFINE A == OfKind(S, kind)
           B == OfKind(T, kind)
           a == LevelOf(S)
           b == LevelOf(T)
<1>1. IsFiniteSet(A) /\ IsFiniteSet(B)
  BY FS_Subset DEF Countable, OfKind
<1>2. (\A x \in A : a[x] = x.level /\ a[x] \in Grades) /\ (\A x \in B : b[x] = x.level /\ b[x] \in Grades)
  BY DEF Countable, OfKind, LevelOf
<1>3. Worsens(h, A, a, B, b)
  <2>1. \A x, y \in A : h[x] = h[y] => x = y
    BY DEF Follows, OfKind
  <2>2. \A x \in A : h[x] \in B /\ Rank[x.level] <= Rank[h[x].level]
    BY DEF Follows, OfKind
  <2> QED
    BY <1>2, <2>1, <2>2 DEF Worsens
<1>4. \A l : Found(S, kind, l) = Count(A, a, l) /\ Found(T, kind, l) = Count(B, b, l)
  <2> TAKE l
  <2>1. {x \in S : x.kind = kind /\ x.level = l} = {x \in A : a[x] = l}
    BY DEF OfKind, LevelOf
  <2>2. {x \in T : x.kind = kind /\ x.level = l} = {x \in B : b[x] = l}
    BY DEF OfKind, LevelOf
  <2> QED
    BY <2>1, <2>2 DEF Found, Count
<1> HIDE DEF A, B, a, b
<1> QED
  BY <1>1, <1>2, <1>3, <1>4, CountsKeep

\* No finding of a kind is of a level that the kind does not have.
LEMMA NoneOfLevel ==
    ASSUME NEW S, Countable(S), NEW kind, NEW l, \A what : ~Graded(kind, what, l)
    PROVE  Found(S, kind, l) = 0
<1>1. {x \in S : x.kind = kind /\ x.level = l} = {}
  BY DEF Countable
<1> QED
  BY <1>1, FS_EmptySet DEF Found

\* What a category loses before its limit.
LEMMA DeductionKeeps ==
    ASSUME NEW S, Countable(S), NEW T, Countable(T), NEW h, Follows(h, S, T), NEW kind \in Kinds,
           NEW d, NEW c, d.mapped = c.mapped
    PROVE  Deduction(S, kind, d) <= Deduction(T, kind, c)
<1> DEFINE n(l) == Found(S, kind, l)
           k(l) == Found(T, kind, l)
<1>1. /\ n("Critical") \in Nat /\ n("High") \in Nat /\ n("Medium") \in Nat /\ n("Low") \in Nat
      /\ k("Critical") \in Nat /\ k("High") \in Nat /\ k("Medium") \in Nat /\ k("Low") \in Nat
  BY KindsKeep DEF Levels
<1>2. /\ n("Critical") <= k("Critical")
      /\ n("Critical") + n("High") <= k("Critical") + k("High")
      /\ n("Critical") + n("High") + n("Medium") <= k("Critical") + k("High") + k("Medium")
      /\ n("Critical") + n("High") + n("Medium") + n("Low")
             <= k("Critical") + k("High") + k("Medium") + k("Low")
  BY KindsKeep
<1>3. \A l : (\A what : ~Graded(kind, what, l)) => n(l) = 0 /\ k(l) = 0
  BY NoneOfLevel
<1> DEFINE weak(X, w) == Cardinality({x \in X : x.kind = "nfs" /\ x.what = w})
           D(X, p, m(_)) ==
             CASE kind \in {"proc", "sys"} -> 35 * m("Critical") + 10 * m("Medium") + 3 * m("Low")
               [] kind = "dev" -> 30 * m("High") + 3 * m("Low")
               [] kind = "libmodules" -> 35 * m("Critical") + 5 * m("Low")
               [] kind \in {"nosuid", "nodev"} -> 15 * m("High") + 5 * m("Low")
               [] kind \in {"noexec", "nosymfollow"} -> 10 * m("Medium")
               [] kind = "shared" -> 20 * m("High") + (IF p.mapped THEN 5 ELSE 2) * m("Low")
               [] kind = "nfs" -> 10 * weak(X, "sec") + 5 * weak(X, "noresvport")
                                  + 3 * (weak(X, "udp") + weak(X, "v3"))
               [] kind = "tmpfs_scratch" -> 3 * m("Low")
               [] kind = "root_rw" -> 5 * m("Low")
               [] kind = "host_root_mount" -> 30 * m("High")
               [] OTHER -> 40 * m("Critical")
<1>4. Deduction(S, kind, d) = D(S, d, n) /\ Deduction(T, kind, c) = D(T, c, k)
  BY DEF Deduction, Found
<1> HIDE DEF n, k, weak
<1>5. CASE kind \in {"proc", "sys"}
  <2>1. n("High") = 0 /\ k("High") = 0
    BY <1>3, <1>5 DEF Graded
  <2>2. Deduction(S, kind, d) = 35 * n("Critical") + 10 * n("Medium") + 3 * n("Low") /\ Deduction(T, kind, c) = 35 * k("Critical") + 10 * k("Medium") + 3 * k("Low")
    BY <1>4, <1>5
  <2> QED
    BY <1>1, <1>2, <2>1, <2>2
<1>6. CASE kind = "dev"
  <2>1. n("Critical") = 0 /\ k("Critical") = 0 /\ n("Medium") = 0 /\ k("Medium") = 0
    BY <1>3, <1>6 DEF Graded
  <2>2. Deduction(S, kind, d) = 30 * n("High") + 3 * n("Low") /\ Deduction(T, kind, c) = 30 * k("High") + 3 * k("Low")
    BY <1>4, <1>6
  <2> QED
    BY <1>1, <1>2, <2>1, <2>2
<1>7. CASE kind = "libmodules"
  <2>1. n("High") = 0 /\ k("High") = 0 /\ n("Medium") = 0 /\ k("Medium") = 0
    BY <1>3, <1>7 DEF Graded
  <2>2. Deduction(S, kind, d) = 35 * n("Critical") + 5 * n("Low") /\ Deduction(T, kind, c) = 35 * k("Critical") + 5 * k("Low")
    BY <1>4, <1>7
  <2> QED
    BY <1>1, <1>2, <2>1, <2>2
<1>8. CASE kind \in {"nosuid", "nodev"}
  <2>1. n("Critical") = 0 /\ k("Critical") = 0 /\ n("Medium") = 0 /\ k("Medium") = 0
    BY <1>3, <1>8 DEF Graded
  <2>2. Deduction(S, kind, d) = 15 * n("High") + 5 * n("Low") /\ Deduction(T, kind, c) = 15 * k("High") + 5 * k("Low")
    BY <1>4, <1>8
  <2> QED
    BY <1>1, <1>2, <2>1, <2>2
<1>9. CASE kind \in {"noexec", "nosymfollow"}
  <2>1. n("Critical") = 0 /\ k("Critical") = 0 /\ n("High") = 0 /\ k("High") = 0
    BY <1>3, <1>9 DEF Graded
  <2>2. Deduction(S, kind, d) = 10 * n("Medium") /\ Deduction(T, kind, c) = 10 * k("Medium")
    BY <1>4, <1>9
  <2> QED
    BY <1>1, <1>2, <2>1, <2>2
<1>10. CASE kind = "shared"
  <2> DEFINE points == IF c.mapped THEN 5 ELSE 2
  <2>1. n("Critical") = 0 /\ k("Critical") = 0 /\ n("Medium") = 0 /\ k("Medium") = 0
    BY <1>3, <1>10 DEF Graded
  <2>2. /\ Deduction(S, kind, d) = 20 * n("High") + points * n("Low")
        /\ Deduction(T, kind, c) = 20 * k("High") + points * k("Low")
    BY <1>4, <1>10
  <2>3. points = 5 \/ points = 2
    OBVIOUS
  <2> HIDE DEF points
  <2>4. CASE points = 5
    BY <1>1, <1>2, <2>1, <2>2, <2>4
  <2>5. CASE points = 2
    BY <1>1, <1>2, <2>1, <2>2, <2>5
  <2> QED
    BY <2>3, <2>4, <2>5
<1>11. CASE kind = "nfs"
  <2>1. \A w : weak(S, w) \in Nat /\ weak(T, w) \in Nat /\ weak(S, w) <= weak(T, w)
    <3> TAKE w
    <3> DEFINE A == {x \in S : x.kind = "nfs" /\ x.what = w}
               B == {x \in T : x.kind = "nfs" /\ x.what = w}
               j == [x \in A |-> h[x]]
    <3>1. j \in [A -> B] /\ \A x, y \in A : j[x] = j[y] => x = y
      BY DEF Follows
    <3>2. j \in Injection(A, B)
      BY <3>1 DEF Injection, IsInjective
    <3>3. IsFiniteSet(A) /\ IsFiniteSet(B)
      BY FS_Subset DEF Countable
    <3>4. Cardinality(A) \in Nat /\ Cardinality(B) \in Nat /\ Cardinality(A) <= Cardinality(B)
      BY <3>2, <3>3, FS_Injection, FS_CardinalityType
    <3> QED
      BY <3>4 DEF weak
  <2>2. /\ Deduction(S, kind, d) = 10 * weak(S, "sec") + 5 * weak(S, "noresvport")
                                   + 3 * (weak(S, "udp") + weak(S, "v3"))
        /\ Deduction(T, kind, c) = 10 * weak(T, "sec") + 5 * weak(T, "noresvport")
                                   + 3 * (weak(T, "udp") + weak(T, "v3"))
    BY <1>4, <1>11
  <2> QED
    BY <2>1, <2>2
<1>12. CASE kind = "tmpfs_scratch"
  <2>1. n("Critical") = 0 /\ k("Critical") = 0 /\ n("High") = 0 /\ k("High") = 0 /\ n("Medium") = 0 /\ k("Medium") = 0
    BY <1>3, <1>12 DEF Graded
  <2>2. Deduction(S, kind, d) = 3 * n("Low") /\ Deduction(T, kind, c) = 3 * k("Low")
    BY <1>4, <1>12
  <2> QED
    BY <1>1, <1>2, <2>1, <2>2
<1>13. CASE kind = "root_rw"
  <2>1. n("Critical") = 0 /\ k("Critical") = 0 /\ n("High") = 0 /\ k("High") = 0 /\ n("Medium") = 0 /\ k("Medium") = 0
    BY <1>3, <1>13 DEF Graded
  <2>2. Deduction(S, kind, d) = 5 * n("Low") /\ Deduction(T, kind, c) = 5 * k("Low")
    BY <1>4, <1>13
  <2> QED
    BY <1>1, <1>2, <2>1, <2>2
<1>14. CASE kind = "host_root_mount"
  <2>1. n("Critical") = 0 /\ k("Critical") = 0
    BY <1>3, <1>14 DEF Graded
  <2>2. Deduction(S, kind, d) = 30 * n("High") /\ Deduction(T, kind, c) = 30 * k("High")
    BY <1>4, <1>14
  <2> QED
    BY <1>1, <1>2, <2>1, <2>2
<1>15. CASE kind = "docker_socket"
  <2>2. Deduction(S, kind, d) = 40 * n("Critical") /\ Deduction(T, kind, c) = 40 * k("Critical")
    BY <1>4, <1>15
  <2> QED
    BY <1>1, <1>2, <2>2
<1> QED
  BY <1>5, <1>6, <1>7, <1>8, <1>9, <1>10, <1>11, <1>12, <1>13, <1>14, <1>15
     DEF Kinds, EscapeKinds, OtherKinds

\* What the categories without a way out lose, within their limits.
LEMMA NonEscapeKeeps ==
    ASSUME NEW S, Countable(S), NEW T, Countable(T), NEW h, Follows(h, S, T),
           NEW d, NEW c, d.mapped = c.mapped
    PROVE  /\ NonEscapeReduction(S, d) \in Nat /\ NonEscapeReduction(T, c) \in Nat
           /\ NonEscapeReduction(S, d) <= NonEscapeReduction(T, c)
<1> DEFINE limit == IF c.mapped THEN UnprivilegedLimit ELSE PrivilegedLimit
           a(kind) == AtMost(Deduction(S, kind, d), limit[kind])
           b(kind) == AtMost(Deduction(T, kind, c), limit[kind])
           Less(x, y) == x \in Nat /\ y \in Nat /\ x <= y
           five(p(_)) == p("proc") + p("sys") + p("dev") + p("shared") + p("nodev")
           six(p(_)) == p("nosuid") + p("noexec") + p("nosymfollow") + p("nfs") + p("tmpfs_scratch") + p("root_rw")
           all(p(_)) == p("proc") + p("sys") + p("dev") + p("shared") + p("nodev")
                        + p("nosuid") + p("noexec") + p("nosymfollow") + p("nfs") + p("tmpfs_scratch") + p("root_rw")
<1>1. (\A kind \in OtherKinds : limit[kind] \in Nat) /\ limit["all"] \in Nat
  BY DEF OtherKinds, UnprivilegedLimit, PrivilegedLimit
<1>2. /\ NonEscapeReduction(S, d) = AtMost(all(a), limit["all"])
      /\ NonEscapeReduction(T, c) = AtMost(all(b), limit["all"])
  BY DEF NonEscapeReduction
<1> HIDE DEF limit
<1>3. \A kind \in OtherKinds : Less(a(kind), b(kind))
  <2> TAKE kind \in OtherKinds
  <2>1. Deduction(S, kind, d) \in Nat /\ Deduction(T, kind, c) \in Nat
    BY SevereDeducted DEF Kinds, Countable
  <2>2. Deduction(S, kind, d) <= Deduction(T, kind, c)
    BY DeductionKeeps DEF Kinds
  <2> QED
    BY <1>1, <2>1, <2>2, AtMostKeeps
<1> HIDE DEF a, b
<1>4. /\ Less(a("proc"), b("proc")) /\ Less(a("sys"), b("sys")) /\ Less(a("dev"), b("dev"))
      /\ Less(a("shared"), b("shared")) /\ Less(a("nodev"), b("nodev")) /\ Less(a("nosuid"), b("nosuid"))
      /\ Less(a("noexec"), b("noexec")) /\ Less(a("nosymfollow"), b("nosymfollow"))
      /\ Less(a("nfs"), b("nfs")) /\ Less(a("tmpfs_scratch"), b("tmpfs_scratch"))
      /\ Less(a("root_rw"), b("root_rw"))
  BY <1>3 DEF OtherKinds
<1>5. Less(five(a), five(b))
  BY <1>4
<1>6. Less(six(a), six(b))
  BY <1>4
<1>7. all(a) = five(a) + six(a) /\ all(b) = five(b) + six(b)
  BY <1>4
<1> HIDE DEF five, six, all
<1>8. Less(all(a), all(b))
  BY <1>5, <1>6, <1>7
<1> QED
  BY <1>1, <1>2, <1>8, AtMostKeeps, ZenonT(60)

\* Where nothing is found, nothing is deducted.
LEMMA NothingDeducted ==
    ASSUME NEW c
    PROVE  /\ \A kind \in Kinds : Deduction({}, kind, c) = 0
           /\ NonEscapeReduction({}, c) = 0
<1> DEFINE n(kind, level) == Cardinality({f \in {} : f.kind = kind /\ f.level = level})
           weak(w) == Cardinality({f \in {} : f.kind = "nfs" /\ f.what = w})
<1>1. (\A kind, level : n(kind, level) = 0) /\ (\A w : weak(w) = 0)
  <2>1. /\ \A kind, level : {f \in {} : f.kind = kind /\ f.level = level} = {}
        /\ \A w : {f \in {} : f.kind = "nfs" /\ f.what = w} = {}
    OBVIOUS
  <2> QED
    BY <2>1, FS_EmptySet
<1>2. ASSUME NEW kind \in Kinds PROVE Deduction({}, kind, c) = 0
  <2>1. Deduction({}, kind, c) =
          CASE kind \in {"proc", "sys"} -> 35 * n(kind, "Critical") + 10 * n(kind, "Medium") + 3 * n(kind, "Low")
            [] kind = "dev" -> 30 * n(kind, "High") + 3 * n(kind, "Low")
            [] kind = "libmodules" -> 35 * n(kind, "Critical") + 5 * n(kind, "Low")
            [] kind \in {"nosuid", "nodev"} -> 15 * n(kind, "High") + 5 * n(kind, "Low")
            [] kind \in {"noexec", "nosymfollow"} -> 10 * n(kind, "Medium")
            [] kind = "shared" -> 20 * n(kind, "High") + (IF c.mapped THEN 5 ELSE 2) * n(kind, "Low")
            [] kind = "nfs" -> 10 * weak("sec") + 5 * weak("noresvport") + 3 * (weak("udp") + weak("v3"))
            [] kind = "tmpfs_scratch" -> 3 * n(kind, "Low")
            [] kind = "root_rw" -> 5 * n(kind, "Low")
            [] kind = "host_root_mount" -> 30 * n(kind, "High")
            [] OTHER -> 40 * n(kind, "Critical")
    BY DEF Deduction
  <2> HIDE DEF n, weak
  <2> QED
    BY <1>1, <2>1
<1>3. NonEscapeReduction({}, c) = 0
  <2> DEFINE limit == IF c.mapped THEN UnprivilegedLimit ELSE PrivilegedLimit
             part(kind) == AtMost(Deduction({}, kind, c), limit[kind])
  <2>1. (\A kind \in OtherKinds : limit[kind] \in Nat) /\ limit["all"] \in Nat
    BY DEF OtherKinds, UnprivilegedLimit, PrivilegedLimit
  <2>2. NonEscapeReduction({}, c) =
          AtMost(part("proc") + part("sys") + part("dev") + part("shared") + part("nodev")
                 + part("nosuid") + part("noexec") + part("nosymfollow") + part("nfs")
                 + part("tmpfs_scratch") + part("root_rw"), limit["all"])
    BY DEF NonEscapeReduction
  <2> HIDE DEF limit
  <2>3. \A kind \in OtherKinds : part(kind) = 0
    BY <1>2, <2>1 DEF Kinds, AtMost
  <2> HIDE DEF part
  <2>4. /\ part("proc") = 0 /\ part("sys") = 0 /\ part("dev") = 0 /\ part("shared") = 0
        /\ part("nodev") = 0 /\ part("nosuid") = 0 /\ part("noexec") = 0 /\ part("nosymfollow") = 0
        /\ part("nfs") = 0 /\ part("tmpfs_scratch") = 0 /\ part("root_rw") = 0
    BY <2>3 DEF OtherKinds
  <2> QED
    BY <2>1, <2>2, <2>4 DEF AtMost
<1> QED
  BY <1>2, <1>3

\* What AuditMounts deducts for these findings.
Lost(found, c) ==
    Deduction(found, "docker_socket", c) + Deduction(found, "host_root_mount", c)
    + Deduction(found, "libmodules", c) + NonEscapeReduction(found, c)

\* The full score of a clean report is no exception.
LEMMA MountScore ==
    ASSUME NEW c, Auditable(c), NEW caps
    PROVE  AuditMounts(c, caps).score = Clamp(100 - Lost(Findings(c, caps.eff), c))
<1> DEFINE found == Findings(c, caps.eff)
           clean == (\E m \in c.mounts : m.at = "/" /\ "ro" \in m.modes) /\ found = {}
<1>1. AuditMounts(c, caps).score = IF clean THEN 100 ELSE Clamp(100 - Lost(found, c))
  BY DEF AuditMounts, Lost
<1>2. found = {} => Lost(found, c) = 0
  BY NothingDeducted DEF Lost, Kinds, EscapeKinds
<1> HIDE DEF found
<1>3. CASE clean
  <2>1. Lost(found, c) = 0
    BY <1>2, <1>3
  <2> QED
    BY <1>1, <1>3, <2>1 DEF Clamp, found
<1>4. CASE ~clean
  BY <1>1, <1>4 DEF found
<1> QED
  BY <1>3, <1>4

\* The findings of an audit can be counted.
LEMMA FindingsCountable ==
    ASSUME NEW c, Auditable(c), NEW eff
    PROVE  Countable(Findings(c, eff))
<1>1. IsFiniteSet(Findings(c, eff))
  BY FindingsFinite DEF Auditable
<1>2. \A f \in Findings(c, eff) : f.level \in Grades /\ Graded(f.kind, f.what, f.level)
  BY FindingsGraded DEF IsGraded, Finding, Grades
<1> QED
  BY <1>1, <1>2 DEF Countable

\* AuditMounts, with capabilities one milder than the other.
LEMMA MountsMilder ==
    ASSUME NEW d, NEW c, Auditable(d), Auditable(c), Tamer(d, c), NEW r, NEW s, Milder("caps", r, s)
    PROVE  Milder("mounts", AuditMounts(d, r), AuditMounts(c, s))
<1> DEFINE S == Findings(d, r.eff)
           T == Findings(c, s.eff)
           x == AuditMounts(d, r)
           y == AuditMounts(c, s)
<1>1. r.eff \subseteq s.eff /\ d.mapped = c.mapped
  BY DEF Milder, Tamer, SameIdentity
<1>2. PICK h : Follows(h, S, T)
  BY <1>1, FindingsFollow
<1>3. Countable(S) /\ Countable(T)
  BY FindingsCountable
<1>4. /\ x.mounts = d.mounts /\ x.found = S /\ x.score = Clamp(100 - Lost(S, d))
      /\ y.mounts = c.mounts /\ y.found = T /\ y.score = Clamp(100 - Lost(T, c))
  BY MountScore, ZenonT(60) DEF AuditMounts
<1>5. x.score \in 0 .. 100 /\ y.score \in 0 .. 100
  BY MountsPart
<1> HIDE DEF S, T, x, y
<1>6. x.score >= y.score
  <2>1. \A kind \in EscapeKinds : /\ Deduction(S, kind, d) \in Nat /\ Deduction(T, kind, c) \in Nat
                                  /\ Deduction(S, kind, d) <= Deduction(T, kind, c)
    BY <1>1, <1>2, <1>3, SevereDeducted, DeductionKeeps DEF Kinds, Countable
  <2>2. /\ NonEscapeReduction(S, d) \in Nat /\ NonEscapeReduction(T, c) \in Nat
        /\ NonEscapeReduction(S, d) <= NonEscapeReduction(T, c)
    BY <1>1, <1>2, <1>3, NonEscapeKeeps
  <2>3. Lost(S, d) \in Nat /\ Lost(T, c) \in Nat /\ Lost(S, d) <= Lost(T, c)
    BY <2>1, <2>2 DEF Lost, EscapeKinds
  <2> QED
    BY <1>4, <2>3, ClampKeeps
<1>7. PICK g : Derives(g, d.mounts, c.mounts)
  BY DEF Tamer
<1>8. \A m \in d.mounts : g[m] \in c.mounts /\ Softer(m, g[m])
  BY <1>7, Fun_InjectionProperties DEF Derives
<1>9. RootfsWritable(x) => RootfsWritable(y)
  BY <1>4, <1>8 DEF RootfsWritable, Softer
<1>10. Propagates(x) => Propagates(y)
  BY <1>4, <1>8 DEF Propagates, Softer
<1>11. \A f \in S : f.level \in {"Critical", "High"} => h[f].level \in {"Critical", "High"}
  <2> TAKE f \in S
  <2>1. f.level \in Grades /\ h[f].level \in Grades /\ Rank[f.level] <= Rank[h[f].level]
    BY <1>2, <1>3 DEF Follows, Countable
  <2> QED
    BY <2>1 DEF Grades, Levels, Rank
<1>12. \A m \in SevereMounts(x) : \E n \in SevereMounts(y) : m.at = n.at /\ m.fs = n.fs
  <2> TAKE m \in SevereMounts(x)
  <2>1. PICK f \in S : f.level \in {"Critical", "High"} /\ m = f.mount
    BY <1>4 DEF SevereMounts
  <2>2. h[f] \in T /\ h[f].level \in {"Critical", "High"} /\ Softer(f.mount, h[f].mount)
    BY <1>2, <1>11, <2>1 DEF Follows
  <2>3. h[f].mount \in SevereMounts(y)
    BY <1>4, <2>2 DEF SevereMounts
  <2> QED
    BY <2>1, <2>2, <2>3 DEF Softer
<1>13. (OpenProc(x) => OpenProc(y)) /\ (OpenDev(x) => OpenDev(y))
  BY <1>12 DEF OpenProc, OpenDev
<1> QED
  BY <1>5, <1>6, <1>9, <1>10, <1>13 DEF Milder, x, y

(***************************************************************************)
(* Processes that give things up, and their reports.                       *)
(***************************************************************************)
\* The parts of a report made in one moment.
LEMMA SnapshotParts ==
    ASSUME NEW c
    PROVE  /\ Snapshot(c)["fs"] = AuditFilesystem(c)
           /\ Snapshot(c)["ns"] = AuditNamespaces(c)
           /\ Snapshot(c)["caps"] = AuditCapabilities(c, Snapshot(c)["fs"])
           /\ Snapshot(c)["mounts"] = AuditMounts(c, Snapshot(c)["caps"])
           /\ Snapshot(c)["sec"] = AuditSecurity(c, Snapshot(c)["fs"])
           /\ Snapshot(c)["env"] = AuditEnv(c)
           /\ Snapshot(c)["fd"] = AuditFD(c)
           /\ Snapshot(c)["sysd"] = AuditSystemd(c, c.unit)
BY DEF Snapshot, Parts

\* The tamer the process, the milder its report.
LEMMA SnapshotMilder ==
    ASSUME NEW d, NEW c, Auditable(d), Auditable(c), Tamer(d, c)
    PROVE  \A p \in Parts : Milder(p, Snapshot(d)[p], Snapshot(c)[p])
<1>1. Milder("fs", Snapshot(d)["fs"], Snapshot(c)["fs"])
  BY FilesystemMilder, SnapshotParts
<1>2. Milder("ns", Snapshot(d)["ns"], Snapshot(c)["ns"])
  BY NamespacesMilder, SnapshotParts
<1>3. Milder("caps", Snapshot(d)["caps"], Snapshot(c)["caps"])
  BY <1>1, CapabilitiesMilder, SnapshotParts
<1>4. Milder("mounts", Snapshot(d)["mounts"], Snapshot(c)["mounts"])
  BY <1>3, MountsMilder, SnapshotParts
<1>5. Milder("sec", Snapshot(d)["sec"], Snapshot(c)["sec"])
  BY <1>1, TamerIsFewer, SecurityMilder, SnapshotParts
<1>6. Milder("env", Snapshot(d)["env"], Snapshot(c)["env"]) /\ Milder("fd", Snapshot(d)["fd"], Snapshot(c)["fd"])
  BY RestMilder, SnapshotParts
<1>7. Milder("sysd", Snapshot(d)["sysd"], Snapshot(c)["sysd"])
  <2>1. d.unit = c.unit
    BY DEF Tamer, SameIdentity
  <2> QED
    BY <2>1, RestMilder, SnapshotParts
<1> QED
  BY <1>1, <1>2, <1>3, <1>4, <1>5, <1>6, <1>7 DEF Parts

\* The changes of the model take things away only.
LEMMA HardenedTamer ==
    ASSUME NEW c, Auditable(c), NEW d \in Hardened(c)
    PROVE  Tamer(d, c)
<1>0. c \in ProcessesWith(Mount) /\ c.mounts \in SUBSET Mount
  BY DEF Auditable, ProcessesWith
<1>a. c.suid \in Nat /\ c.dirs \in Nat /\ c.accounts \in Nat /\ c.disks \in Nat
  BY <1>0 DEF ProcessesWith
<1>b. \E g : Derives(g, c.mounts, c.mounts)
  BY TamerReflexive DEF Tamer
<1>1. ASSUME NEW k, d \in Without(c, k) PROVE Tamer(d, c)
  <2>1. CASE d = [c EXCEPT !.eff = @ \ {k}]
    BY <1>0, <1>a, <1>b, <2>1
       DEF ProcessesWith, Tamer, SameIdentity, FewerRights, MoreConfined, Cleaner, AuditedCapabilities, Isolated
  <2>2. CASE d = [c EXCEPT !.eff = @ \ {k}, !.prm = @ \ {k}]
    BY <1>0, <1>a, <1>b, <2>2
       DEF ProcessesWith, Tamer, SameIdentity, FewerRights, MoreConfined, Cleaner, AuditedCapabilities, Isolated
  <2>3. CASE d = [c EXCEPT !.bnd = @ \ {k}]
    BY <1>0, <1>a, <1>b, <2>3
       DEF ProcessesWith, Tamer, SameIdentity, FewerRights, MoreConfined, Cleaner, AuditedCapabilities, Isolated
  <2> QED
    BY <1>1, <2>1, <2>2, <2>3 DEF Without
<1>2. ASSUME NEW n, d \in Left(c, n) PROVE Tamer(d, c)
  <2>1. d = [c EXCEPT !.shared = @ \ {n}] /\ n # "pid" /\ (n = "mnt" => c.limits = {"memory", "pids"})
    BY <1>2 DEF Left
  <2>2. SameIdentity(d, c) /\ FewerRights(d, c) /\ Cleaner(d, c) /\ d.mounts = c.mounts
    BY <1>0, <1>a, <2>1 DEF ProcessesWith, SameIdentity, FewerRights, Cleaner, AuditedCapabilities
  <2>3. /\ d.peek = c.peek /\ d.shared = c.shared \ {n} /\ d.limits = c.limits
        /\ d.nnp = c.nnp /\ d.seccomp = c.seccomp /\ d.lsm = c.lsm
    BY <1>0, <2>1 DEF ProcessesWith
  <2>4. MoreConfined(d, c)
    BY <2>1, <2>3 DEF MoreConfined, Isolated
  <2> QED
    BY <1>b, <2>2, <2>4 DEF Tamer
<1>3. ASSUME NEW m \in c.mounts, d \in Replaced(c, m) PROVE Tamer(d, c)
  <2>1. PICK S \in {{}, {[m EXCEPT !.modes = {"ro"}]}, {[m EXCEPT !.flags = Flags]}, {[m EXCEPT !.shared = FALSE]}} :
            d = [c EXCEPT !.mounts = (@ \ {m}) \cup S]
    BY <1>3 DEF Replaced
  <2> DEFINE new == (c.mounts \ {m}) \cup S
             g == [x \in new |-> IF x \in c.mounts \ {m} THEN x ELSE m]
  <2>2. m \in Mount
    BY <1>0
  <2>3. /\ Softer([m EXCEPT !.modes = {"ro"}], m)
        /\ Softer([m EXCEPT !.flags = Flags], m)
        /\ Softer([m EXCEPT !.shared = FALSE], m)
    BY <2>2 DEF Mount, Softer, IsRW
  <2>4. (\A x \in S : Softer(x, m)) /\ (\A x, y \in S : x = y)
    BY <2>1, <2>3
  <2>5. g \in Injection(new, c.mounts)
    <3>1. g \in [new -> c.mounts]
      OBVIOUS
    <3>2. \A x, y \in new : g[x] = g[y] => x = y
      BY <2>4
    <3> QED
      BY <3>1, <3>2 DEF Injection, IsInjective
  <2>6. \A x \in new : Softer(x, g[x])
    <3> TAKE x \in new
    <3>1. CASE x \in c.mounts \ {m}
      BY <3>1 DEF Softer
    <3>2. CASE x \notin c.mounts \ {m}
      BY <2>4, <3>2
    <3> QED
      BY <3>1, <3>2
  <2>7. Derives(g, new, c.mounts)
    BY <2>5, <2>6 DEF Derives
  <2>8. d = [c EXCEPT !.mounts = new]
    BY <2>1
  <2> HIDE DEF new, g
  <2>9. /\ SameIdentity(d, c) /\ FewerRights(d, c) /\ MoreConfined(d, c) /\ Cleaner(d, c)
        /\ d.mounts = new
    BY <1>0, <1>a, <2>8
       DEF ProcessesWith, SameIdentity, FewerRights, MoreConfined, Cleaner, AuditedCapabilities, Isolated
  <2> QED
    BY <2>7, <2>9 DEF Tamer
<1>4. ASSUME d \in Confined(c) PROVE Tamer(d, c)
  <2>1. CASE d = [c EXCEPT !.nnp = TRUE]
    BY <1>0, <1>a, <1>b, <2>1
       DEF ProcessesWith, Tamer, SameIdentity, FewerRights, MoreConfined, Cleaner, AuditedCapabilities, Isolated
  <2>2. CASE d = [c EXCEPT !.lsm = "enforce"]
    BY <1>0, <1>a, <1>b, <2>2
       DEF ProcessesWith, Tamer, SameIdentity, FewerRights, MoreConfined, Cleaner, AuditedCapabilities, Isolated
  <2>3. CASE d = [c EXCEPT !.limits = {"memory", "pids"}]
    BY <1>0, <1>a, <1>b, <2>3
       DEF ProcessesWith, Tamer, SameIdentity, FewerRights, MoreConfined, Cleaner, AuditedCapabilities, Isolated
  <2>4. CASE d = [c EXCEPT !.root = FALSE, !.uid0 = FALSE, !.eff = {}, !.prm = {}]
    BY <1>0, <1>a, <1>b, <2>4
       DEF ProcessesWith, Tamer, SameIdentity, FewerRights, MoreConfined, Cleaner, AuditedCapabilities, Isolated
  <2>5. ASSUME NEW mode \in {"allow", "deny", "unknown"}, d = [c EXCEPT !.seccomp = mode],
               c.seccomp = "off" \/ (c.seccomp = "allow" /\ mode = "deny")
        PROVE  Tamer(d, c)
    BY <1>0, <1>a, <1>b, <2>5
       DEF ProcessesWith, Tamer, SameIdentity, FewerRights, MoreConfined, Cleaner, AuditedCapabilities, Isolated
  <2> QED
    BY <1>4, <2>1, <2>2, <2>3, <2>4, <2>5 DEF Confined
<1>5. ASSUME d \in Cleaned(c) PROVE Tamer(d, c)
  <2>1. \/ d = [c EXCEPT !.suid = 0] \/ d = [c EXCEPT !.exposed = {}] \/ d = [c EXCEPT !.dotenv = FALSE]
        \/ d = [c EXCEPT !.dirs = 0] \/ d = [c EXCEPT !.accounts = 0] \/ d = [c EXCEPT !.disks = 0]
        \/ d = [c EXCEPT !.helpers = {}] \/ d = [c EXCEPT !.insecure = {}]
        \/ \E x : d = [c EXCEPT !.programs = @ \ {x}]
    BY <1>5 DEF Cleaned
  <2>2. SameIdentity(d, c) /\ FewerRights(d, c) /\ MoreConfined(d, c) /\ d.mounts = c.mounts
    BY <1>0, <2>1
       DEF ProcessesWith, SameIdentity, FewerRights, MoreConfined, AuditedCapabilities, Isolated
  <2>3. Cleaner(d, c)
    BY <1>0, <1>a, <2>1 DEF ProcessesWith, Cleaner
  <2> QED
    BY <1>b, <2>2, <2>3 DEF Tamer
<1> QED
  BY <1>1, <1>2, <1>3, <1>4, <1>5 DEF Hardened

(***************************************************************************)
(* The weighted average and the verdict.                                   *)
(***************************************************************************)
\* Rounding down keeps the order.
LEMMA HundredthKeeps ==
    ASSUME NEW x \in Nat, NEW y \in Nat, NEW z \in Nat, x + 100 * z >= y
    PROVE  (x \div 100) + z >= y \div 100
OBVIOUS

\* The milder the parts the better the average; fifty points of the security
\* part are eight of the average at most.
LEMMA WeightedKeeps ==
    ASSUME NEW r, NEW s, NEW open \in BOOLEAN,
           \A p \in Parts \ {"sec"} : Milder(p, r[p], s[p]),
           IF open THEN Near(r["sec"], s["sec"]) ELSE Milder("sec", r["sec"], s["sec"])
    PROVE  Weighted(r) + (IF open THEN 8 ELSE 0) >= Weighted(s)
<1> DEFINE R(p) == r[p].score
           S(p) == s[p].score
           nine(f(_)) == f("ns") * 18 + f("caps") * 18 + f("mounts") * 14 + f("sec") * 14 + f("env") * 10
                         + f("fs") * 10 + f("fd") * 8 + f("sysd") * 8
           eight(f(_)) == f("ns") * 20 + f("caps") * 20 + f("mounts") * 15 + f("sec") * 15 + f("env") * 10
                          + f("fs") * 10 + f("fd") * 10
           slack == IF open THEN 50 ELSE 0
<1>1. /\ r["sysd"].found = s["sysd"].found
      /\ Weighted(r) = IF r["sysd"].found THEN nine(R) \div 100 ELSE eight(R) \div 100
      /\ Weighted(s) = IF s["sysd"].found THEN nine(S) \div 100 ELSE eight(S) \div 100
  BY DEF Milder, Parts, Weighted
<1>2. \A p \in Parts : R(p) \in 0 .. 100 /\ S(p) \in 0 .. 100
  BY DEF Milder, Near
<1>3. \A p \in Parts \ {"sec", "sysd"} : R(p) >= S(p)
  BY DEF Milder
<1>4. r["sysd"].found => R("sysd") >= S("sysd")
  BY DEF Milder, Parts
<1>a. R("sec") + slack >= S("sec")
  BY <1>2 DEF Milder, Near, Parts
<1> HIDE DEF R, S
<1>5. /\ R("ns") \in Nat /\ R("caps") \in Nat /\ R("mounts") \in Nat /\ R("sec") \in Nat
      /\ R("env") \in Nat /\ R("fs") \in Nat /\ R("fd") \in Nat /\ R("sysd") \in Nat
      /\ S("ns") \in Nat /\ S("caps") \in Nat /\ S("mounts") \in Nat /\ S("sec") \in Nat
      /\ S("env") \in Nat /\ S("fs") \in Nat /\ S("fd") \in Nat /\ S("sysd") \in Nat
  BY <1>2 DEF Parts
<1>6. /\ R("ns") >= S("ns") /\ R("caps") >= S("caps") /\ R("mounts") >= S("mounts")
      /\ R("env") >= S("env") /\ R("fs") >= S("fs") /\ R("fd") >= S("fd")
  BY <1>3 DEF Parts
<1>b. slack \in Nat /\ (IF open THEN 8 ELSE 0) \in Nat /\ 16 * slack <= 100 * (IF open THEN 8 ELSE 0)
  OBVIOUS
<1> DEFINE eased == IF open THEN 8 ELSE 0
<1>d. (IF open THEN 8 ELSE 0) = eased
  OBVIOUS
<1> HIDE DEF slack, eased
<1>7. eight(R) \in Nat /\ eight(S) \in Nat /\ eight(R) + 100 * eased >= eight(S)
  BY <1>5, <1>6, <1>a, <1>b, <1>d
<1>8. r["sysd"].found => nine(R) \in Nat /\ nine(S) \in Nat /\ nine(R) + 100 * eased >= nine(S)
  BY <1>4, <1>5, <1>6, <1>a, <1>b, <1>d
<1> HIDE DEF nine, eight
<1>9. CASE r["sysd"].found
  BY <1>1, <1>8, <1>9, <1>b, <1>d, HundredthKeeps
<1>10. CASE ~r["sysd"].found
  BY <1>1, <1>7, <1>10, <1>b, <1>d, HundredthKeeps
<1> QED
  BY <1>9, <1>10

\* Whatever needs programs is easier in a root that has more of them.
LEMMA DifficultyKeeps ==
    ASSUME NEW fs, NEW mounts, NEW gs, NEW nounts, Milder("fs", fs, gs), Milder("mounts", mounts, nounts),
           NEW v
    PROVE  Feasibility(v, fs, mounts) <= Feasibility(v, gs, nounts)
<1>1. fs.programs \subseteq gs.programs /\ (RootfsWritable(mounts) => RootfsWritable(nounts))
  BY DEF Milder
<1>2. Difficulty(fs, mounts) <= Difficulty(gs, nounts)
  BY <1>1 DEF Difficulty, FeasibilityLow, FeasibilityModerate, FeasibilityHigh, FeasibilityTrivial
<1> QED
  BY <1>2 DEF Feasibility, FeasibilityNone, FeasibilityHigh

\* A way out of the milder report is one of the other, or is not feasible.
LEMMA VectorsKeep ==
    ASSUME NEW caps, NEW ns, NEW mounts, NEW daps, NEW os, NEW nounts,
           Milder("caps", caps, daps), Milder("ns", ns, os), Milder("mounts", mounts, nounts)
    PROVE  \A v \in Vectors(caps, ns, mounts) : v.needs = "nothing" \/ v \in Vectors(daps, os, nounts)
<1>1. /\ caps.eff \subseteq daps.eff /\ ns.shared \subseteq os.shared
      /\ OpenProc(mounts) => OpenProc(nounts)
      /\ OpenDev(mounts) => OpenDev(nounts)
      /\ Propagates(mounts) => Propagates(nounts)
  BY DEF Milder
<1> DEFINE control(c) == c.eff \cap {"CAP_SYS_ADMIN", "CAP_SYS_PTRACE", "CAP_NET_ADMIN"} # {}
           Applied(name, c, n, m) ==
             CASE name = "sharing" -> n.shared # {} /\ control(c)
               [] name = "core_pattern" -> "CAP_SYS_ADMIN" \in c.eff /\ OpenProc(m)
               [] name = "propagation" -> "CAP_SYS_ADMIN" \in c.eff /\ Propagates(m)
               [] name = "device" -> ("CAP_MKNOD" \in c.eff \/ "CAP_SYS_ADMIN" \in c.eff) /\ OpenDev(m)
               [] name = "module" -> "CAP_SYS_MODULE" \in c.eff
               [] name = "rawio" -> "CAP_SYS_RAWIO" \in c.eff
               [] name = "ptrace" -> "CAP_SYS_PTRACE" \in c.eff /\ "pid" \in n.shared
               [] OTHER -> ("CAP_NET_ADMIN" \in c.eff \/ "CAP_NET_RAW" \in c.eff) /\ "net" \in n.shared
           needs == [sharing |-> "programs", core_pattern |-> "syscall", propagation |-> "programs",
                     device |-> "programs", module |-> "syscall", rawio |-> "syscall",
                     ptrace |-> "syscall", network |-> "programs"]
           names == DOMAIN needs
           vector(name) == [name |-> name, needs |-> needs[name]]
<1>2. \A name \in names : Applied(name, caps, ns, mounts) => Applied(name, daps, os, nounts)
  BY <1>1
<1>3. ASSUME NEW c, NEW n, NEW m, NEW v
      PROVE  v \in Vectors(c, n, m) =>
                v.needs = "nothing" \/ \E name \in names : v = vector(name) /\ Applied(name, c, n, m)
  BY DEF Vectors, OpenProc, OpenDev, Propagates
<1>4. ASSUME NEW c, NEW n, NEW m, NEW name \in names, Applied(name, c, n, m)
      PROVE  vector(name) \in Vectors(c, n, m)
  BY <1>4 DEF Vectors, OpenProc, OpenDev, Propagates
<1> HIDE DEF Applied, needs, names, vector
<1> QED
  BY <1>2, <1>3, <1>4

\* The milder the parts the better the verdict.
LEMMA VerdictKeeps ==
    ASSUME NEW r, NEW s, \A p \in {"fs", "ns", "caps", "mounts"} : Milder(p, r[p], s[p])
    PROVE  BreakoutOf(r) <= BreakoutOf(s)
<1> DEFINE R == Feasibilities(r["caps"], r["ns"], r["mounts"], r["fs"])
           S == Feasibilities(s["caps"], s["ns"], s["mounts"], s["fs"])
<1>1. /\ Milder("fs", r["fs"], s["fs"]) /\ Milder("caps", r["caps"], s["caps"])
      /\ Milder("ns", r["ns"], s["ns"]) /\ Milder("mounts", r["mounts"], s["mounts"])
  OBVIOUS
<1>2. R \subseteq 0 .. 4 /\ BreakoutOf(r) \in R
  BY VerdictIsWorst DEF BreakoutOf
<1>3. S \subseteq 0 .. 4 /\ BreakoutOf(s) \in S /\ \A f \in S : f <= BreakoutOf(s)
  BY VerdictIsWorst DEF BreakoutOf
<1>4. \A f \in R : \E g \in S : f <= g
  <2> TAKE f \in R
  <2>1. CASE f = FeasibilityNone
    BY <2>1 DEF Feasibilities, FeasibilityNone
  <2>2. ASSUME NEW v \in Vectors(r["caps"], r["ns"], r["mounts"]), f = Feasibility(v, r["fs"], r["mounts"])
        PROVE  \E g \in S : f <= g
    <3>1. CASE v.needs = "nothing"
      BY <2>2, <3>1 DEF Feasibilities, Feasibility, FeasibilityNone
    <3>2. CASE v \in Vectors(s["caps"], s["ns"], s["mounts"])
      <4>1. f <= Feasibility(v, s["fs"], s["mounts"])
        BY <1>1, <2>2, DifficultyKeeps
      <4> QED
        BY <3>2, <4>1 DEF Feasibilities
    <3> QED
      BY <1>1, <3>1, <3>2, VectorsKeep
  <2> QED
    BY <2>1, <2>2 DEF Feasibilities
<1>5. \A f \in S : f \in 0 .. 4
  BY <1>3
<1> HIDE DEF R, S
<1>6. PICK g \in S : BreakoutOf(r) <= g
  BY <1>2, <1>4
<1>7. g <= BreakoutOf(s)
  BY <1>3
<1>8. g \in 0 .. 4 /\ BreakoutOf(r) \in 0 .. 4 /\ BreakoutOf(s) \in 0 .. 4
  BY <1>2, <1>3
<1> QED
  BY <1>6, <1>7, <1>8

(***************************************************************************)
(* The invariant: what the process has become is tamer than what it was,   *)
(* and the parts read so far are between those of the two.                 *)
(***************************************************************************)
\* The reads of processes that exist, if a report comes of it.
Early == {"fs", "ns", "caps", "mounts", "access", "sec"}

\* The reads of AuditSecurity after status, up to that of the mount namespace and later.
Unlinked == {"uidmap", "filter", "profile", "setgroups", "init", "cgroup", "link"}
Linked == {"gidmap", "helpers"}

\* Part p, as it was read, has not become worse since the report began, or only
\* so much when AuditSecurity was torn ...
NotWorse(p, r) ==
    (p = "sysd" => r.found = Snapshot(before)[p].found) =>
        IF p = "sec" /\ torn THEN Near(r, Snapshot(before)[p]) ELSE Milder(p, r, Snapshot(before)[p])

\* ... nor is it better than what it would be now.
NotBetter(p, r) == Milder(p, Snapshot(proc)[p], r)

LowerInv == (pc \in Early => alive) => \A p \in Read[pc] : NotWorse(p, report[p])
UpperInv == alive => \A p \in Read[pc] : NotBetter(p, report[p])

\* The mounts, between their two reads.
AccessInv == pc = "access" /\ alive => Tamer(view, before) /\ Tamer(proc, view)

\* Record v of AuditSecurity at step at, of a process that is there or not, is
\* between the first moment and this one; but what is read of a process that is
\* gone, and limits of another moment than the link, may be worse than the first.
Above(at, here, t, v) ==
    /\ Steady(v, before) /\ Fewer(v, before)
    /\ here \/ ~t => Owned(v, before)
    /\ at \in Unlinked /\ here => ~t /\ Limited(v, before)
    /\ at \in {"uidmap", "filter", "profile"} /\ ~here => t
    /\ at \in Linked => /\ ~t => Limited(v, before)
                        /\ Owned(v, before) \/ Limited(v, before)
Below(at, v) ==
    /\ Steady(proc, v) /\ Fewer(proc, v) /\ Owned(proc, v) /\ v.limits \subseteq proc.limits
    /\ at \in Linked => Limited(proc, v)

SecurityInv ==
    /\ pc \in Early => ~torn
    /\ pc \in Unlinked \cup Linked => Above(pc, alive, torn, view) /\ (alive => Below(pc, view))

ViewBetween == AccessInv /\ SecurityInv

BetweenInv == Tamer(proc, before) /\ LowerInv /\ UpperInv /\ ViewBetween

\* A part that lies between joins those that do.
LEMMA PutBetween ==
    ASSUME ReportInv, BetweenInv, NEW part \in Parts, NEW then \in Parts \cup {"sum"}, NEW result,
           Read[then] = Read[pc] \cup {part}, Put(part, result, then),
           (then \in Early => alive) /\ pc \in Early => alive,
           then \in Early => pc \in Early,
           (then \in Early => alive) => NotWorse(part, result),
           alive => NotBetter(part, result)
    PROVE  BetweenInv'
<1>1. /\ proc' = proc /\ before' = before /\ alive' = alive /\ torn' = torn /\ pc' = then
      /\ report' = [report EXCEPT ![part] = result]
  BY DEF Put, process
<1>2. DOMAIN report = Parts
  BY DEF ReportInv, ReadInv
<1>3. \A p \in Parts : report'[p] = IF p = part THEN result ELSE report[p]
  BY <1>1, <1>2
<1>4. Read[then] \subseteq Parts
  BY DEF Read, Parts
<1>5. Tamer(proc', before')
  BY <1>1 DEF BetweenInv
<1>6. LowerInv'
  <2> SUFFICES ASSUME then \in Early => alive, NEW p \in Read[then] PROVE NotWorse(p, report'[p])
    BY <1>1 DEF LowerInv, NotWorse
  <2>1. CASE p = part
    BY <1>3, <2>1
  <2>2. CASE p # part
    <3>1. NotWorse(p, report[p])
      BY <2>2 DEF BetweenInv, LowerInv
    <3> QED
      BY <1>3, <1>4, <2>2, <3>1
  <2> QED
    BY <2>1, <2>2
<1>7. UpperInv'
  <2> SUFFICES ASSUME alive, NEW p \in Read[then] PROVE NotBetter(p, report'[p])
    BY <1>1 DEF UpperInv, NotBetter
  <2>1. CASE p = part
    BY <1>3, <2>1
  <2>2. CASE p # part
    <3>1. NotBetter(p, report[p])
      BY <2>2 DEF BetweenInv, UpperInv
    <3> QED
      BY <1>3, <1>4, <2>2, <3>1
  <2> QED
    BY <2>1, <2>2
<1>8. ViewBetween'
  <2>1. then \notin {"access"} \cup Unlinked \cup Linked
    BY DEF Parts, Unlinked, Linked
  <2>2. then \in Early => ~torn
    BY DEF BetweenInv, ViewBetween, SecurityInv
  <2> QED
    BY <1>1, <2>1, <2>2 DEF ViewBetween, AccessInv, SecurityInv
<1> QED
  BY <1>5, <1>6, <1>7, <1>8 DEF BetweenInv

\* A look at the process leaves the parts where they are.
LEMMA LookBetween ==
    ASSUME BetweenInv, NEW seen, NEW then \in Later, Read[then] = Read[pc], Look(seen, then),
           "sec" \notin Read[pc], pc \in Early /\ ~(then \in Early) => alive,
           ViewBetween'
    PROVE  BetweenInv'
<1>1. UNCHANGED <<proc, before, alive, report>> /\ pc' = then
  BY DEF Look, process
<1>2. Tamer(proc', before')
  BY <1>1 DEF BetweenInv
<1>3. LowerInv'
  <2> SUFFICES ASSUME then \in Early => alive, NEW p \in Read[pc] PROVE NotWorse(p, report[p])'
    BY <1>1 DEF LowerInv
  <2>1. NotWorse(p, report[p]) /\ p # "sec"
    BY DEF BetweenInv, LowerInv
  <2> QED
    BY <1>1, <2>1 DEF NotWorse
<1>4. UpperInv'
  BY <1>1 DEF BetweenInv, UpperInv, NotBetter
<1> QED
  BY <1>2, <1>3, <1>4 DEF BetweenInv

\* What is seen is never more than what the process was, and is what it is while it exists.
LEMMA SeenFewer ==
    ASSUME ReportInv, Tamer(proc, before)
    PROVE  /\ Fewer(Seen, before)
           /\ alive => Seen = proc
           /\ Steady(proc, before) /\ Owned(proc, before) /\ Limited(proc, before)
           /\ before.limits \subseteq proc.limits
<1>1. Auditable(proc) /\ Auditable(before)
  BY DEF ReportInv, ProcessInv
<1>2. Steady(proc, before) /\ Fewer(proc, before) /\ Owned(proc, before) /\ Limited(proc, before)
      /\ before.limits \subseteq proc.limits
  BY <1>1, TamerIsFewer
<1>3. CASE alive
  BY <1>2, <1>3 DEF Seen
<1>4. CASE ~alive
  <2>1. proc \in ProcessesWith(Mount) /\ before.gids \in Nat
    BY <1>1 DEF Auditable, ProcessesWith
  <2>2. /\ ~Seen.mapped /\ ~Seen.setgroups /\ ~Seen.oddInit /\ Seen.gids = 0
        /\ Seen.seccomp = "unknown" /\ Seen.helpers = {}
    BY <1>4, <2>1 DEF Seen, ProcessesWith
  <2> QED
    BY <1>2, <1>4, <2>1, <2>2 DEF Fewer
<1> QED
  BY <1>3, <1>4

\* The fields of w are those of v, or what is seen.
Mixed(w, v) ==
    /\ w.peek = v.peek /\ w.shared = v.shared /\ w.root = v.root /\ w.nnp = v.nnp
    /\ w.mapped \in {v.mapped, Seen.mapped} /\ w.lsm \in {v.lsm, Seen.lsm}
    /\ w.setgroups \in {v.setgroups, Seen.setgroups} /\ w.oddInit \in {v.oddInit, Seen.oddInit}
    /\ w.gids \in {v.gids, Seen.gids} /\ w.helpers \in {v.helpers, Seen.helpers}
    /\ w.limits \in {v.limits, Seen.limits}
    /\ w.seccomp = v.seccomp \/ (v.seccomp # "off" /\ w.seccomp = Seen.seccomp)

\* One more field read of AuditSecurity's record.
LEMMA MixedBetween ==
    ASSUME ReportInv, Tamer(proc, before), Auditable(view), NEW w, Mixed(w, view), pc \in Unlinked \cup Linked,
           Above(pc, alive, torn, view), alive => Below(pc, view)
    PROVE  /\ Steady(w, before) /\ Fewer(w, before)
           /\ w.mapped = view.mapped /\ w.lsm = view.lsm /\ Owned(view, before) => Owned(w, before)
           /\ w.limits = view.limits /\ Limited(view, before) => Limited(w, before)
           /\ alive => /\ Steady(proc, w) /\ Fewer(proc, w) /\ Owned(proc, w) /\ w.limits \subseteq proc.limits
                       /\ Owned(w, before) /\ (Limited(view, before) => Limited(w, before))
                       /\ Limited(proc, view) => Limited(proc, w)
<1>1. /\ Fewer(Seen, before) /\ (alive => Seen = proc)
      /\ Steady(proc, before) /\ Owned(proc, before) /\ Limited(proc, before)
  BY SeenFewer
<1>2. Steady(view, before) /\ Fewer(view, before)
  BY DEF Above
<1>3. Steady(w, before)
  BY <1>2 DEF Steady, Mixed
<1>4. Fewer(w, before)
  BY <1>1, <1>2 DEF Fewer, Mixed
<1>5. w.mapped = view.mapped /\ w.lsm = view.lsm /\ Owned(view, before) => Owned(w, before)
  BY DEF Owned, Mixed
<1>6. w.limits = view.limits /\ Limited(view, before) => Limited(w, before)
  BY DEF Limited, Isolated, Mixed
<1>7. ASSUME alive
      PROVE  /\ Steady(proc, w) /\ Fewer(proc, w) /\ Owned(proc, w) /\ w.limits \subseteq proc.limits
             /\ Owned(w, before) /\ (Limited(view, before) => Limited(w, before))
             /\ Limited(proc, view) => Limited(proc, w)
  <2>1. Steady(proc, view) /\ Fewer(proc, view) /\ Owned(proc, view) /\ view.limits \subseteq proc.limits
    BY <1>7 DEF Below
  <2>2. Seen = proc
    BY <1>1, <1>7
  <2>3. Steady(proc, w) /\ Owned(proc, w) /\ w.limits \subseteq proc.limits
    BY <2>1, <2>2 DEF Steady, Owned, Mixed
  <2>4. Fewer(proc, w)
    <3>1. proc.gids \in Nat /\ view.gids \in Nat
      BY DEF ReportInv, ProcessInv, Auditable, ProcessesWith
    <3> QED
      BY <2>1, <2>2, <3>1 DEF Fewer, Mixed
  <2>5. Owned(w, before)
    <3>1. Owned(view, before)
      BY <1>7 DEF Above
    <3> QED
      BY <1>1, <2>2, <3>1 DEF Owned, Mixed
  <2>6. Limited(view, before) => Limited(w, before)
    BY <2>1, <2>2 DEF Limited, Isolated, Mixed
  <2>7. Limited(proc, view) => Limited(proc, w)
    BY <2>1, <2>2 DEF Limited, Isolated, Mixed
  <2> QED
    BY <2>3, <2>4, <2>5, <2>6, <2>7
<1> QED
  BY <1>3, <1>4, <1>5, <1>6, <1>7

\* At first the process is what it was.
LEMMA InitBetween == Init => BetweenInv
<1> SUFFICES ASSUME Init PROVE BetweenInv
  OBVIOUS
<1>1. Auditable(proc) /\ before = proc /\ pc = "fs"
  BY ReportAssumption DEF Init, Auditable
<1>2. Tamer(proc, before)
  BY <1>1, TamerReflexive
<1>3. Read[pc] = {} /\ ~torn /\ pc \notin {"access"} \cup Unlinked \cup Linked
  BY <1>1 DEF Init, Read, Unlinked, Linked
<1> QED
  BY <1>2, <1>3 DEF BetweenInv, LowerInv, UpperInv, ViewBetween, AccessInv, SecurityInv

\* The read after that of w is then: both before the link or both after it.
Successive(w, then) ==
    /\ Look(w, then) /\ torn' = torn
    /\ Read[then] = Read[pc] /\ "sec" \notin Read[pc]
    /\ (pc \in Unlinked /\ then \in Unlinked) \/ (pc \in Linked /\ then \in Linked)
    /\ then \in {"uidmap", "filter", "profile"} => pc \in {"uidmap", "filter", "profile"}
    /\ pc \in {"uidmap", "filter", "profile"} \/ (w.mapped = view.mapped /\ w.lsm = view.lsm)
    /\ pc \in Linked => w.limits = view.limits

\* A read of one more file of AuditSecurity, other than the link.
LEMMA ReadBetween ==
    ASSUME ReportInv, BetweenInv, NEW w, NEW then, Mixed(w, view), Successive(w, then)
    PROVE  BetweenInv'
<1>0. /\ Look(w, then) /\ torn' = torn
      /\ Read[then] = Read[pc] /\ "sec" \notin Read[pc]
      /\ (pc \in Unlinked /\ then \in Unlinked) \/ (pc \in Linked /\ then \in Linked)
      /\ then \in {"uidmap", "filter", "profile"} => pc \in {"uidmap", "filter", "profile"}
      /\ pc \in {"uidmap", "filter", "profile"} \/ (w.mapped = view.mapped /\ w.lsm = view.lsm)
      /\ pc \in Linked => w.limits = view.limits
  BY DEF Successive
<1>1. /\ then \in Later /\ pc \notin Early /\ Auditable(view)
      /\ pc \in Unlinked \cup Linked /\ then \in Unlinked \cup Linked /\ then \notin Early \cup {"access"}
      /\ pc \in Later
  <2>1. pc \in Later /\ then \in Later /\ pc \notin Early /\ then \notin Early \cup {"access"}
    BY <1>0 DEF Unlinked, Linked, Later, Early
  <2> QED
    BY <1>0, <2>1 DEF ReportInv, ViewInv
<1>2. /\ UNCHANGED <<proc, before, alive, report>> /\ pc' = then /\ view' = w
  BY <1>0 DEF Look, process
<1>3. Above(pc, alive, torn, view) /\ (alive => Below(pc, view)) /\ Tamer(proc, before)
  BY <1>1 DEF BetweenInv, ViewBetween, SecurityInv
<1>4. /\ Steady(w, before) /\ Fewer(w, before)
      /\ w.mapped = view.mapped /\ w.lsm = view.lsm /\ Owned(view, before) => Owned(w, before)
      /\ w.limits = view.limits /\ Limited(view, before) => Limited(w, before)
      /\ alive => /\ Steady(proc, w) /\ Fewer(proc, w) /\ Owned(proc, w) /\ w.limits \subseteq proc.limits
                  /\ Owned(w, before) /\ (Limited(view, before) => Limited(w, before))
                  /\ Limited(proc, view) => Limited(proc, w)
  BY <1>1, <1>3, MixedBetween
<1>5. Unlinked \cap Linked = {} /\ {"uidmap", "filter", "profile"} \cap Linked = {}
  BY DEF Unlinked, Linked
<1>6. Above(then, alive, torn, w)
  <2>1. alive \/ ~torn => Owned(w, before)
    BY <1>0, <1>3, <1>4 DEF Above
  <2>2. then \in Unlinked /\ alive => ~torn /\ Limited(w, before)
    BY <1>0, <1>3, <1>4, <1>5 DEF Above
  <2>3. then \in {"uidmap", "filter", "profile"} /\ ~alive => torn
    BY <1>0, <1>3 DEF Above
  <2>4. then \in Linked => /\ ~torn => Limited(w, before)
                           /\ Owned(w, before) \/ Limited(w, before)
    BY <1>0, <1>3, <1>4, <1>5 DEF Above
  <2> QED
    BY <1>4, <2>1, <2>2, <2>3, <2>4 DEF Above
<1>7. alive => Below(then, w)
  BY <1>0, <1>3, <1>4, <1>5 DEF Below
<1>8. ViewBetween'
  <2>1. (Above(pc, alive, torn, view) /\ (alive => Below(pc, view)))'
    BY <1>0, <1>2, <1>6, <1>7 DEF Above, Below
  <2> QED
    BY <1>1, <1>2, <2>1 DEF ViewBetween, AccessInv, SecurityInv
<1> QED
  BY <1>0, <1>1, <1>2, <1>8, LookBetween

\* The link of the mount namespace.
LEMMA LinkBetween ==
    ASSUME ReportInv, BetweenInv, ReadLink
    PROVE  BetweenInv'
<1> DEFINE w == [view EXCEPT !.shared = IF alive THEN proc.shared ELSE @ \cup {"mnt"}]
<1>1. /\ pc = "link" /\ Look(w, "gidmap")
      /\ torn' = (torn \/ (alive /\ "mnt" \in view.shared \ proc.shared /\ view.limits # {"memory", "pids"}))
  BY DEF ReadLink
<1>2. /\ UNCHANGED <<proc, before, alive, report>> /\ pc' = "gidmap" /\ view' = w
  BY <1>1 DEF Look, process
<1>3. Auditable(view) /\ Auditable(proc) /\ alive \in BOOLEAN /\ torn \in BOOLEAN
  BY <1>1 DEF ReportInv, ProcessInv, ViewInv, Later
<1>4. Above(pc, alive, torn, view) /\ (alive => Below(pc, view)) /\ Tamer(proc, before)
  BY <1>1 DEF BetweenInv, ViewBetween, SecurityInv, Unlinked
<1>5. /\ Steady(proc, before) /\ Owned(proc, before) /\ Limited(proc, before)
  BY <1>4, SeenFewer
<1>6. /\ w.shared = IF alive THEN proc.shared ELSE view.shared \cup {"mnt"}
      /\ w.peek = view.peek /\ w.nnp = view.nnp /\ w.mapped = view.mapped /\ w.setgroups = view.setgroups
      /\ w.oddInit = view.oddInit /\ w.gids = view.gids /\ w.seccomp = view.seccomp
      /\ w.helpers = view.helpers /\ w.root = view.root /\ w.lsm = view.lsm /\ w.limits = view.limits
      /\ view.limits \subseteq {"memory", "pids"}
  BY <1>3 DEF Auditable, ProcessesWith
<1> HIDE DEF w
<1>7. Steady(w, before) /\ Fewer(w, before) /\ (Owned(view, before) => Owned(w, before))
  BY <1>4, <1>5, <1>6 DEF Above, Steady, Fewer, Owned
<1>8. CASE alive
  <2>1. /\ ~torn /\ Owned(view, before) /\ Limited(view, before)
        /\ Steady(proc, view) /\ Fewer(proc, view) /\ Owned(proc, view) /\ view.limits \subseteq proc.limits
    BY <1>1, <1>4, <1>8 DEF Above, Below, Unlinked
  <2>2. ~torn' => Limited(w, before)
    <3> SUFFICES ASSUME ~torn', NEW l \in {"memory", "pids"}, Isolated(w, "mnt"), l \notin w.limits
                 PROVE  Isolated(before, "mnt") /\ l \notin before.limits
      BY DEF Limited
    <3>1. "mnt" \notin proc.shared /\ view.limits # {"memory", "pids"}
      BY <1>6, <1>8 DEF Isolated
    <3>2. "mnt" \notin view.shared
      BY <1>1, <1>8, <3>1
    <3>3. Isolated(view, "mnt") /\ l \notin view.limits
      BY <1>6, <3>2 DEF Isolated
    <3> QED
      BY <2>1, <3>3 DEF Limited
  <2>3. Steady(proc, w) /\ Fewer(proc, w) /\ Owned(proc, w) /\ w.limits \subseteq proc.limits /\ Limited(proc, w)
    BY <1>6, <1>8, <2>1 DEF Steady, Fewer, Owned, Limited, Isolated
  <2>4. Above("gidmap", TRUE, torn', w) /\ Below("gidmap", w)
    BY <1>7, <2>1, <2>2, <2>3 DEF Above, Below, Unlinked, Linked
  <2>5. (Above(pc, alive, torn, view) /\ (alive => Below(pc, view)))'
    BY <1>2, <1>8, <2>4 DEF Above, Below
  <2>6. ViewBetween'
    BY <1>2, <2>5 DEF ViewBetween, AccessInv, SecurityInv, Early
  <2> QED
    BY <1>1, <2>6, LookBetween DEF Later, Read, Early
<1>9. CASE ~alive
  <2>1. torn' = torn /\ Limited(w, before)
    BY <1>1, <1>3, <1>6, <1>9 DEF Limited, Isolated
  <2>2. Above("gidmap", FALSE, torn', w)
    BY <1>4, <1>7, <1>9, <2>1 DEF Above, Unlinked, Linked
  <2>3. (Above(pc, alive, torn, view) /\ (alive => Below(pc, view)))'
    BY <1>2, <1>9, <2>2 DEF Above, Below
  <2>4. ViewBetween'
    BY <1>2, <2>3 DEF ViewBetween, AccessInv, SecurityInv, Early
  <2> QED
    BY <1>1, <2>4, LookBetween DEF Later, Read, Early
<1> QED
  BY <1>3, <1>8, <1>9

\* The last read of AuditSecurity, and its result.
LEMMA SecurityBetween ==
    ASSUME ReportInv, BetweenInv, ReadHelpers
    PROVE  BetweenInv'
<1> DEFINE w == [view EXCEPT !.helpers = Seen.helpers]
           sec == AuditSecurity(w, report["fs"])
<1>1. pc = "helpers" /\ Put("sec", sec, "env")
  BY DEF ReadHelpers
<1>2. /\ Auditable(view) /\ Auditable(proc) /\ Auditable(before) /\ Auditable(Seen)
  BY <1>1, SeenAuditable DEF ReportInv, ProcessInv, ViewInv, Later
<1>3. Auditable(w)
  BY <1>2, ViewAuditable
<1>4. /\ Above(pc, alive, torn, view) /\ (alive => Below(pc, view)) /\ Tamer(proc, before)
      /\ pc \in Unlinked \cup Linked
  BY <1>1 DEF BetweenInv, ViewBetween, SecurityInv, Linked
<1>5. Mixed(w, view) /\ w.mapped = view.mapped /\ w.lsm = view.lsm /\ w.limits = view.limits
  BY <1>2 DEF Mixed, Auditable, ProcessesWith
<1> HIDE DEF w
<1>6. /\ Steady(w, before) /\ Fewer(w, before)
      /\ Owned(view, before) => Owned(w, before)
      /\ Limited(view, before) => Limited(w, before)
      /\ alive => Steady(proc, w) /\ Fewer(proc, w) /\ Owned(proc, w) /\ (Limited(proc, view) => Limited(proc, w))
  BY <1>2, <1>4, <1>5, MixedBetween
<1>7. "fs" \in Read[pc] /\ pc \notin Early /\ Read["env"] = Read[pc] \cup {"sec"} /\ "env" \notin Early
      /\ "env" \in Parts /\ "sec" \in Parts
  BY <1>1 DEF Read, Early, Parts
<1>8. /\ Milder("fs", report["fs"], Snapshot(before)["fs"])
      /\ alive => Milder("fs", Snapshot(proc)["fs"], report["fs"])
  BY <1>7 DEF BetweenInv, LowerInv, UpperInv, NotWorse, NotBetter
<1>9. NotWorse("sec", sec)
  <2>1. CASE torn
    <3>1. Owned(w, before) \/ Limited(w, before)
      BY <1>1, <1>4, <1>6 DEF Above, Linked
    <3>2. Near(sec, Snapshot(before)["sec"])
      BY <1>2, <1>3, <1>6, <1>8, <3>1, SecurityNear, SnapshotParts
    <3> QED
      BY <2>1, <3>2 DEF NotWorse
  <2>2. CASE ~torn
    <3>1. Owned(w, before) /\ Limited(w, before)
      BY <1>1, <1>4, <1>6, <2>2 DEF Above, Linked
    <3>2. Milder("sec", sec, Snapshot(before)["sec"])
      BY <1>2, <1>3, <1>6, <1>8, <3>1, SecurityMilder, SnapshotParts
    <3> QED
      BY <2>2, <3>2 DEF NotWorse
  <2> QED
    BY <2>1, <2>2
<1>10. alive => NotBetter("sec", sec)
  <2> SUFFICES ASSUME alive PROVE NotBetter("sec", sec)
    OBVIOUS
  <2>1. Steady(proc, w) /\ Fewer(proc, w) /\ Owned(proc, w) /\ Limited(proc, w)
    BY <1>1, <1>4, <1>6 DEF Below, Linked
  <2> QED
    BY <1>2, <1>3, <1>8, <2>1, SecurityMilder, SnapshotParts DEF NotBetter
<1> QED
  BY <1>1, <1>7, <1>9, <1>10, PutBetween

\* Giving up more keeps what was read below what the process is.
LEMMA BelowKeeps ==
    ASSUME Auditable(proc), Auditable(proc'), Auditable(view), Tamer(proc', proc), NEW at, Below(at, view),
           view' = view
    PROVE  Below(at, view)'
<1>1. /\ Steady(proc', proc) /\ Fewer(proc', proc) /\ Owned(proc', proc) /\ Limited(proc', proc)
      /\ proc.limits \subseteq proc'.limits
  BY TamerIsFewer
<1>2. proc'.gids \in Nat /\ proc.gids \in Nat /\ view.gids \in Nat
  BY DEF Auditable, ProcessesWith
<1>3. Steady(proc', view) /\ Owned(proc', view) /\ view.limits \subseteq proc'.limits
  BY <1>1 DEF Below, Steady, Owned
<1>4. Fewer(proc', view)
  BY <1>1, <1>2 DEF Below, Fewer
<1>5. at \in Linked => Limited(proc', view)
  BY <1>1 DEF Below, Limited
<1> QED
  BY <1>3, <1>4, <1>5 DEF Below

\* Every step keeps what was read between the two.
LEMMA NextBetween == ReportInv /\ BetweenInv /\ [Next]_vars => BetweenInv'
<1> SUFFICES ASSUME ReportInv, BetweenInv, [Next]_vars PROVE BetweenInv'
  OBVIOUS
<1>0. /\ Auditable(proc) /\ Auditable(before)
      /\ Tamer(proc, before) /\ Tamer(proc, proc)
      /\ alive \in BOOLEAN /\ torn \in BOOLEAN
  BY TamerReflexive DEF ReportInv, ProcessInv, ViewInv, BetweenInv
<1>a. alive => Seen = proc
  BY DEF Seen
<1>b. proc.unit = before.unit
  BY <1>0 DEF Tamer, SameIdentity
<1>1. CASE ReadFilesystem
  <2>1. pc = "fs" /\ Put("fs", AuditFilesystem(Seen), "ns")
    BY <1>1 DEF ReadFilesystem
  <2>2. "fs" \in Parts /\ "ns" \in Parts /\ Read["ns"] = Read["fs"] \cup {"fs"} /\ {"fs", "ns"} \subseteq Early
    BY DEF Parts, Read, Early
  <2>3. alive => NotWorse("fs", AuditFilesystem(Seen)) /\ NotBetter("fs", AuditFilesystem(Seen))
    BY <1>0, <1>a, FilesystemMilder, SnapshotParts DEF NotWorse, NotBetter
  <2> QED
    BY <2>1, <2>2, <2>3, PutBetween
<1>2. CASE ReadNamespaces
  <2>1. pc = "ns" /\ Put("ns", AuditNamespaces(Seen), "caps")
    BY <1>2 DEF ReadNamespaces
  <2>2. "ns" \in Parts /\ "caps" \in Parts /\ Read["caps"] = Read["ns"] \cup {"ns"} /\ {"ns", "caps"} \subseteq Early
    BY DEF Parts, Read, Early
  <2>3. alive => NotWorse("ns", AuditNamespaces(Seen)) /\ NotBetter("ns", AuditNamespaces(Seen))
    BY <1>0, <1>a, NamespacesMilder, SnapshotParts DEF NotWorse, NotBetter
  <2> QED
    BY <2>1, <2>2, <2>3, PutBetween
<1>3. CASE ReadCapabilities
  <2> DEFINE caps == AuditCapabilities(proc, report["fs"])
  <2>1. pc = "caps" /\ alive /\ Put("caps", caps, "mounts")
    BY <1>3 DEF ReadCapabilities
  <2>2. "caps" \in Parts /\ "mounts" \in Parts /\ Read["mounts"] = Read["caps"] \cup {"caps"} /\ "fs" \in Read["caps"]
        /\ {"caps", "mounts"} \subseteq Early
    BY DEF Parts, Read, Early
  <2>3. Milder("fs", report["fs"], Snapshot(before)["fs"]) /\ Milder("fs", Snapshot(proc)["fs"], report["fs"])
    BY <2>1, <2>2 DEF BetweenInv, LowerInv, UpperInv, NotWorse, NotBetter
  <2>4. NotWorse("caps", caps)
    BY <1>0, <2>3, CapabilitiesMilder, SnapshotParts DEF NotWorse
  <2>5. NotBetter("caps", caps)
    BY <1>0, <2>3, CapabilitiesMilder, SnapshotParts DEF NotBetter
  <2> QED
    BY <2>1, <2>2, <2>4, <2>5, PutBetween
<1>15. CASE ReadMountInfo
  <2>1. pc = "mounts" /\ alive /\ Look(proc, "access") /\ UNCHANGED torn
    BY <1>15 DEF ReadMountInfo
  <2>2. Read["access"] = Read["mounts"] /\ "access" \in Later /\ {"mounts", "access"} \subseteq Early
        /\ "access" \notin Unlinked \cup Linked /\ "sec" \notin Read["mounts"]
    BY DEF Read, Later, Early, Unlinked, Linked
  <2>3. UNCHANGED <<proc, before, alive, torn>> /\ pc' = "access" /\ view' = proc /\ ~torn
    BY <2>1, <2>2 DEF Look, process, BetweenInv, ViewBetween, SecurityInv
  <2>4. ViewBetween'
    BY <1>0, <2>2, <2>3 DEF ViewBetween, AccessInv, SecurityInv
  <2> QED
    BY <2>1, <2>2, <2>4, LookBetween
<1>4. CASE ReadAccess
  <2> DEFINE w == [view EXCEPT !.lsm = Seen.lsm, !.mapped = Seen.mapped]
             mounts == AuditMounts(w, report["caps"])
  <2>1. pc = "access" /\ Put("mounts", mounts, "sec")
    BY <1>4 DEF ReadAccess
  <2>2. "mounts" \in Parts /\ "sec" \in Parts /\ Read["sec"] = Read["access"] \cup {"mounts"}
        /\ "caps" \in Read["access"] /\ {"access", "sec"} \subseteq Early
    BY DEF Parts, Read, Early
  <2>3. CASE alive
    <3>1. Auditable(view) /\ Tamer(view, before) /\ Tamer(proc, view) /\ Seen = proc
      BY <1>a, <2>1, <2>3 DEF ReportInv, ViewInv, Later, BetweenInv, ViewBetween, AccessInv
    <3>2. Auditable(w)
      BY <1>0, <3>1, ViewAuditable
    <3>3. Tamer(w, before) /\ Tamer(proc, w)
      <4>1. w = [view EXCEPT !.lsm = proc.lsm, !.mapped = proc.mapped] /\ view \in ProcessesWith(Mount)
        BY <3>1 DEF Auditable
      <4>2. proc.mapped = view.mapped /\ proc.mapped = before.mapped
        BY <1>0, <3>1 DEF Tamer, SameIdentity
      <4>3. /\ proc.lsm = "unconfined" => before.lsm = "unconfined"
            /\ before.lsm = "enforce" => proc.lsm = "enforce"
        BY <1>0 DEF Tamer, MoreConfined
      <4>4. Tamer(w, before)
        BY <3>1, <4>1, <4>2, <4>3
           DEF Tamer, SameIdentity, FewerRights, MoreConfined, Cleaner, ProcessesWith, AuditedCapabilities, Isolated
      <4>5. Tamer(proc, w)
        BY <3>1, <4>1, <4>2
           DEF Tamer, SameIdentity, FewerRights, MoreConfined, Cleaner, ProcessesWith, AuditedCapabilities, Isolated
      <4> QED
        BY <4>4, <4>5
    <3> HIDE DEF w
    <3>4. Milder("caps", report["caps"], Snapshot(before)["caps"]) /\ Milder("caps", Snapshot(proc)["caps"], report["caps"])
      BY <2>1, <2>2, <2>3 DEF BetweenInv, LowerInv, UpperInv, NotWorse, NotBetter
    <3>5. NotWorse("mounts", mounts)
      BY <1>0, <3>2, <3>3, <3>4, MountsMilder, SnapshotParts DEF NotWorse
    <3>6. NotBetter("mounts", mounts)
      BY <1>0, <3>2, <3>3, <3>4, MountsMilder, SnapshotParts DEF NotBetter
    <3> QED
      BY <2>1, <2>2, <2>3, <3>5, <3>6, PutBetween
  <2>4. CASE ~alive
    BY <2>1, <2>2, <2>4, PutBetween
  <2> QED
    BY <2>3, <2>4
<1>5. CASE ReadStatus
  <2>1. pc = "sec" /\ alive /\ Look(proc, "uidmap") /\ UNCHANGED torn
    BY <1>5 DEF ReadStatus
  <2>2. Read["uidmap"] = Read["sec"] /\ "uidmap" \in Later \cap Unlinked /\ "sec" \in Early
        /\ "uidmap" \notin Linked \cup Early /\ "sec" \notin Read["sec"]
    BY DEF Read, Later, Early, Unlinked, Linked
  <2>3. UNCHANGED <<proc, before, alive, torn>> /\ pc' = "uidmap" /\ view' = proc /\ ~torn
    BY <2>1, <2>2 DEF Look, process, BetweenInv, ViewBetween, SecurityInv
  <2>4. Above("uidmap", TRUE, FALSE, proc) /\ Below("uidmap", proc)
    BY <1>0, <2>2, TamerIsFewer DEF Above, Below
  <2>5. (Above(pc, alive, torn, view) /\ (alive => Below(pc, view)))'
    BY <1>0, <2>1, <2>3, <2>4 DEF Above, Below
  <2>6. ViewBetween'
    BY <2>2, <2>3, <2>5 DEF ViewBetween, AccessInv, SecurityInv
  <2> QED
    BY <2>1, <2>2, <2>6, LookBetween
<1>16. CASE ReadUidMap \/ ReadFilter \/ ReadProfile
  <2> DEFINE a == [view EXCEPT !.mapped = Seen.mapped]
             b == [view EXCEPT !.seccomp = IF @ = "off" THEN "off" ELSE Seen.seccomp]
             c == [view EXCEPT !.lsm = Seen.lsm]
  <2>1. PICK w \in {a, b, c} :
            /\ \/ pc = "uidmap" /\ Look(w, "filter")
               \/ pc = "filter" /\ Look(w, "profile")
               \/ pc = "profile" /\ Look(w, "setgroups")
            /\ UNCHANGED torn
    BY <1>16 DEF ReadUidMap, ReadFilter, ReadProfile
  <2>2. Auditable(view)
    BY <2>1 DEF ReportInv, ViewInv, Later
  <2>3. Mixed(w, view)
    BY <2>1, <2>2 DEF Mixed, Auditable, ProcessesWith
  <2> HIDE DEF a, b, c
  <2>4. \E then : Successive(w, then)
    <3>1. CASE pc = "uidmap"
      <4>1. Successive(w, "filter")
        BY <2>1, <3>1 DEF Successive, Unlinked, Linked, Read
      <4> QED
        BY <4>1
    <3>2. CASE pc = "filter"
      <4>1. Successive(w, "profile")
        BY <2>1, <3>2 DEF Successive, Unlinked, Linked, Read
      <4> QED
        BY <4>1
    <3>3. CASE pc = "profile"
      <4>1. Successive(w, "setgroups")
        BY <2>1, <3>3 DEF Successive, Unlinked, Linked, Read
      <4> QED
        BY <4>1
    <3> QED
      BY <2>1, <3>1, <3>2, <3>3
  <2> QED
    BY <2>3, <2>4, ReadBetween
<1>17. CASE ReadSetgroups \/ ReadInit \/ ReadGIDMap
  <2> DEFINE a == [view EXCEPT !.setgroups = Seen.setgroups]
             b == [view EXCEPT !.oddInit = Seen.oddInit]
             c == [view EXCEPT !.gids = Seen.gids]
  <2>1. PICK w \in {a, b, c} :
            /\ \/ pc = "setgroups" /\ Look(w, "init")
               \/ pc = "init" /\ Look(w, "cgroup")
               \/ pc = "gidmap" /\ Look(w, "helpers")
            /\ UNCHANGED torn
    BY <1>17 DEF ReadSetgroups, ReadInit, ReadGIDMap
  <2>2. Auditable(view)
    BY <2>1 DEF ReportInv, ViewInv, Later
  <2>3. Mixed(w, view) /\ w.mapped = view.mapped /\ w.lsm = view.lsm /\ w.limits = view.limits
    BY <2>1, <2>2 DEF Mixed, Auditable, ProcessesWith
  <2> HIDE DEF a, b, c
  <2>4. \E then : Successive(w, then)
    <3>1. CASE pc = "setgroups"
      <4>1. Successive(w, "init")
        BY <2>1, <2>3, <3>1 DEF Successive, Unlinked, Linked, Read
      <4> QED
        BY <4>1
    <3>2. CASE pc = "init"
      <4>1. Successive(w, "cgroup")
        BY <2>1, <2>3, <3>2 DEF Successive, Unlinked, Linked, Read
      <4> QED
        BY <4>1
    <3>3. CASE pc = "gidmap"
      <4>1. Successive(w, "helpers")
        BY <2>1, <2>3, <3>3 DEF Successive, Unlinked, Linked, Read
      <4> QED
        BY <4>1
    <3> QED
      BY <2>1, <3>1, <3>2, <3>3
  <2> QED
    BY <2>3, <2>4, ReadBetween
<1>18. CASE ReadCgroup
  <2> DEFINE w == [view EXCEPT !.limits = Seen.limits]
  <2>1. pc = "cgroup" /\ Look(w, "link") /\ UNCHANGED torn
    BY <1>18 DEF ReadCgroup
  <2>2. Auditable(view)
    BY <2>1 DEF ReportInv, ViewInv, Later
  <2>3. Mixed(w, view) /\ w.mapped = view.mapped /\ w.lsm = view.lsm
    BY <2>1, <2>2 DEF Mixed, Auditable, ProcessesWith
  <2> HIDE DEF w
  <2>4. Successive(w, "link")
    BY <2>1, <2>3 DEF Successive, Unlinked, Linked, Read
  <2> QED
    BY <2>3, <2>4, ReadBetween
<1>6. CASE ReadEnv
  <2>1. pc = "env" /\ Put("env", AuditEnv(Seen), "fd")
    BY <1>6 DEF ReadEnv
  <2>2. "env" \in Parts /\ "fd" \in Parts /\ Read["fd"] = Read["env"] \cup {"env"} /\ {"env", "fd"} \cap Early = {}
    BY DEF Parts, Read, Early
  <2>3. CASE alive
    <3>1. NotWorse("env", AuditEnv(Seen)) /\ NotBetter("env", AuditEnv(Seen))
      BY <1>0, <1>a, <2>3, RestMilder, SnapshotParts DEF NotWorse, NotBetter
    <3> QED
      BY <2>1, <2>2, <2>3, <3>1, PutBetween
  <2>4. CASE ~alive
    <3>1. ~Seen.peek
      BY <1>0, <2>4 DEF Seen, Auditable, ProcessesWith
    <3>2. AuditEnv(Seen).score = 100
      BY <3>1 DEF AuditEnv, Clamp
    <3>3. AuditEnv(before).score \in 0 .. 100
      BY <1>0, EnvPart
    <3>4. NotWorse("env", AuditEnv(Seen))
      BY <3>2, <3>3, SnapshotParts DEF NotWorse, Milder
    <3> QED
      BY <2>1, <2>2, <2>4, <3>4, PutBetween
  <2> QED
    BY <2>3, <2>4
<1>7. CASE ReadFD
  <2>1. pc = "fd" /\ Put("fd", AuditFD(Seen), "sysd")
    BY <1>7 DEF ReadFD
  <2>2. "fd" \in Parts /\ "sysd" \in Parts /\ Read["sysd"] = Read["fd"] \cup {"fd"} /\ {"fd", "sysd"} \cap Early = {}
    BY DEF Parts, Read, Early
  <2>3. CASE alive
    <3>1. NotWorse("fd", AuditFD(Seen)) /\ NotBetter("fd", AuditFD(Seen))
      BY <1>0, <1>a, <2>3, RestMilder, SnapshotParts DEF NotWorse, NotBetter
    <3> QED
      BY <2>1, <2>2, <2>3, <3>1, PutBetween
  <2>4. CASE ~alive
    <3>1. ~Seen.peek
      BY <1>0, <2>4 DEF Seen, Auditable, ProcessesWith
    <3>2. AuditFD(Seen).score = 100
      BY <3>1 DEF AuditFD
    <3>3. AuditFD(before).score \in 0 .. 100
      BY <1>0, FDPart
    <3>4. NotWorse("fd", AuditFD(Seen))
      BY <3>2, <3>3, SnapshotParts DEF NotWorse, Milder
    <3> QED
      BY <2>1, <2>2, <2>4, <3>4, PutBetween
  <2> QED
    BY <2>3, <2>4
<1>8. CASE ReadSystemd
  <2>1. PICK unit \in IF alive THEN {proc.unit} ELSE {proc.unit, "none"} :
            pc = "sysd" /\ Put("sysd", AuditSystemd(proc, unit), "sum")
    BY <1>8 DEF ReadSystemd
  <2>2. "sysd" \in Parts /\ Read["sum"] = Read["sysd"] \cup {"sysd"} /\ {"sysd", "sum"} \cap Early = {}
    BY DEF Parts, Read, Early
  <2>3. alive => NotBetter("sysd", AuditSystemd(proc, unit))
    BY <1>0, <2>1, RestMilder, SnapshotParts DEF NotBetter
  <2>4. NotWorse("sysd", AuditSystemd(proc, unit))
    <3>1. CASE unit = before.unit
      BY <1>0, <3>1, RestMilder, SnapshotParts DEF NotWorse
    <3>2. CASE unit = "none"
      <4>1. ~AuditSystemd(proc, unit).found
        BY <3>2 DEF AuditSystemd
      <4>2. AuditSystemd(proc, unit).score \in 0 .. 100 /\ Snapshot(before)["sysd"].score \in 0 .. 100
        BY <1>0, SystemdPart, SnapshotParts
      <4> QED
        BY <4>1, <4>2 DEF NotWorse, Milder
    <3> QED
      BY <1>b, <2>1, <3>1, <3>2
  <2> QED
    BY <2>1, <2>2, <2>3, <2>4, PutBetween
<1>9. CASE Fail
  <2>1. Read[pc'] = {} /\ proc' = proc /\ before' = before /\ pc' = "failed"
    BY <1>9 DEF Fail, Read, process
  <2>2. pc' \notin Early \cup Unlinked \cup Linked
    BY <2>1 DEF Early, Unlinked, Linked
  <2> QED
    BY <2>1, <2>2 DEF BetweenInv, LowerInv, UpperInv, ViewBetween, AccessInv, SecurityInv
<1>10. CASE Assemble \/ AssertFlags
  <2>1. /\ UNCHANGED <<proc, before, alive, torn, report>>
        /\ pc \in {"sum", "assert"} /\ pc' \in {"assert", "exited"}
    BY <1>10 DEF Assemble, AssertFlags, process
  <2>2. Read[pc'] = Read[pc] /\ pc \notin Early /\ pc' \notin Early \cup {"access"} \cup Unlinked \cup Linked
    BY <2>1 DEF Read, Early, Unlinked, Linked
  <2> QED
    BY <2>1, <2>2 DEF BetweenInv, LowerInv, UpperInv, NotWorse, NotBetter, ViewBetween, AccessInv, SecurityInv
<1>11. CASE Again
  <2>1. Read[pc'] = {} /\ proc' = proc /\ before' = proc /\ ~torn'
        /\ pc' \notin {"access"} \cup Unlinked \cup Linked
    BY <1>11 DEF Again, Read, Unlinked, Linked
  <2> QED
    BY <1>0, <2>1 DEF BetweenInv, LowerInv, UpperInv, ViewBetween, AccessInv, SecurityInv
<1>12. CASE Harden
  <2>1. /\ UNCHANGED <<before, alive, pc, view, torn, report>>
        /\ alive /\ proc' \in Hardened(proc)
    BY <1>12 DEF Harden
  <2>2. Auditable(proc') /\ Tamer(proc', proc)
    BY <1>0, <2>1, HardenedAuditable, HardenedTamer
  <2>3. Tamer(proc', before')
    BY <1>0, <2>1, <2>2, TamerTransitive
  <2>4. LowerInv'
    BY <2>1 DEF BetweenInv, LowerInv, NotWorse
  <2>5. UpperInv'
    <3> SUFFICES ASSUME NEW p \in Read[pc] PROVE Milder(p, Snapshot(proc')[p], report[p])
      BY <2>1 DEF UpperInv, NotBetter
    <3>1. Milder(p, Snapshot(proc)[p], report[p])
      BY <2>1 DEF BetweenInv, UpperInv, NotBetter
    <3>2. p \in Parts
      BY DEF ReportInv, ReadInv, Read, Parts, Reads, Later
    <3>3. Milder(p, Snapshot(proc')[p], Snapshot(proc)[p])
      BY <1>0, <2>2, <3>2, SnapshotMilder
    <3> QED
      BY <3>1, <3>3, MilderTransitive
  <2>6. AccessInv'
    <3> SUFFICES ASSUME pc = "access" PROVE Tamer(view, before) /\ Tamer(proc', view)
      BY <2>1 DEF AccessInv
    <3>1. Auditable(view) /\ Tamer(view, before) /\ Tamer(proc, view)
      BY <2>1 DEF ReportInv, ViewInv, Later, BetweenInv, ViewBetween, AccessInv
    <3> QED
      BY <1>0, <2>2, <3>1, TamerTransitive
  <2>7. SecurityInv'
    <3>1. (pc \in Early => ~torn)'
      BY <2>1 DEF BetweenInv, ViewBetween, SecurityInv
    <3>2. ASSUME pc \in Unlinked \cup Linked
          PROVE  (Above(pc, alive, torn, view) /\ (alive => Below(pc, view)))'
      <4>1. Above(pc, alive, torn, view) /\ Below(pc, view)
        BY <2>1, <3>2 DEF BetweenInv, ViewBetween, SecurityInv
      <4>2. Auditable(view)
        BY <3>2 DEF ReportInv, ViewInv, Later, Unlinked, Linked
      <4>3. Below(pc, view)'
        BY <1>0, <2>1, <2>2, <4>1, <4>2, BelowKeeps DEF Below
      <4>4. Above(pc, alive, torn, view)'
        BY <2>1, <4>1 DEF Above
      <4> QED
        BY <4>3, <4>4
    <3> QED
      BY <2>1, <3>1, <3>2 DEF SecurityInv
  <2> QED
    BY <2>3, <2>4, <2>5, <2>6, <2>7 DEF BetweenInv, ViewBetween
<1>13. CASE Exit
  <2>1. /\ UNCHANGED <<proc, before, pc, view, report>> /\ alive /\ ~alive'
        /\ torn' = (torn \/ pc \in {"uidmap", "filter", "profile"})
    BY <1>13 DEF Exit
  <2>2. LowerInv'
    <3> SUFFICES ASSUME pc \notin Early, NEW p \in Read[pc] PROVE NotWorse(p, report[p])'
      BY <2>1 DEF LowerInv
    <3>1. NotWorse(p, report[p])
      BY DEF BetweenInv, LowerInv
    <3>2. torn' = torn \/ p # "sec"
      <4>1. pc \in {"uidmap", "filter", "profile"} => p # "sec"
        BY DEF Read
      <4> QED
        BY <1>0, <2>1, <4>1
    <3> QED
      BY <2>1, <3>1, <3>2 DEF NotWorse
  <2>3. SecurityInv'
    <3>1. (pc \in Early => ~torn)'
      BY <2>1 DEF BetweenInv, ViewBetween, SecurityInv, Early
    <3>2. ASSUME pc \in Unlinked \cup Linked PROVE Above(pc, alive, torn, view)'
      <4>1. Above(pc, alive, torn, view)
        BY <3>2 DEF BetweenInv, ViewBetween, SecurityInv
      <4>2. pc \in Linked => pc \notin {"uidmap", "filter", "profile"}
        BY DEF Linked
      <4> QED
        BY <1>0, <2>1, <4>1, <4>2 DEF Above
    <3> QED
      BY <2>1, <3>1, <3>2 DEF SecurityInv
  <2> QED
    BY <1>0, <2>1, <2>2, <2>3 DEF BetweenInv, UpperInv, ViewBetween, AccessInv
<1>14. CASE UNCHANGED vars
  <2>1. UNCHANGED <<proc, before, alive, pc, view, torn, report>>
    BY <1>14 DEF vars
  <2> QED
    BY <2>1 DEF BetweenInv, LowerInv, UpperInv, NotWorse, NotBetter, ViewBetween, AccessInv, SecurityInv,
                Above, Below
<1> QED
  BY <1>1, <1>2, <1>3, <1>4, <1>5, <1>6, <1>7, <1>8, <1>9, <1>10, <1>11, <1>12, <1>13, <1>14,
     <1>15, <1>16, <1>17, <1>18, LinkBetween, SecurityBetween
     DEF Next, Generate

\* The two invariants hold together.
LEMMA BetweenInvariant == Spec => [](ReportInv /\ BetweenInv)
BY InitReport, NextReport, InitBetween, NextBetween, PTL DEF Spec

(***************************************************************************)
(* The theorems.                                                           *)
(***************************************************************************)
\* When a report is made, its parts lie between those of the two moments.
LEMMA ReportBetween ==
    ASSUME ReportInv, BetweenInv, Reported
    PROVE  /\ \A p \in Parts : NotWorse(p, report[p]) /\ (alive => NotBetter(p, report[p]))
           /\ overall = Weighted(report) /\ verdict = BreakoutOf(report)
<1>1. Read[pc] = Parts /\ pc \notin Early
  BY DEF Reported, Read, Early
<1> QED
  BY <1>1 DEF BetweenInv, LowerInv, UpperInv, ReportInv, SumInv

\* The score is no worse than what the process was when the report began, and
\* no better than what it had become, whatever it gave up in between and
\* whenever each file was read (report.go:33-93), for every set of processes
\* with any number of mounts.  If it exited, or left its mount namespace, in
\* the middle of AuditSecurity it is eight points worse at most.
THEOREM ScoreLiesBetween == Spec => []ScoreBetween
<1>1. ReportInv /\ BetweenInv => ScoreBetween
  <2> SUFFICES ASSUME ReportInv, BetweenInv, Reported
               PROVE  /\ report["sysd"].found = AuditSystemd(before, before.unit).found
                            => overall + (IF torn THEN 8 ELSE 0) >= Weighted(Snapshot(before))
                      /\ alive => overall <= Weighted(Snapshot(proc))
    BY DEF ScoreBetween
  <2>0. torn \in BOOLEAN
    BY DEF ReportInv, ViewInv
  <2>1. ASSUME report["sysd"].found = AuditSystemd(before, before.unit).found
        PROVE  overall + (IF torn THEN 8 ELSE 0) >= Weighted(Snapshot(before))
    <3>1. \A p \in Parts : IF p = "sec" /\ torn THEN Near(report[p], Snapshot(before)[p])
                           ELSE Milder(p, report[p], Snapshot(before)[p])
      BY <2>1, ReportBetween, SnapshotParts DEF NotWorse
    <3>2. /\ \A p \in Parts \ {"sec"} : Milder(p, report[p], Snapshot(before)[p])
          /\ IF torn THEN Near(report["sec"], Snapshot(before)["sec"])
             ELSE Milder("sec", report["sec"], Snapshot(before)["sec"])
      BY <3>1 DEF Parts
    <3>3. Weighted(report) + (IF torn THEN 8 ELSE 0) >= Weighted(Snapshot(before))
      BY <2>0, <3>2, WeightedKeeps
    <3> QED
      BY <3>3, ReportBetween
  <2>2. ASSUME alive PROVE overall <= Weighted(Snapshot(proc))
    <3>1. \A p \in Parts : Milder(p, Snapshot(proc)[p], report[p])
      BY <2>2, ReportBetween DEF NotBetter
    <3>2. Weighted(Snapshot(proc)) + 0 >= Weighted(report)
      <4> DEFINE slack == IF FALSE THEN 8 ELSE 0
      <4>1. Weighted(Snapshot(proc)) + slack >= Weighted(report)
        BY <3>1, WeightedKeeps DEF Parts
      <4> QED
        BY <4>1
    <3>3. Weighted(Snapshot(proc)) \in Int /\ Weighted(report) \in Int
      BY <3>1, WeightedScore DEF Milder
    <3> QED
      BY <3>2, <3>3, ReportBetween
  <2> QED
    BY <2>1, <2>2
<1> QED
  BY <1>1, BetweenInvariant, PTL

\* The same of the verdict, which combines four of the parts
\* (report.go:112, breakout.go:105).
THEOREM VerdictLiesBetween == Spec => []VerdictBetween
<1>1. ReportInv /\ BetweenInv => VerdictBetween
  <2> SUFFICES ASSUME ReportInv, BetweenInv, Reported
               PROVE  /\ verdict <= BreakoutOf(Snapshot(before))
                      /\ alive => verdict >= BreakoutOf(Snapshot(proc))
    BY DEF VerdictBetween
  <2>1. verdict <= BreakoutOf(Snapshot(before))
    <3>1. \A p \in {"fs", "ns", "caps", "mounts"} : Milder(p, report[p], Snapshot(before)[p])
      BY ReportBetween DEF NotWorse, Parts
    <3> QED
      BY <3>1, ReportBetween, VerdictKeeps
  <2>2. ASSUME alive PROVE verdict >= BreakoutOf(Snapshot(proc))
    <3>1. \A p \in Parts : Milder(p, Snapshot(proc)[p], report[p])
      BY <2>2, ReportBetween DEF NotBetter
    <3>2. BreakoutOf(Snapshot(proc)) <= BreakoutOf(report)
      BY <3>1, VerdictKeeps DEF Parts
    <3>3. BreakoutOf(Snapshot(proc)) \in Int /\ BreakoutOf(report) \in Int
      BY VerdictPart DEF BreakoutOf, FeasibilityNone, FeasibilityTrivial
    <3> QED
      BY <3>2, <3>3, ReportBetween
  <2> QED
    BY <2>1, <2>2
<1> QED
  BY <1>1, BetweenInvariant, PTL
================================================================================
