------------------------------ MODULE ReportProofs ------------------------------
(***************************************************************************)
(* What TLAPS proves of Report for every set of processes.  First what     *)
(* each part of a report guarantees of itself (a score within its range,   *)
(* and a point lost wherever an assertion or the breakout assessment finds *)
(* something), then that the reports GenerateReport puts together are made *)
(* of such parts.                                                          *)
(***************************************************************************)
EXTENDS Overview, FiniteSetTheorems, FunctionTheorems, TLAPS

\* A process the audits can be run on.
Auditable(c) == c \in ProcessesWith(Mount) /\ IsFiniteSet(c.mounts)

(***************************************************************************)
(* Scores.                                                                 *)
(***************************************************************************)
\* A clamped score is within 0 .. 100, and 100 only if nothing was deducted.
LEMMA ClampScore ==
    ASSUME NEW x \in Nat
    PROVE  Clamp(100 - x) \in 0 .. 100 /\ (Clamp(100 - x) = 100 => x = 0)
BY DEF Clamp

\* What a fault costs, which is nothing only if there is none.
LEMMA CostIsNat ==
    ASSUME NEW fault, NEW points \in Nat
    PROVE  Cost(fault, points) \in Nat /\ (points > 0 /\ Cost(fault, points) = 0 => ~fault)
BY DEF Cost

\* A limit does not make a deduction vanish.
LEMMA AtMostIsNat ==
    ASSUME NEW x \in Nat, NEW limit \in Nat
    PROVE  AtMost(x, limit) \in Nat /\ (limit > 0 /\ AtMost(x, limit) = 0 => x = 0)
BY DEF AtMost

\* A finite set that is not empty is counted.
LEMMA CountedSet ==
    ASSUME NEW S, IsFiniteSet(S)
    PROVE  Cardinality(S) \in Nat /\ (Cardinality(S) = 0 => S = {})
BY FS_CardinalityType, FS_EmptySet

\* A union of four more elements is finite.
LEMMA AddFour ==
    ASSUME NEW S, IsFiniteSet(S), NEW a, NEW b, NEW c, NEW d
    PROVE  IsFiniteSet(S \cup {a, b, c, d})
<1>1. IsFiniteSet(((S \cup {a}) \cup {b}) \cup {c})
  BY FS_AddElement
<1>2. IsFiniteSet((((S \cup {a}) \cup {b}) \cup {c}) \cup {d})
  BY <1>1, FS_AddElement
<1>3. (((S \cup {a}) \cup {b}) \cup {c}) \cup {d} = S \cup {a, b, c, d}
  OBVIOUS
<1> QED
  BY <1>2, <1>3

\* The fixed sets of names are finite.
LEMMA NamesFinite ==
    /\ IsFiniteSet(Capabilities)
    /\ IsFiniteSet(TenPoints)
    /\ IsFiniteSet(FivePoints)
    /\ IsFiniteSet({"shadow", "passwd", "hosts", "resolv.conf"})
    /\ IsFiniteSet({"core_pattern", "uevent_helper"})
<1>0. IsFiniteSet({})
  BY FS_EmptySet
<1>1. IsFiniteSet(Capabilities)
  <2> DEFINE A == {} \cup {"CAP_SYS_ADMIN", "CAP_SYS_MODULE", "CAP_SYS_RAWIO", "CAP_SYS_PTRACE"}
             B == A \cup {"CAP_SYS_BOOT", "CAP_NET_ADMIN", "CAP_DAC_OVERRIDE", "CAP_MKNOD"}
             C == B \cup {"CAP_BPF", "CAP_SYS_CHROOT", "CAP_NET_RAW", "CAP_DAC_READ_SEARCH"}
             D == C \cup {"CAP_FOWNER", "CAP_KILL", "CAP_SETUID", "CAP_SETGID"}
             E == D \cup {"CAP_SETPCAP", "CAP_PERFMON", "CAP_SETPCAP", "CAP_PERFMON"}
  <2>1. IsFiniteSet(A) BY <1>0, AddFour
  <2>2. IsFiniteSet(B) BY <2>1, AddFour
  <2>3. IsFiniteSet(C) BY <2>2, AddFour
  <2>4. IsFiniteSet(D) BY <2>3, AddFour
  <2>5. IsFiniteSet(E) BY <2>4, AddFour
  <2>6. Capabilities = E
    BY DEF Capabilities, RiskDatabase
  <2> QED
    BY <2>5, <2>6
<1>2. IsFiniteSet(TenPoints)
  <2> DEFINE A == {} \cup {"NoNewPrivileges", "ProtectSystem", "ProtectHome", "PrivateTmp"}
             B == A \cup {"PrivateDevices", "ProtectKernelTunables", "ProtectKernelModules", "SystemCallFilter"}
  <2>1. IsFiniteSet(A) BY <1>0, AddFour
  <2>2. IsFiniteSet(B) BY <2>1, AddFour
  <2>3. TenPoints = B
    BY DEF TenPoints
  <2> QED
    BY <2>2, <2>3
<1>3. IsFiniteSet(FivePoints)
  <2>1. IsFiniteSet({} \cup {"ProtectControlGroups", "RestrictRealtime", "RestrictNamespaces", "MemoryMax"})
    BY <1>0, AddFour
  <2> QED
    BY <2>1 DEF FivePoints
<1>4. IsFiniteSet({} \cup {"shadow", "passwd", "hosts", "resolv.conf"})
  BY <1>0, AddFour
<1>5. IsFiniteSet({} \cup {"core_pattern", "uevent_helper", "core_pattern", "uevent_helper"})
  BY <1>0, AddFour
<1> QED
  BY <1>1, <1>2, <1>3, <1>4, <1>5

(***************************************************************************)
(* The parts, except for mounts.                                           *)
(***************************************************************************)
\* AuditFilesystem: a score in range, lowered by whatever --fail-on-fs-risks looks for.
LEMMA FilesystemPart ==
    ASSUME NEW c, Auditable(c)
    PROVE  LET r == AuditFilesystem(c) IN
           r.score \in 0 .. 100 /\ (r.score = 100 => ~r.risky)
<1>1. c.suid \in Nat /\ c.exposed \subseteq {"shadow", "passwd", "hosts", "resolv.conf"} /\ c.dotenv \in BOOLEAN
  BY DEF Auditable, ProcessesWith
<1>2. IsFiniteSet(c.exposed)
  BY <1>1, NamesFinite, FS_Subset
<1> DEFINE n == Cardinality(c.exposed)
           lost == AtMost(3 * c.suid, 30) + 15 * n + Cost(c.dotenv, 15)
<1>3. n \in Nat /\ (n = 0 => c.exposed = {})
  BY <1>2, CountedSet
<1> HIDE DEF n
<1>4. lost \in Nat /\ (lost = 0 => c.suid = 0 /\ n = 0 /\ ~c.dotenv)
  <2>1. AtMost(3 * c.suid, 30) \in Nat /\ (AtMost(3 * c.suid, 30) = 0 => c.suid = 0)
    <3> DEFINE reduction == 3 * c.suid
    <3>1. reduction \in Nat /\ (reduction = 0 => c.suid = 0)
      BY <1>1
    <3> HIDE DEF reduction
    <3>2. AtMost(reduction, 30) \in Nat /\ (AtMost(reduction, 30) = 0 => reduction = 0)
      BY <3>1, AtMostIsNat
    <3> QED
      BY <3>1, <3>2 DEF reduction
  <2>2. Cost(c.dotenv, 15) \in Nat /\ (Cost(c.dotenv, 15) = 0 => ~c.dotenv)
    BY CostIsNat
  <2> QED
    BY <1>3, <2>1, <2>2
<1>5. CASE ~c.peek
  BY <1>5 DEF AuditFilesystem
<1>6. CASE c.peek
  <2> DEFINE r == AuditFilesystem(c)
  <2>1. r.score = Clamp(100 - lost) /\ r.risky = (c.suid > 0 \/ c.exposed # {} \/ c.dotenv)
    BY <1>6 DEF AuditFilesystem, n
  <2> HIDE DEF lost, r
  <2>2. r.score \in 0 .. 100 /\ (r.score = 100 => lost = 0)
    BY <1>4, <2>1, ClampScore
  <2> QED
    BY <1>1, <1>3, <1>4, <2>1, <2>2 DEF r
<1> QED
  BY <1>5, <1>6

\* AuditNamespaces: sharing one of the five namespaces of --fail-on-shared-ns costs points.
LEMMA NamespacePart ==
    ASSUME NEW c, Auditable(c)
    PROVE  LET r == AuditNamespaces(c) IN
           r.score \in 0 .. 100
           /\ (r.score = 100 => r.shared \subseteq {"user", "cgroup", "time"})
<1> DEFINE r == AuditNamespaces(c)
           lost(n) == IF n \notin r.shared THEN 0
                      ELSE IF c.mapped \/ c.boxed THEN SandboxedPenalty[n] ELSE NamespacePenalty[n]
           all == lost("mnt") + lost("pid") + lost("net") + lost("ipc")
                  + lost("uts") + lost("user") + lost("cgroup") + lost("time")
<1>1. \A n \in {"mnt", "pid", "net", "ipc", "uts"} : lost(n) \in Nat /\ (lost(n) = 0 => n \notin r.shared)
  BY DEF SandboxedPenalty, NamespacePenalty
<1>2. lost("user") \in Nat /\ lost("cgroup") \in Nat /\ lost("time") \in Nat
  BY DEF SandboxedPenalty, NamespacePenalty
<1>3. r.score = Clamp(100 - all)
  BY DEF AuditNamespaces
<1>4. r.shared \subseteq Namespaces
  BY DEF AuditNamespaces, Auditable, ProcessesWith
<1> HIDE DEF r, lost
<1>5. all \in Nat /\ (all = 0 => \A n \in {"mnt", "pid", "net", "ipc", "uts"} : lost(n) = 0)
  <2>1. lost("mnt") \in Nat /\ lost("pid") \in Nat /\ lost("net") \in Nat
        /\ lost("ipc") \in Nat /\ lost("uts") \in Nat
    BY <1>1
  <2> DEFINE a == lost("mnt")
             b == lost("pid")
             d == lost("net")
             e == lost("ipc")
             f == lost("uts")
             g == lost("user") + lost("cgroup") + lost("time")
  <2>2. a \in Nat /\ b \in Nat /\ d \in Nat /\ e \in Nat /\ f \in Nat /\ g \in Nat
    BY <1>2, <2>1
  <2>3. all = a + b + d + e + f + g
    BY <1>2, <2>1
  <2> HIDE DEF a, b, d, e, f, g, all
  <2>4. all \in Nat /\ (all = 0 => a = 0 /\ b = 0 /\ d = 0 /\ e = 0 /\ f = 0)
    BY <2>2, <2>3
  <2> QED
    BY <2>4 DEF a, b, d, e, f
<1> HIDE DEF all
<1>6. r.score \in 0 .. 100 /\ (r.score = 100 => all = 0)
  BY <1>3, <1>5, ClampScore
<1> QED
  BY <1>1, <1>4, <1>5, <1>6 DEF r, Namespaces

Levels == {"Critical", "High", "Medium", "Low"}

\* Whatever downgrades apply, a capability of the database keeps a level that costs points.
LEMMA LevelCosts ==
    ASSUME NEW c, NEW fs, NEW k \in Capabilities
    PROVE  EffectiveLevel(k, c, fs) \in Levels
<1>1. \E l \in {"Critical", "High", "Medium"} : k \in RiskDatabase[l]
  BY DEF Capabilities, RiskDatabase
<1>2. DOMAIN RiskDatabase = {"Critical", "High", "Medium"}
  BY DEF RiskDatabase
<1>3. CapabilityLevel(k) \in {"Critical", "High", "Medium"}
  BY <1>1, <1>2 DEF CapabilityLevel
<1> QED
  BY <1>3 DEF EffectiveLevel, Levels

\* AuditCapabilities: every effective capability of the database costs points.
LEMMA CapabilityPart ==
    ASSUME NEW c, Auditable(c), NEW fs
    PROVE  LET r == AuditCapabilities(c, fs) IN
           /\ r.score \in 0 .. 100
           /\ r.score = 100 => ~r.risky /\ r.eff = {}
           /\ r.audited = {} => ~r.risky /\ r.eff = {}
<1> DEFINE r == AuditCapabilities(c, fs)
           of(l) == {k \in AuditedCapabilities(c) : EffectiveLevel(k, c, fs) = l}
           n(l) == Cardinality(of(l))
           lost == 30 * n("Critical") + 20 * n("High") + 10 * n("Medium") + 3 * n("Low")
<1>1. AuditedCapabilities(c) \subseteq Capabilities /\ c.eff \subseteq AuditedCapabilities(c)
  BY DEF AuditedCapabilities, Auditable, ProcessesWith
<1>2. \A l : IsFiniteSet(of(l))
  BY <1>1, NamesFinite, FS_Subset
<1>3. \A l : n(l) \in Nat /\ (n(l) = 0 => of(l) = {})
  BY <1>2, CountedSet
<1>4. r.score = Clamp(100 - lost) /\ r.eff = c.eff /\ r.risky = (of("Critical") \cup of("High") # {})
  BY DEF AuditCapabilities
<1>5. c.eff \subseteq of("Critical") \cup of("High") \cup of("Medium") \cup of("Low")
  BY <1>1, LevelCosts DEF Levels
<1>a. r.audited = {} => ~r.risky /\ r.eff = {}
  BY <1>1, <1>4 DEF AuditCapabilities
<1> HIDE DEF r, of, n
<1>6. lost \in Nat /\ (lost = 0 => \A l \in Levels : n(l) = 0)
  BY <1>3 DEF Levels
<1> HIDE DEF lost
<1>7. r.score \in 0 .. 100 /\ (r.score = 100 => lost = 0)
  BY <1>4, <1>6, ClampScore
<1>8. r.score = 100 => \A l \in Levels : of(l) = {}
  BY <1>3, <1>6, <1>7
<1>9. r.score = 100 => ~r.risky /\ r.eff = {}
  BY <1>4, <1>5, <1>8 DEF Levels
<1> QED
  BY <1>7, <1>9, <1>a DEF r

\* AuditSecurity: what --fail-on-root and --fail-on-seccomp-disabled look for costs points.
LEMMA SecurityPart ==
    ASSUME NEW c, Auditable(c), NEW fs
    PROVE  LET r == AuditSecurity(c, fs) IN
           r.score \in 0 .. 100
           /\ (r.score = 100 => ~r.hostRoot /\ r.seccomp \notin {"off", "allow"})
<1> DEFINE r == AuditSecurity(c, fs)
           off == Cost(c.seccomp = "off", 20)
           allow == Cost(c.seccomp = "allow", 15)
           host == Cost(HostRoot(c), 30)
           nnp == Cost(~c.nnp /\ fs.suid > 0, 15)
           lost == host + nnp + off + allow + Cost(c.lsm = "unconfined", 20)
                   + Cost(c.setgroups /\ c.mapped, 10) + InitReduction(c) + CgroupReduction(c)
                   + GIDMapReduction(c) + KernelHelperReduction(c)
<1>1. host \in Nat /\ (host = 0 => ~HostRoot(c))
  BY CostIsNat
<1>2. off \in Nat /\ (off = 0 => c.seccomp # "off")
  BY DEF Cost
<1>3. allow \in Nat /\ (allow = 0 => c.seccomp # "allow")
  BY DEF Cost
<1>4. nnp \in Nat /\ Cost(c.lsm = "unconfined", 20) \in Nat /\ Cost(c.setgroups /\ c.mapped, 10) \in Nat
  BY CostIsNat
<1>5. InitReduction(c) \in Nat
  BY CostIsNat DEF InitReduction
<1>6. CgroupReduction(c) \in Nat
  <2>1. /\ Cost(Isolated(c, "mnt") /\ "memory" \notin c.limits, 10) \in Nat
        /\ Cost(Isolated(c, "mnt") /\ "pids" \notin c.limits, 10) \in Nat
    BY CostIsNat
  <2> QED
    BY <2>1 DEF CgroupReduction
<1>7. GIDMapReduction(c) \in Nat
  <2>1. c.gids \in Nat
    BY DEF Auditable, ProcessesWith
  <2> QED
    BY <2>1 DEF GIDMapReduction
<1>8. KernelHelperReduction(c) \in Nat
  <2>1. c.helpers \in SUBSET {"core_pattern", "uevent_helper"}
    BY DEF Auditable, ProcessesWith
  <2>2. Cardinality(c.helpers) \in Nat
    BY <2>1, NamesFinite, FS_Subset, CountedSet
  <2> QED
    BY <2>2 DEF KernelHelperReduction
<1>9. r.score = Clamp(100 - lost) /\ r.hostRoot = HostRoot(c) /\ r.seccomp = c.seccomp
  BY DEF AuditSecurity
<1> HIDE DEF r, off, allow, host, nnp
<1>10. lost \in Nat /\ (lost = 0 => host = 0 /\ off = 0 /\ allow = 0)
  BY <1>1, <1>2, <1>3, <1>4, <1>5, <1>6, <1>7, <1>8
<1> HIDE DEF lost
<1>11. r.score \in 0 .. 100 /\ (r.score = 100 => lost = 0)
  BY <1>9, <1>10, ClampScore
<1> QED
  BY <1>1, <1>2, <1>3, <1>9, <1>10, <1>11 DEF r

\* AuditEnv: a secret that was found costs points.
LEMMA EnvPart ==
    ASSUME NEW c, Auditable(c)
    PROVE  LET r == AuditEnv(c) IN r.score \in 0 .. 100 /\ (r.score = 100 => ~r.secrets)
<1> DEFINE found == IF c.peek THEN c.secrets ELSE 0
<1>1. found \in Nat
  BY DEF Auditable, ProcessesWith
<1> HIDE DEF found
<1>2. 15 * found \in Nat /\ (15 * found = 0 => ~(found > 0))
  BY <1>1
<1>3. Clamp(100 - 15 * found) \in 0 .. 100 /\ (Clamp(100 - 15 * found) = 100 => 15 * found = 0)
  BY <1>2, ClampScore
<1>4. AuditEnv(c).score = Clamp(100 - 15 * found) /\ AuditEnv(c).secrets = (found > 0)
  BY DEF AuditEnv, found
<1> QED
  BY <1>2, <1>3, <1>4

\* AuditFD: a leaked descriptor costs points.
LEMMA FDPart ==
    ASSUME NEW c, Auditable(c)
    PROVE  LET r == AuditFD(c) IN r.score \in 0 .. 100 /\ (r.score = 100 => ~r.leaks)
<1>1. c.dirs \in Nat /\ c.accounts \in Nat /\ c.disks \in Nat
  BY DEF Auditable, ProcessesWith
<1> DEFINE lost == 15 * c.dirs + 20 * c.accounts + 25 * c.disks
           leaks == c.dirs + c.accounts + c.disks > 0
<1>2. lost \in Nat /\ (lost = 0 => ~leaks)
  BY <1>1
<1>3. AuditFD(c) = IF ~c.peek THEN [leaks |-> FALSE, score |-> 100]
                   ELSE [leaks |-> leaks, score |-> Clamp(100 - lost)]
  BY DEF AuditFD
<1> HIDE DEF lost, leaks
<1>4. Clamp(100 - lost) \in 0 .. 100 /\ (Clamp(100 - lost) = 100 => lost = 0)
  BY <1>2, ClampScore
<1> QED
  BY <1>2, <1>3, <1>4

\* AuditSystemd: a score in range, for whatever unit is found.
LEMMA SystemdPart ==
    ASSUME NEW c, Auditable(c), NEW unit
    PROVE  AuditSystemd(c, unit).score \in 0 .. 100
<1> DEFINE lost == 10 * Cardinality(c.insecure \cap TenPoints) + 5 * Cardinality(c.insecure \cap FivePoints)
<1>1. Cardinality(c.insecure \cap TenPoints) \in Nat /\ Cardinality(c.insecure \cap FivePoints) \in Nat
  BY NamesFinite, FS_Intersection, CountedSet
<1>2. lost \in Nat
  BY <1>1
<1>3. AuditSystemd(c, unit).score = CASE unit = "absent" -> 50
                                      [] unit = "file" -> Clamp(100 - lost)
                                      [] OTHER -> 0
  BY DEF AuditSystemd
<1> HIDE DEF lost
<1>4. Clamp(100 - lost) \in 0 .. 100
  BY <1>2, ClampScore
<1> QED
  BY <1>3, <1>4

(***************************************************************************)
(* Mounts.                                                                 *)
(***************************************************************************)
Weaknesses == {"sec", "noresvport", "udp", "v3"}
EscapeKinds == {"docker_socket", "host_root_mount", "libmodules"}
OtherKinds == {"proc", "sys", "dev", "shared", "nodev", "nosuid", "noexec", "nosymfollow", "nfs",
               "tmpfs_scratch", "root_rw"}
Kinds == EscapeKinds \cup OtherKinds

Whats == {""} \cup Flags \cup Weaknesses

\* The levels a finding of each kind may have.
Graded(kind, what, level) ==
    CASE kind = "docker_socket" -> level = "Critical"
      [] kind \in {"proc", "sys"} -> level \in {"Critical", "Medium", "Low", "Info"}
      [] kind = "dev" -> level \in {"High", "Low", "Info"}
      [] kind = "libmodules" -> level \in {"Critical", "Low"}
      [] kind \in {"nosuid", "nodev", "shared"} -> level \in {"High", "Low"}
      [] kind \in {"noexec", "nosymfollow"} -> level = "Medium"
      [] kind = "host_root_mount" -> level = "High"
      [] kind = "nfs" -> what \in Weaknesses /\ level = WeakLevel(what)
      [] OTHER -> level = "Low"

\* A finding about one of these mounts, of a known kind and level.
IsGraded(f, mounts) ==
    \E m \in mounts, k \in Kinds, w \in Whats, l \in Levels \cup {"Info"} :
        f = Finding(m, k, w, l) /\ Graded(k, w, l)

\* What a writable mount at a sensitive place may be graded.
LEMMA PlaceGraded ==
    ASSUME NEW c, NEW eff, NEW m, Place(m) # "none"
    PROVE  /\ Place(m) \in Kinds
           /\ PlaceLevel(m, c, eff) \in Levels \cup {"Info"}
           /\ Graded(Place(m), "", PlaceLevel(m, c, eff))
<1>1. \A needed : Mitigated(eff, "Critical", needed) \in {"Critical", "Low"}
  BY DEF Mitigated
<1>2. \A needed : Mitigated(eff, "High", needed) \in {"High", "Low"}
  BY DEF Mitigated
<1>3. CASE Place(m) \in {"proc", "sys"}
  <2>1. PlaceLevel(m, c, eff) \in {"Critical", "Medium", "Low", "Info"}
    BY <1>1, <1>3 DEF PlaceLevel
  <2> QED
    BY <1>3, <2>1 DEF Graded, Levels, Kinds, OtherKinds
<1>4. CASE Place(m) = "dev"
  <2>1. PlaceLevel(m, c, eff) \in {"High", "Low", "Info"}
    BY <1>2, <1>4 DEF PlaceLevel
  <2> QED
    BY <1>4, <2>1 DEF Graded, Levels, Kinds, OtherKinds
<1>5. CASE Place(m) = "libmodules"
  <2>1. PlaceLevel(m, c, eff) \in {"Critical", "Low"}
    BY <1>1, <1>5 DEF PlaceLevel
  <2> QED
    BY <1>5, <2>1 DEF Graded, Levels, Kinds, EscapeKinds
<1>6. CASE Place(m) = "root_rw"
  <2>1. PlaceLevel(m, c, eff) = "Low"
    BY <1>6 DEF PlaceLevel
  <2> QED
    BY <1>6, <2>1 DEF Graded, Levels, Kinds, OtherKinds
<1>7. Place(m) \in {"proc", "sys", "dev", "libmodules", "root_rw", "none"}
  BY DEF Place
<1> QED
  BY <1>3, <1>4, <1>5, <1>6, <1>7

\* Every finding is about a mount of the process, and of a known kind and level.
LEMMA FindingsGraded ==
    ASSUME NEW c, NEW eff
    PROVE  \A f \in Findings(c, eff) : IsGraded(f, c.mounts)
<1> DEFINE G(x) == IsGraded(x, c.mounts)
           writable == {m \in c.mounts : IsRW(m)}
           lacking(S) == {p \in S \X Flags : p[2] \notin p[1].flags}
           A == {Finding(m, "docker_socket", "", "Critical") : m \in {n \in c.mounts : n.socket}}
           B == {Finding(m, Place(m), "", PlaceLevel(m, c, eff)) : m \in {n \in writable : Place(n) # "none"}}
           C == {Finding(p[1], "tmpfs_scratch", p[2], "Low") : p \in lacking({m \in writable : m.at = "scratch"})}
           D == {Finding(m, "host_root_mount", "", "High") : m \in {n \in writable : n.at = "/host"}}
           E == {Finding(p[1], p[2], p[2], FlagLevel(p[2], c)) : p \in lacking({m \in writable : IsExternal(m)})}
           F == {Finding(p[1], "nfs", p[2], WeakLevel(p[2])) :
                    p \in {q \in {m \in c.mounts : m.fs = "nfs"} \X {"sec", "noresvport", "udp", "v3"} :
                             q[2] \in q[1].weak}}
           H == {Finding(m, "shared", "", SharedLevel(c, eff)) : m \in {n \in writable : n.shared}}
<1>1. Findings(c, eff) = UNION {A, B, C, D, E, F, H}
  BY DEF Findings
<1>2. ASSUME NEW m \in c.mounts, NEW k \in Kinds, NEW w \in Whats, NEW l \in Levels \cup {"Info"},
             Graded(k, w, l)
      PROVE  G(Finding(m, k, w, l))
  BY <1>2 DEF IsGraded
<1>3. "" \in Whats /\ Flags \subseteq Whats /\ Weaknesses \subseteq Whats /\ Flags \subseteq Kinds
  BY DEF Whats, Flags, Kinds, OtherKinds
<1> HIDE DEF G
<1>4. ASSUME NEW x \in A PROVE G(x)
  <2>1. PICK m \in c.mounts : x = Finding(m, "docker_socket", "", "Critical")
    OBVIOUS
  <2>2. "docker_socket" \in Kinds /\ "Critical" \in Levels /\ Graded("docker_socket", "", "Critical")
    BY DEF Kinds, EscapeKinds, Levels, Graded
  <2> QED
    BY <1>2, <1>3, <2>1, <2>2
<1>5. ASSUME NEW x \in B PROVE G(x)
  <2>1. PICK m \in c.mounts : Place(m) # "none" /\ x = Finding(m, Place(m), "", PlaceLevel(m, c, eff))
    OBVIOUS
  <2> QED
    BY <1>2, <1>3, <2>1, PlaceGraded
<1>6. ASSUME NEW x \in C PROVE G(x)
  <2>1. PICK m \in c.mounts, w \in Flags : x = Finding(m, "tmpfs_scratch", w, "Low")
    OBVIOUS
  <2>2. "tmpfs_scratch" \in Kinds /\ "Low" \in Levels /\ Graded("tmpfs_scratch", w, "Low")
    BY DEF Kinds, OtherKinds, Levels, Graded
  <2> QED
    BY <1>2, <1>3, <2>1, <2>2
<1>7. ASSUME NEW x \in D PROVE G(x)
  <2>1. PICK m \in c.mounts : x = Finding(m, "host_root_mount", "", "High")
    OBVIOUS
  <2>2. "host_root_mount" \in Kinds /\ "High" \in Levels /\ Graded("host_root_mount", "", "High")
    BY DEF Kinds, EscapeKinds, Levels, Graded
  <2> QED
    BY <1>2, <1>3, <2>1, <2>2
<1>8. ASSUME NEW x \in E PROVE G(x)
  <2>1. PICK m \in c.mounts, w \in Flags : x = Finding(m, w, w, FlagLevel(w, c))
    OBVIOUS
  <2>2. FlagLevel(w, c) \in Levels /\ Graded(w, w, FlagLevel(w, c))
    BY <2>1 DEF Flags, FlagLevel, Levels, Graded
  <2> QED
    BY <1>2, <1>3, <2>1, <2>2
<1>9. ASSUME NEW x \in F PROVE G(x)
  <2>1. PICK m \in c.mounts, w \in Weaknesses : x = Finding(m, "nfs", w, WeakLevel(w))
    BY DEF Weaknesses
  <2>2. "nfs" \in Kinds /\ WeakLevel(w) \in Levels /\ Graded("nfs", w, WeakLevel(w))
    BY <2>1 DEF Kinds, OtherKinds, Levels, Graded, WeakLevel
  <2> QED
    BY <1>2, <1>3, <2>1, <2>2
<1>10. ASSUME NEW x \in H PROVE G(x)
  <2>1. PICK m \in c.mounts : x = Finding(m, "shared", "", SharedLevel(c, eff))
    OBVIOUS
  <2>2. SharedLevel(c, eff) \in {"High", "Low"}
    BY DEF SharedLevel, Mitigated
  <2>3. "shared" \in Kinds /\ SharedLevel(c, eff) \in Levels /\ Graded("shared", "", SharedLevel(c, eff))
    BY <2>2 DEF Kinds, OtherKinds, Levels, Graded
  <2> QED
    BY <1>2, <1>3, <2>1, <2>3
<1> HIDE DEF A, B, C, D, E, F, H
<1>11. \A f \in Findings(c, eff) : G(f)
  BY <1>1, <1>4, <1>5, <1>6, <1>7, <1>8, <1>9, <1>10
<1> QED
  BY <1>11 DEF G

\* Finitely many mounts have finitely many findings.
LEMMA FindingsFinite ==
    ASSUME NEW c, IsFiniteSet(c.mounts), NEW eff
    PROVE  IsFiniteSet(Findings(c, eff))
<1>0. IsFiniteSet({})
  BY FS_EmptySet
<1>1. IsFiniteSet(Kinds)
  <2> DEFINE A == {} \cup {"docker_socket", "host_root_mount", "libmodules", "proc"}
             B == A \cup {"sys", "dev", "shared", "nodev"}
             C == B \cup {"nosuid", "noexec", "nosymfollow", "nfs"}
             D == C \cup {"tmpfs_scratch", "root_rw", "tmpfs_scratch", "root_rw"}
  <2>1. IsFiniteSet(A) BY <1>0, AddFour
  <2>2. IsFiniteSet(B) BY <2>1, AddFour
  <2>3. IsFiniteSet(C) BY <2>2, AddFour
  <2>4. IsFiniteSet(D) BY <2>3, AddFour
  <2>5. Kinds = D
    BY DEF Kinds, EscapeKinds, OtherKinds
  <2> QED
    BY <2>4, <2>5
<1>2. IsFiniteSet(Whats)
  <2> DEFINE A == {} \cup {"nosuid", "nodev", "noexec", "nosymfollow"}
             B == A \cup {"sec", "noresvport", "udp", "v3"}
  <2>1. IsFiniteSet(A) BY <1>0, AddFour
  <2>2. IsFiniteSet(B) BY <2>1, AddFour
  <2>3. IsFiniteSet(B \cup {""}) BY <2>2, FS_AddElement
  <2>4. Whats = B \cup {""}
    BY DEF Whats, Flags, Weaknesses
  <2> QED
    BY <2>3, <2>4
<1>3. IsFiniteSet(Levels \cup {"Info"})
  <2>1. IsFiniteSet({} \cup {"Critical", "High", "Medium", "Low"})
    BY <1>0, AddFour
  <2>2. IsFiniteSet(Levels)
    BY <2>1 DEF Levels
  <2> QED
    BY <2>2, FS_AddElement
<1> DEFINE All == (c.mounts \X Kinds) \X (Whats \X (Levels \cup {"Info"}))
           F == [t \in All |-> Finding(t[1][1], t[1][2], t[2][1], t[2][2])]
           Image == {F[t] : t \in All}
<1>4. IsFiniteSet(All)
  <2>1. IsFiniteSet(c.mounts \X Kinds)
    BY <1>1, FS_Product
  <2>2. IsFiniteSet(Whats \X (Levels \cup {"Info"}))
    BY <1>2, <1>3, FS_Product
  <2> QED
    BY <2>1, <2>2, FS_Product
<1> HIDE DEF All
<1>5. F \in Surjection(All, Image)
  BY Fun_IsSurj
<1>6. IsFiniteSet(Image)
  BY <1>4, <1>5, FS_Surjection
<1>7. ASSUME NEW f \in Findings(c, eff) PROVE f \in Image
  <2>1. PICK m \in c.mounts, k \in Kinds, w \in Whats, l \in Levels \cup {"Info"} : f = Finding(m, k, w, l)
    BY FindingsGraded DEF IsGraded
  <2> DEFINE t == <<<<m, k>>, <<w, l>>>>
  <2>2. t \in All
    BY <2>1 DEF All
  <2>3. F[t] = f
    BY <2>1, <2>2
  <2> QED
    BY <2>2, <2>3
<1> QED
  BY <1>6, <1>7, FS_Subset

\* A count of findings is a number, and 0 only if there are none.
LEMMA FindingsCounted ==
    ASSUME NEW found, IsFiniteSet(found), NEW kind
    PROVE  /\ \A level : LET n == Cardinality({f \in found : f.kind = kind /\ f.level = level})
                         IN  n \in Nat /\ (n = 0 => ~\E f \in found : f.kind = kind /\ f.level = level)
           /\ \A w : LET n == Cardinality({f \in found : f.kind = "nfs" /\ f.what = w})
                     IN  n \in Nat /\ (n = 0 => ~\E f \in found : f.kind = "nfs" /\ f.what = w)
<1>1. \A level : IsFiniteSet({f \in found : f.kind = kind /\ f.level = level})
  BY FS_Subset
<1>2. \A w : IsFiniteSet({f \in found : f.kind = "nfs" /\ f.what = w})
  BY FS_Subset
<1> QED
  BY <1>1, <1>2, CountedSet

\* A finding the assertions call severe is one that a deduction is made for.
LEMMA SevereDeducted ==
    ASSUME NEW found, IsFiniteSet(found), NEW kind \in Kinds, NEW c
    PROVE  /\ Deduction(found, kind, c) \in Nat
           /\ Deduction(found, kind, c) = 0 =>
                  \A f \in found : f.kind = kind /\ Graded(kind, f.what, f.level) => f.level \notin Severe
<1> DEFINE n(level) == Cardinality({f \in found : f.kind = kind /\ f.level = level})
           weak(w) == Cardinality({f \in found : f.kind = "nfs" /\ f.what = w})
           d == Deduction(found, kind, c)
           none(level) == ~\E f \in found : f.kind = kind /\ f.level = level
           noneWeak(w) == ~\E f \in found : f.kind = "nfs" /\ f.what = w
           mild == \A f \in found : f.kind = kind /\ Graded(kind, f.what, f.level) => f.level \notin Severe
<1>1. \A level : n(level) \in Nat /\ (n(level) = 0 => none(level))
  BY FindingsCounted
<1>2. \A w : weak(w) \in Nat /\ (weak(w) = 0 => noneWeak(w))
  BY FindingsCounted
<1>3. d = CASE kind \in {"proc", "sys"} -> 35 * n("Critical") + 10 * n("Medium") + 3 * n("Low")
            [] kind = "dev" -> 30 * n("High") + 3 * n("Low")
            [] kind = "libmodules" -> 35 * n("Critical") + 5 * n("Low")
            [] kind \in {"nosuid", "nodev"} -> 15 * n("High") + 5 * n("Low")
            [] kind \in {"noexec", "nosymfollow"} -> 10 * n("Medium")
            [] kind = "shared" -> 20 * n("High") + (IF c.mapped THEN 5 ELSE 2) * n("Low")
            [] kind = "nfs" -> 10 * weak("sec") + 5 * weak("noresvport") + 3 * (weak("udp") + weak("v3"))
            [] kind = "tmpfs_scratch" -> 3 * n("Low")
            [] kind = "root_rw" -> 5 * n("Low")
            [] kind = "host_root_mount" -> 30 * n("High")
            [] OTHER -> 40 * n("Critical")
  BY DEF Deduction
<1> HIDE DEF n, weak, d
<1>4. CASE kind \in {"proc", "sys"}
  <2>1. d = 35 * n("Critical") + 10 * n("Medium") + 3 * n("Low")
    BY <1>3, <1>4
  <2>2. d \in Nat /\ (d = 0 => n("Critical") = 0 /\ n("Medium") = 0)
    <3> DEFINE x == n("Critical")
               y == n("Medium")
               z == n("Low")
    <3>1. x \in Nat /\ y \in Nat /\ z \in Nat
      BY <1>1
    <3>2. d = 35 * x + 10 * y + 3 * z
      BY <2>1
    <3> HIDE DEF x, y, z
    <3>3. d \in Nat /\ (d = 0 => x = 0 /\ y = 0)
      BY <3>1, <3>2
    <3> QED
      BY <3>3 DEF x, y
  <2>3. d = 0 => none("Critical") /\ none("Medium")
    BY <1>1, <2>2
  <2> QED
    BY <1>4, <2>2, <2>3 DEF d, Graded, Severe
<1>5. CASE kind = "dev"
  <2>1. d = 30 * n("High") + 3 * n("Low")
    BY <1>3, <1>5
  <2>2. d \in Nat /\ (d = 0 => n("High") = 0)
    BY <1>1, <2>1
  <2>3. d = 0 => none("High")
    BY <1>1, <2>2
  <2> QED
    BY <1>5, <2>2, <2>3 DEF d, Graded, Severe
<1>6. CASE kind = "libmodules"
  <2>1. d = 35 * n("Critical") + 5 * n("Low")
    BY <1>3, <1>6
  <2>2. d \in Nat /\ (d = 0 => n("Critical") = 0)
    BY <1>1, <2>1
  <2>3. d = 0 => none("Critical")
    BY <1>1, <2>2
  <2> QED
    BY <1>6, <2>2, <2>3 DEF d, Graded, Severe
<1>7. CASE kind \in {"nosuid", "nodev"}
  <2>1. d = 15 * n("High") + 5 * n("Low")
    BY <1>3, <1>7
  <2>2. d \in Nat /\ (d = 0 => n("High") = 0)
    BY <1>1, <2>1
  <2>3. d = 0 => none("High")
    BY <1>1, <2>2
  <2> QED
    BY <1>7, <2>2, <2>3 DEF d, Graded, Severe
<1>8. CASE kind \in {"noexec", "nosymfollow"}
  <2>1. d = 10 * n("Medium")
    BY <1>3, <1>8
  <2>2. d \in Nat /\ (d = 0 => n("Medium") = 0)
    BY <1>1, <2>1
  <2>3. d = 0 => none("Medium")
    BY <1>1, <2>2
  <2> QED
    BY <1>8, <2>2, <2>3 DEF d, Graded, Severe
<1>9. CASE kind = "shared"
  <2> DEFINE points == IF c.mapped THEN 5 ELSE 2
  <2>1. d = 20 * n("High") + points * n("Low") /\ points \in {2, 5}
    BY <1>3, <1>9
  <2> HIDE DEF points
  <2>2. d \in Nat /\ (d = 0 => n("High") = 0)
    BY <1>1, <2>1
  <2>3. d = 0 => none("High")
    BY <1>1, <2>2
  <2> QED
    BY <1>9, <2>2, <2>3 DEF d, Graded, Severe
<1>10. CASE kind = "nfs"
  <2>1. d = 10 * weak("sec") + 5 * weak("noresvport") + 3 * (weak("udp") + weak("v3"))
    BY <1>3, <1>10
  <2>2. d \in Nat /\ (d = 0 => weak("sec") = 0 /\ weak("noresvport") = 0)
    <3> DEFINE x == weak("sec")
               y == weak("noresvport")
               z == weak("udp") + weak("v3")
    <3>1. x \in Nat /\ y \in Nat /\ z \in Nat
      BY <1>2
    <3>2. d = 10 * x + 5 * y + 3 * z
      BY <2>1
    <3> HIDE DEF x, y, z
    <3>3. d \in Nat /\ (d = 0 => x = 0 /\ y = 0)
      BY <3>1, <3>2
    <3> QED
      BY <3>3 DEF x, y
  <2>3. d = 0 => noneWeak("sec") /\ noneWeak("noresvport")
    BY <1>2, <2>2
  <2> QED
    BY <1>10, <2>2, <2>3 DEF d, Graded, Severe, WeakLevel, Weaknesses
<1>11. CASE kind = "tmpfs_scratch"
  <2>1. d = 3 * n("Low")
    BY <1>3, <1>11
  <2>2. d \in Nat
    BY <1>1, <2>1
  <2> QED
    BY <1>11, <2>2 DEF d, Graded, Severe
<1>12. CASE kind = "root_rw"
  <2>1. d = 5 * n("Low")
    BY <1>3, <1>12
  <2>2. d \in Nat
    BY <1>1, <2>1
  <2> QED
    BY <1>12, <2>2 DEF d, Graded, Severe
<1>13. CASE kind = "host_root_mount"
  <2>1. d = 30 * n("High")
    BY <1>3, <1>13
  <2>2. d \in Nat /\ (d = 0 => n("High") = 0)
    BY <1>1, <2>1
  <2>3. d = 0 => none("High")
    BY <1>1, <2>2
  <2> QED
    BY <1>13, <2>2, <2>3 DEF d, Graded, Severe
<1>14. CASE kind = "docker_socket"
  <2>1. d = 40 * n("Critical")
    BY <1>3, <1>14
  <2>2. d \in Nat /\ (d = 0 => n("Critical") = 0)
    BY <1>1, <2>1
  <2>3. d = 0 => none("Critical")
    BY <1>1, <2>2
  <2> QED
    BY <1>14, <2>2, <2>3 DEF d, Graded, Severe
<1> QED
  BY <1>4, <1>5, <1>6, <1>7, <1>8, <1>9, <1>10, <1>11, <1>12, <1>13, <1>14
     DEF Kinds, EscapeKinds, OtherKinds

\* The limits per category and in all leave something of every deduction.
LEMMA LimitsKeep ==
    ASSUME NEW found, IsFiniteSet(found), NEW c
    PROVE  /\ NonEscapeReduction(found, c) \in Nat
           /\ NonEscapeReduction(found, c) = 0 => \A kind \in OtherKinds : Deduction(found, kind, c) = 0
<1> DEFINE limit == IF c.mapped THEN UnprivilegedLimit ELSE PrivilegedLimit
           part(kind) == AtMost(Deduction(found, kind, c), limit[kind])
           a1 == part("proc")
           a2 == part("sys")
           a3 == part("dev")
           a4 == part("shared")
           a5 == part("nodev")
           a6 == part("nosuid")
           a7 == part("noexec")
           a8 == part("nosymfollow")
           a9 == part("nfs")
           a10 == part("tmpfs_scratch")
           a11 == part("root_rw")
           sum == a1 + a2 + a3 + a4 + a5 + a6 + a7 + a8 + a9 + a10 + a11
<1>1. \A kind \in OtherKinds : limit[kind] \in Nat /\ limit[kind] > 0
  BY DEF OtherKinds, UnprivilegedLimit, PrivilegedLimit
<1>2. limit["all"] \in Nat /\ limit["all"] > 0
  BY DEF UnprivilegedLimit, PrivilegedLimit
<1> HIDE DEF limit
<1>3. \A kind \in OtherKinds : Deduction(found, kind, c) \in Nat
  BY SevereDeducted DEF Kinds
<1>4. \A kind \in OtherKinds : part(kind) \in Nat /\ (part(kind) = 0 => Deduction(found, kind, c) = 0)
  BY <1>1, <1>3, AtMostIsNat
<1> HIDE DEF part
<1>5. /\ a1 \in Nat /\ a2 \in Nat /\ a3 \in Nat /\ a4 \in Nat /\ a5 \in Nat /\ a6 \in Nat
      /\ a7 \in Nat /\ a8 \in Nat /\ a9 \in Nat /\ a10 \in Nat /\ a11 \in Nat
  BY <1>4 DEF OtherKinds
<1>6. NonEscapeReduction(found, c) = AtMost(sum, limit["all"])
  BY DEF NonEscapeReduction, part, limit
<1>7. (a1 = 0 /\ a2 = 0 /\ a3 = 0 /\ a4 = 0 /\ a5 = 0 /\ a6 = 0 /\ a7 = 0 /\ a8 = 0 /\ a9 = 0
       /\ a10 = 0 /\ a11 = 0) => \A kind \in OtherKinds : part(kind) = 0
  BY DEF OtherKinds
<1> HIDE DEF a1, a2, a3, a4, a5, a6, a7, a8, a9, a10, a11
<1>8. /\ sum \in Nat
      /\ sum = 0 => a1 = 0 /\ a2 = 0 /\ a3 = 0 /\ a4 = 0 /\ a5 = 0 /\ a6 = 0 /\ a7 = 0
                    /\ a8 = 0 /\ a9 = 0 /\ a10 = 0 /\ a11 = 0
  BY <1>5
<1> HIDE DEF sum
<1>9. /\ NonEscapeReduction(found, c) \in Nat
      /\ NonEscapeReduction(found, c) = 0 => sum = 0
  BY <1>2, <1>6, <1>8, AtMostIsNat
<1> QED
  BY <1>4, <1>7, <1>8, <1>9

\* AuditMounts: whatever --fail-on-mount-risks looks for costs points.
LEMMA MountsPart ==
    ASSUME NEW c, Auditable(c), NEW caps
    PROVE  LET r == AuditMounts(c, caps) IN
           r.score \in 0 .. 100 /\ (r.score = 100 => \A f \in r.found : f.level \notin Severe)
<1> DEFINE found == Findings(c, caps.eff)
           a == Deduction(found, "docker_socket", c)
           b == Deduction(found, "host_root_mount", c)
           d == Deduction(found, "libmodules", c)
           e == NonEscapeReduction(found, c)
           lost == a + b + d + e
           clean == (\E m \in c.mounts : m.at = "/" /\ "ro" \in m.modes) /\ found = {}
           r == AuditMounts(c, caps)
<1>1. IsFiniteSet(found)
  BY FindingsFinite DEF Auditable
<1>2. \A f \in found : f.kind \in Kinds /\ Graded(f.kind, f.what, f.level)
  BY FindingsGraded DEF IsGraded, Finding
<1>3. r.found = found /\ r.score = IF clean THEN 100 ELSE Clamp(100 - lost)
  BY DEF AuditMounts
<1> HIDE DEF found, r
<1>4. clean => found = {}
  OBVIOUS
<1> HIDE DEF clean
<1>5. a \in Nat /\ b \in Nat /\ d \in Nat
  BY <1>1, SevereDeducted DEF Kinds, EscapeKinds
<1>6. e \in Nat /\ (e = 0 => \A kind \in OtherKinds : Deduction(found, kind, c) = 0)
  BY <1>1, LimitsKeep
<1>7. a = 0 /\ b = 0 /\ d = 0 /\ e = 0 => \A kind \in Kinds : Deduction(found, kind, c) = 0
  BY <1>6 DEF Kinds, EscapeKinds
<1>8. (\A kind \in Kinds : Deduction(found, kind, c) = 0) => \A f \in found : f.level \notin Severe
  BY <1>1, <1>2, SevereDeducted
<1> HIDE DEF a, b, d, e
<1>9. lost \in Nat /\ (lost = 0 => a = 0 /\ b = 0 /\ d = 0 /\ e = 0)
  BY <1>5, <1>6
<1> HIDE DEF lost
<1>10. Clamp(100 - lost) \in 0 .. 100 /\ (Clamp(100 - lost) = 100 => lost = 0)
  BY <1>9, ClampScore
<1>11. r.score \in 0 .. 100
  BY <1>3, <1>10
<1>12. r.score = 100 => \A f \in r.found : f.level \notin Severe
  BY <1>3, <1>4, <1>7, <1>8, <1>9, <1>10
<1> QED
  BY <1>11, <1>12 DEF r

(***************************************************************************)
(* The verdict and the weighted average.                                   *)
(***************************************************************************)
\* What a verdict is the greatest of.
Feasibilities(caps, ns, mounts, fs) ==
    {FeasibilityNone} \cup {Feasibility(v, fs, mounts) : v \in Vectors(caps, ns, mounts)}

\* The worst vector is the greatest of the feasibilities.
LEMMA VerdictIsWorst ==
    ASSUME NEW caps, NEW ns, NEW mounts, NEW fs
    PROVE  /\ Feasibilities(caps, ns, mounts, fs) \subseteq 0 .. 4
           /\ Verdict(caps, ns, mounts, fs) \in Feasibilities(caps, ns, mounts, fs)
           /\ \A f \in Feasibilities(caps, ns, mounts, fs) : f <= Verdict(caps, ns, mounts, fs)
<1> DEFINE all == Feasibilities(caps, ns, mounts, fs)
           worst == Verdict(caps, ns, mounts, fs)
<1>1. \A v : Feasibility(v, fs, mounts) \in 0 .. 4
  BY DEF Feasibility, Difficulty, FeasibilityNone, FeasibilityLow, FeasibilityModerate, FeasibilityHigh,
         FeasibilityTrivial
<1>2. all \subseteq 0 .. 4 /\ 0 \in all
  BY <1>1 DEF Feasibilities, FeasibilityNone
<1>3. worst = CHOOSE f \in all : \A g \in all : g <= f
  BY DEF Verdict, Feasibilities
<1> HIDE DEF all, worst
<1>4. \E f \in all : \A g \in all : g <= f
  <2>1. CASE 4 \in all BY <1>2, <2>1
  <2>2. CASE 4 \notin all /\ 3 \in all BY <1>2, <2>2
  <2>3. CASE 4 \notin all /\ 3 \notin all /\ 2 \in all BY <1>2, <2>3
  <2>4. CASE 4 \notin all /\ 3 \notin all /\ 2 \notin all /\ 1 \in all BY <1>2, <2>4
  <2>5. CASE 4 \notin all /\ 3 \notin all /\ 2 \notin all /\ 1 \notin all BY <1>2, <2>5
  <2> QED
    BY <2>1, <2>2, <2>3, <2>4, <2>5
<1>5. worst \in all /\ \A g \in all : g <= worst
  BY <1>3, <1>4
<1> QED
  BY <1>2, <1>5 DEF all, worst

\* A verdict is one of the feasibilities, and only effective capabilities make a way out feasible.
LEMMA VerdictPart ==
    ASSUME NEW caps, NEW ns, NEW mounts, NEW fs
    PROVE  /\ Verdict(caps, ns, mounts, fs) \in FeasibilityNone .. FeasibilityTrivial
           /\ caps.eff = {} => Verdict(caps, ns, mounts, fs) = FeasibilityNone
<1>1. /\ Verdict(caps, ns, mounts, fs) \in Feasibilities(caps, ns, mounts, fs)
      /\ Feasibilities(caps, ns, mounts, fs) \subseteq 0 .. 4
  BY VerdictIsWorst
<1>2. caps.eff = {} => \A v \in Vectors(caps, ns, mounts) : v.needs = "nothing"
  BY DEF Vectors
<1>3. caps.eff = {} => Feasibilities(caps, ns, mounts, fs) = {FeasibilityNone}
  BY <1>2 DEF Feasibilities, Feasibility
<1> QED
  BY <1>1, <1>3 DEF FeasibilityNone, FeasibilityTrivial

\* Rounding down reaches 100 only from the top.
LEMMA Hundredth ==
    ASSUME NEW x \in Int, 0 <= x, x <= 10000
    PROVE  x \div 100 \in 0 .. 100 /\ (x \div 100 = 100 => x = 10000)
<1>1. x \div 100 \in 0 .. 100
  OBVIOUS
<1>2. x < 10000 => x \div 100 < 100
  OBVIOUS
<1> QED
  BY <1>1, <1>2

\* The weights sum to 100: the average of scores is a score, and full marks
\* are for reports without a point lost anywhere but in the unit file.
LEMMA WeightedScore ==
    ASSUME NEW r, \A p \in Parts : r[p].score \in 0 .. 100
    PROVE  /\ Weighted(r) \in 0 .. 100
           /\ Weighted(r) = 100 => \A p \in Parts \ {"sysd"} : r[p].score = 100
<1> DEFINE ns == r["ns"].score
           caps == r["caps"].score
           mounts == r["mounts"].score
           sec == r["sec"].score
           env == r["env"].score
           fs == r["fs"].score
           fd == r["fd"].score
           sysd == r["sysd"].score
<1>1. /\ ns \in 0 .. 100 /\ caps \in 0 .. 100 /\ mounts \in 0 .. 100 /\ sec \in 0 .. 100
      /\ env \in 0 .. 100 /\ fs \in 0 .. 100 /\ fd \in 0 .. 100 /\ sysd \in 0 .. 100
  BY DEF Parts
<1> DEFINE nine == ns * 18 + caps * 18 + mounts * 14 + sec * 14 + env * 10 + fs * 10 + fd * 8 + sysd * 8
           eight == ns * 20 + caps * 20 + mounts * 15 + sec * 15 + env * 10 + fs * 10 + fd * 10
           full == ns = 100 /\ caps = 100 /\ mounts = 100 /\ sec = 100 /\ env = 100 /\ fs = 100 /\ fd = 100
<1>2. Weighted(r) = IF r["sysd"].found THEN nine \div 100 ELSE eight \div 100
  BY DEF Weighted
<1>3. full => \A p \in Parts \ {"sysd"} : r[p].score = 100
  BY DEF Parts
<1> HIDE DEF ns, caps, mounts, sec, env, fs, fd, sysd
<1>4. nine \in Int /\ 0 <= nine /\ nine <= 10000 /\ (nine = 10000 => full)
  BY <1>1
<1>5. eight \in Int /\ 0 <= eight /\ eight <= 10000 /\ (eight = 10000 => full)
  BY <1>1
<1> HIDE DEF nine, eight, full
<1>6. nine \div 100 \in 0 .. 100 /\ (nine \div 100 = 100 => nine = 10000)
  BY <1>4, Hundredth
<1>7. eight \div 100 \in 0 .. 100 /\ (eight \div 100 = 100 => eight = 10000)
  BY <1>5, Hundredth
<1> QED
  BY <1>2, <1>3, <1>4, <1>5, <1>6, <1>7

(***************************************************************************)
(* The process stays one the audits can be run on.                         *)
(***************************************************************************)
LEMMA HardenedAuditable ==
    ASSUME NEW c, Auditable(c), NEW d \in Hardened(c)
    PROVE  Auditable(d)
<1>0. c \in ProcessesWith(Mount) /\ c.mounts \in SUBSET Mount /\ IsFiniteSet(c.mounts)
  BY DEF Auditable, ProcessesWith
<1>1. ASSUME NEW k, d \in Without(c, k) PROVE Auditable(d)
  <2>1. CASE d = [c EXCEPT !.eff = @ \ {k}]
    BY <1>0, <2>1 DEF Auditable, ProcessesWith
  <2>2. CASE d = [c EXCEPT !.eff = @ \ {k}, !.prm = @ \ {k}]
    BY <1>0, <2>2, ZenonT(60) DEF Auditable, ProcessesWith
  <2>3. CASE d = [c EXCEPT !.bnd = @ \ {k}]
    BY <1>0, <2>3 DEF Auditable, ProcessesWith
  <2> QED
    BY <1>1, <2>1, <2>2, <2>3 DEF Without
<1>2. ASSUME NEW n, d \in Left(c, n) PROVE Auditable(d)
  <2>1. d = [c EXCEPT !.shared = @ \ {n}]
    BY <1>2 DEF Left
  <2> QED
    BY <1>0, <2>1 DEF Auditable, ProcessesWith
<1>3. ASSUME NEW m \in c.mounts, d \in Replaced(c, m) PROVE Auditable(d)
  <2>1. PICK S \in {{}, {[m EXCEPT !.modes = {"ro"}]}, {[m EXCEPT !.flags = Flags]}, {[m EXCEPT !.shared = FALSE]}} :
            d = [c EXCEPT !.mounts = (@ \ {m}) \cup S]
    BY <1>3 DEF Replaced
  <2>2. m \in Mount
    BY <1>0
  <2>3. /\ [m EXCEPT !.modes = {"ro"}] \in Mount
        /\ [m EXCEPT !.flags = Flags] \in Mount
        /\ [m EXCEPT !.shared = FALSE] \in Mount
    BY <2>2 DEF Mount
  <2>4. S = {} \/ \E x \in Mount : S = {x}
    BY <2>1, <2>3
  <2>5. IsFiniteSet(S) /\ S \subseteq Mount
    <3>1. CASE S = {}
      BY <3>1, FS_EmptySet
    <3>2. ASSUME NEW x \in Mount, S = {x} PROVE IsFiniteSet(S) /\ S \subseteq Mount
      <4>1. IsFiniteSet({x})
        BY FS_Singleton
      <4> QED
        BY <3>2, <4>1
    <3> QED
      BY <2>4, <3>1, <3>2
  <2> DEFINE new == (c.mounts \ {m}) \cup S
  <2>6. IsFiniteSet(c.mounts \ {m})
    BY <1>0, FS_RemoveElement
  <2>7. IsFiniteSet(new)
    BY <2>5, <2>6, FS_Union
  <2>8. new \in SUBSET Mount /\ d = [c EXCEPT !.mounts = new]
    BY <1>0, <2>1, <2>5
  <2> HIDE DEF new
  <2>9. d \in ProcessesWith(Mount) /\ d.mounts = new
    BY <1>0, <2>8 DEF ProcessesWith
  <2> QED
    BY <2>7, <2>9 DEF Auditable
<1>4. ASSUME d \in Confined(c) PROVE Auditable(d)
  <2>1. CASE d = [c EXCEPT !.nnp = TRUE]
    BY <1>0, <2>1, ZenonT(60) DEF Auditable, ProcessesWith
  <2>2. CASE d = [c EXCEPT !.lsm = "enforce"]
    BY <1>0, <2>2 DEF Auditable, ProcessesWith
  <2>3. CASE d = [c EXCEPT !.limits = {"memory", "pids"}]
    BY <1>0, <2>3 DEF Auditable, ProcessesWith
  <2>4. CASE d = [c EXCEPT !.root = FALSE, !.uid0 = FALSE, !.eff = {}, !.prm = {}]
    BY <1>0, <2>4, ZenonT(60) DEF Auditable, ProcessesWith
  <2>5. ASSUME NEW mode \in {"allow", "deny", "unknown"}, d = [c EXCEPT !.seccomp = mode]
        PROVE  Auditable(d)
    BY <1>0, <2>5 DEF Auditable, ProcessesWith
  <2> QED
    BY <1>4, <2>1, <2>2, <2>3, <2>4, <2>5 DEF Confined
<1>5. ASSUME d \in Cleaned(c) PROVE Auditable(d)
  <2>1. CASE d = [c EXCEPT !.suid = 0]
    BY <1>0, <2>1 DEF Auditable, ProcessesWith
  <2>2. CASE d = [c EXCEPT !.exposed = {}]
    BY <1>0, <2>2 DEF Auditable, ProcessesWith
  <2>3. CASE d = [c EXCEPT !.dotenv = FALSE]
    BY <1>0, <2>3, ZenonT(60) DEF Auditable, ProcessesWith
  <2>4. CASE d = [c EXCEPT !.dirs = 0]
    BY <1>0, <2>4 DEF Auditable, ProcessesWith
  <2>5. CASE d = [c EXCEPT !.accounts = 0]
    BY <1>0, <2>5 DEF Auditable, ProcessesWith
  <2>6. CASE d = [c EXCEPT !.disks = 0]
    BY <1>0, <2>6 DEF Auditable, ProcessesWith
  <2>7. CASE d = [c EXCEPT !.helpers = {}]
    BY <1>0, <2>7 DEF Auditable, ProcessesWith
  <2>8. CASE d = [c EXCEPT !.insecure = {}]
    BY <1>0, <2>8 DEF Auditable, ProcessesWith
  <2>9. ASSUME NEW x, d = [c EXCEPT !.programs = @ \ {x}] PROVE Auditable(d)
    BY <1>0, <2>9 DEF Auditable, ProcessesWith
  <2> QED
    BY <1>5, <2>1, <2>2, <2>3, <2>4, <2>5, <2>6, <2>7, <2>8, <2>9 DEF Cleaned
<1> QED
  BY <1>1, <1>2, <1>3, <1>4, <1>5 DEF Hardened

(***************************************************************************)
(* The reports.  What a part guarantees is Sound, the parts that have been *)
(* read when main stands at pc are Read[pc], and once assembled the        *)
(* average and the verdict are those of the parts.                         *)
(***************************************************************************)
Sound(p, r) ==
    /\ r.score \in 0 .. 100
    /\ r.score = 100 =>
           CASE p = "fs" -> ~r.risky
             [] p = "ns" -> r.shared \subseteq {"user", "cgroup", "time"}
             [] p = "caps" -> ~r.risky /\ r.eff = {}
             [] p = "mounts" -> \A f \in r.found : f.level \notin Severe
             [] p = "sec" -> ~r.hostRoot /\ r.seccomp \notin {"off", "allow"}
             [] p = "env" -> ~r.secrets
             [] p = "fd" -> ~r.leaks
             [] OTHER -> TRUE
    /\ p = "caps" /\ r.audited = {} => ~r.risky /\ r.eff = {}

Read ==
    [fs |-> {}, ns |-> {"fs"}, caps |-> {"fs", "ns"}, mounts |-> {"fs", "ns", "caps"},
     sec |-> {"fs", "ns", "caps", "mounts"}, env |-> {"fs", "ns", "caps", "mounts", "sec"},
     fd |-> {"fs", "ns", "caps", "mounts", "sec", "env"},
     sysd |-> {"fs", "ns", "caps", "mounts", "sec", "env", "fd"},
     sum |-> Parts, assert |-> Parts, exited |-> Parts, failed |-> {},
     access |-> {"fs", "ns", "caps"},
     uidmap |-> {"fs", "ns", "caps", "mounts"}, filter |-> {"fs", "ns", "caps", "mounts"},
     profile |-> {"fs", "ns", "caps", "mounts"}, setgroups |-> {"fs", "ns", "caps", "mounts"},
     init |-> {"fs", "ns", "caps", "mounts"}, cgroup |-> {"fs", "ns", "caps", "mounts"},
     link |-> {"fs", "ns", "caps", "mounts"}, gidmap |-> {"fs", "ns", "caps", "mounts"},
     helpers |-> {"fs", "ns", "caps", "mounts"}]

ProcessInv == Auditable(proc) /\ Auditable(before) /\ alive \in BOOLEAN /\ left \in Nat

ReadInv ==
    /\ pc \in Reads \cup {"sum", "assert", "exited", "failed"}
    /\ DOMAIN report = Parts
    /\ \A p \in Parts : report[p] # NotRead => report[p].score \in 0 .. 100
    /\ \A p \in Read[pc] : Sound(p, report[p])

\* In the middle of a part the process has been looked at.
ViewInv == torn \in BOOLEAN /\ (IF pc \in Later THEN Auditable(view) ELSE view = NotRead)

SumInv ==
    /\ overall \in 0 .. 100
    /\ verdict \in FeasibilityNone .. FeasibilityTrivial
    /\ Reported => overall = Weighted(report) /\ verdict = BreakoutOf(report)

InvocationInv == flags \in SUBSET AssertionFlags /\ threshold \in 0 .. 100 /\ exit \in {0, 1}

\* What the parts guarantee, whichever process they read.
LEMMA PartsSound ==
    ASSUME NEW c, Auditable(c), NEW fs, NEW caps, NEW unit
    PROVE  /\ Sound("fs", AuditFilesystem(c))
           /\ Sound("ns", AuditNamespaces(c))
           /\ Sound("caps", AuditCapabilities(c, fs))
           /\ Sound("mounts", AuditMounts(c, caps))
           /\ Sound("sec", AuditSecurity(c, fs))
           /\ Sound("env", AuditEnv(c))
           /\ Sound("fd", AuditFD(c))
           /\ Sound("sysd", AuditSystemd(c, unit))
<1>1. Sound("fs", AuditFilesystem(c))
  BY FilesystemPart DEF Sound
<1>2. Sound("ns", AuditNamespaces(c))
  BY NamespacePart DEF Sound
<1>3. Sound("caps", AuditCapabilities(c, fs))
  BY CapabilityPart DEF Sound
<1>4. Sound("mounts", AuditMounts(c, caps))
  BY MountsPart DEF Sound
<1>5. Sound("sec", AuditSecurity(c, fs))
  BY SecurityPart DEF Sound
<1>6. Sound("env", AuditEnv(c))
  BY EnvPart DEF Sound
<1>7. Sound("fd", AuditFD(c))
  BY FDPart DEF Sound
<1>8. Sound("sysd", AuditSystemd(c, unit))
  BY SystemdPart DEF Sound
<1> QED
  BY <1>1, <1>2, <1>3, <1>4, <1>5, <1>6, <1>7, <1>8

ReportInv == ProcessInv /\ ReadInv /\ ViewInv /\ SumInv /\ InvocationInv

\* A part that is put where the report expects it keeps the report sound.
LEMMA PutSound ==
    ASSUME ReportInv, NEW part \in Parts, NEW then \in Parts \cup {"sum"}, NEW result,
           Read[then] = Read[pc] \cup {part}, Sound(part, result), Put(part, result, then)
    PROVE  ReportInv'
<1>1. ProcessInv' /\ InvocationInv'
  BY DEF ReportInv, Put, ProcessInv, InvocationInv, process, outcome, invocation
<1>2. ReadInv'
  <2>1. result.score \in 0 .. 100
    BY DEF Sound
  <2>2. DOMAIN report = Parts /\ \A p \in Read[pc] : Sound(p, report[p])
    BY DEF ReportInv, ReadInv
  <2>3. \A p \in Parts : report[p] # NotRead => report[p].score \in 0 .. 100
    BY DEF ReportInv, ReadInv
  <2>4. report' = [report EXCEPT ![part] = result] /\ pc' = then
    BY DEF Put
  <2>5. DOMAIN report' = Parts
    BY <2>2, <2>4
  <2>6. \A p \in Parts : report'[p] = IF p = part THEN result ELSE report[p]
    BY <2>2, <2>4
  <2>7. Read[pc'] \subseteq Parts
    BY <2>4 DEF Read, Parts
  <2>8. \A p \in Read[pc'] : Sound(p, report'[p])
    BY <2>2, <2>4, <2>6, <2>7
  <2>9. \A p \in Parts : report'[p] # NotRead => report'[p].score \in 0 .. 100
    BY <2>1, <2>3, <2>6
  <2>10. then \in Reads \cup {"sum"}
    BY DEF Reads
  <2> QED
    BY <2>4, <2>5, <2>8, <2>9, <2>10 DEF ReadInv
<1>3. SumInv'
  <2>1. ~Reported'
    BY DEF Put, Reported, Parts
  <2> QED
    BY <2>1 DEF ReportInv, SumInv, Put, outcome
<1>4. ViewInv'
  <2>1. then \notin Later
    BY DEF Parts, Later
  <2> QED
    BY <2>1 DEF ReportInv, ViewInv, Put
<1> QED
  BY <1>1, <1>2, <1>3, <1>4 DEF ReportInv

\* A look at the process adds nothing to the report.
LEMMA LookSound ==
    ASSUME ReportInv, NEW seen, NEW then \in Later, Read[then] = Read[pc], Auditable(seen),
           Look(seen, then), torn' \in BOOLEAN
    PROVE  ReportInv'
<1>1. ProcessInv' /\ InvocationInv'
  BY DEF ReportInv, Look, ProcessInv, InvocationInv, process, outcome, invocation
<1>2. ReadInv'
  BY DEF ReportInv, ReadInv, Look, Reads
<1>3. ViewInv'
  BY DEF Look, ViewInv, Auditable
<1>4. SumInv'
  <2>1. ~Reported'
    BY DEF Look, Reported, Later
  <2> QED
    BY <2>1 DEF ReportInv, SumInv, Look, outcome
<1> QED
  BY <1>1, <1>2, <1>3, <1>4 DEF ReportInv

\* What is read of the process at another moment, or of one that is gone, keeps
\* it one the audits can be run on.
LEMMA ViewAuditable ==
    ASSUME NEW c, Auditable(c), NEW d, Auditable(d), NEW shared \in SUBSET Namespaces,
           NEW mode \in {"off", "deny", "allow", "unknown"}
    PROVE  /\ Auditable([c EXCEPT !.lsm = d.lsm, !.mapped = d.mapped])
           /\ Auditable([c EXCEPT !.mapped = d.mapped])
           /\ Auditable([c EXCEPT !.seccomp = mode])
           /\ Auditable([c EXCEPT !.lsm = d.lsm])
           /\ Auditable([c EXCEPT !.setgroups = d.setgroups])
           /\ Auditable([c EXCEPT !.oddInit = d.oddInit])
           /\ Auditable([c EXCEPT !.limits = d.limits])
           /\ Auditable([c EXCEPT !.shared = shared])
           /\ Auditable([c EXCEPT !.gids = d.gids])
           /\ Auditable([c EXCEPT !.helpers = d.helpers])
<1>1. /\ c \in ProcessesWith(Mount) /\ IsFiniteSet(c.mounts)
      /\ d.lsm \in {"unconfined", "lenient", "enforce"} /\ d.mapped \in BOOLEAN
      /\ d.setgroups \in BOOLEAN /\ d.oddInit \in BOOLEAN /\ d.limits \in SUBSET {"memory", "pids"}
      /\ d.gids \in Nat /\ d.helpers \in SUBSET {"core_pattern", "uevent_helper"}
  BY DEF Auditable, ProcessesWith
<1>2. Auditable([c EXCEPT !.mapped = d.mapped])
  BY <1>1, ZenonT(60) DEF Auditable, ProcessesWith
<1>3. Auditable([c EXCEPT !.lsm = d.lsm, !.mapped = d.mapped])
  BY <1>1, ZenonT(60) DEF Auditable, ProcessesWith
<1>4. Auditable([c EXCEPT !.setgroups = d.setgroups])
  BY <1>1, ZenonT(60) DEF Auditable, ProcessesWith
<1>5. Auditable([c EXCEPT !.oddInit = d.oddInit])
  BY <1>1, ZenonT(60) DEF Auditable, ProcessesWith
<1>6. Auditable([c EXCEPT !.seccomp = mode])
  BY <1>1, ZenonT(60) DEF Auditable, ProcessesWith
<1>7. Auditable([c EXCEPT !.lsm = d.lsm])
  BY <1>1, ZenonT(60) DEF Auditable, ProcessesWith
<1>8. Auditable([c EXCEPT !.limits = d.limits])
  BY <1>1, ZenonT(60) DEF Auditable, ProcessesWith
<1>9. Auditable([c EXCEPT !.shared = shared])
  BY <1>1, ZenonT(60) DEF Auditable, ProcessesWith
<1>10. Auditable([c EXCEPT !.gids = d.gids])
  BY <1>1, ZenonT(60) DEF Auditable, ProcessesWith
<1>11. Auditable([c EXCEPT !.helpers = d.helpers])
  BY <1>1, ZenonT(60) DEF Auditable, ProcessesWith
<1> QED
  BY <1>2, <1>3, <1>4, <1>5, <1>6, <1>7, <1>8, <1>9, <1>10, <1>11

\* A process that is gone, as it is seen.
LEMMA SeenAuditable ==
    ASSUME Auditable(proc)
    PROVE  Auditable(Seen)
<1> DEFINE a == [proc EXCEPT !.peek = FALSE]
           b == [a EXCEPT !.mapped = FALSE]
           c == [b EXCEPT !.seccomp = "unknown", !.lsm = "unconfined"]
           d == [c EXCEPT !.setgroups = FALSE]
           e == [d EXCEPT !.oddInit = FALSE]
           f == [e EXCEPT !.limits = {}, !.gids = 0, !.helpers = {}]
<1>1. Auditable(a)
  BY ZenonT(60) DEF Auditable, ProcessesWith
<1> HIDE DEF a
<1>2. Auditable(b)
  BY <1>1, ZenonT(60) DEF Auditable, ProcessesWith
<1> HIDE DEF b
<1>3. Auditable(c)
  BY <1>2 DEF Auditable, ProcessesWith
<1> HIDE DEF c
<1>4. Auditable(d)
  BY <1>3, ZenonT(60) DEF Auditable, ProcessesWith
<1> HIDE DEF d
<1>5. Auditable(e)
  BY <1>4, ZenonT(60) DEF Auditable, ProcessesWith
<1> HIDE DEF e
<1>6. Auditable(f)
  BY <1>5 DEF Auditable, ProcessesWith
<1>7. Seen = IF alive THEN proc ELSE f
  BY DEF Seen, Auditable, ProcessesWith, a, b, c, d, e
<1> QED
  BY <1>6, <1>7


\* Before anything is read, nothing is claimed.
LEMMA InitReport == Init => ReportInv
<1> SUFFICES ASSUME Init PROVE ReportInv
  OBVIOUS
<1>1. ProcessInv
  <2>1. proc \in Processes /\ before = proc /\ alive = TRUE /\ left = Changes[proc]
    BY DEF Init
  <2>2. Auditable(proc) /\ Changes[proc] \in Nat
    BY <2>1, ReportAssumption DEF Auditable
  <2> QED
    BY <2>1, <2>2 DEF ProcessInv
<1>2. ReadInv
  <2>1. pc = "fs" /\ report = Unread
    BY DEF Init
  <2>2. Read[pc] = {} /\ pc \in Reads
    BY <2>1 DEF Read, Parts, Reads
  <2>3. DOMAIN report = Parts /\ \A p \in Parts : report[p] = NotRead
    BY <2>1 DEF Unread
  <2> QED
    BY <2>2, <2>3 DEF ReadInv
<1>3. SumInv
  BY DEF Init, SumInv, Reported, FeasibilityNone, FeasibilityTrivial
<1>4. InvocationInv
  BY DEF Init, InvocationInv
<1>5. ViewInv
  BY DEF Init, ViewInv, Later
<1> QED
  BY <1>1, <1>2, <1>3, <1>4, <1>5 DEF ReportInv

\* Every step of GenerateReport, of main and of the process keeps the invariant.
LEMMA NextReport == ReportInv /\ [Next]_vars => ReportInv'
<1> SUFFICES ASSUME ReportInv, [Next]_vars PROVE ReportInv'
  OBVIOUS
<1>0. Auditable(proc) /\ Auditable(Seen)
  BY SeenAuditable DEF ReportInv, ProcessInv
<1>a. torn \in BOOLEAN /\ (pc \in Later => Auditable(view))
  BY DEF ReportInv, ViewInv
<1>1. CASE ReadFilesystem
  <2>1. pc = "fs" /\ Put("fs", AuditFilesystem(Seen), "ns")
    BY <1>1 DEF ReadFilesystem
  <2>2. "fs" \in Parts /\ "ns" \in Parts /\ Read["ns"] = Read["fs"] \cup {"fs"}
    BY DEF Parts, Read
  <2> QED
    BY <1>0, <2>1, <2>2, PartsSound, PutSound
<1>2. CASE ReadNamespaces
  <2>1. pc = "ns" /\ Put("ns", AuditNamespaces(Seen), "caps")
    BY <1>2 DEF ReadNamespaces
  <2>2. "ns" \in Parts /\ "caps" \in Parts /\ Read["caps"] = Read["ns"] \cup {"ns"}
    BY DEF Parts, Read
  <2> QED
    BY <1>0, <2>1, <2>2, PartsSound, PutSound
<1>3. CASE ReadCapabilities
  <2>1. pc = "caps" /\ Put("caps", AuditCapabilities(proc, report["fs"]), "mounts")
    BY <1>3 DEF ReadCapabilities
  <2>2. "caps" \in Parts /\ "mounts" \in Parts /\ Read["mounts"] = Read["caps"] \cup {"caps"}
    BY DEF Parts, Read
  <2> QED
    BY <1>0, <2>1, <2>2, PartsSound, PutSound
<1>4. CASE ReadMountInfo \/ ReadStatus
  <2>1. \E then \in Later : Read[then] = Read[pc] /\ Look(proc, then) /\ UNCHANGED torn
    BY <1>4 DEF ReadMountInfo, ReadStatus, Later, Read
  <2> QED
    BY <1>0, <1>a, <2>1, LookSound
<1>5. CASE ReadAccess
  <2> DEFINE seen == [view EXCEPT !.lsm = Seen.lsm, !.mapped = Seen.mapped]
  <2>1. pc = "access" /\ Put("mounts", AuditMounts(seen, report["caps"]), "sec")
    BY <1>5 DEF ReadAccess
  <2>2. "mounts" \in Parts /\ "sec" \in Parts /\ Read["sec"] = Read["access"] \cup {"mounts"}
    BY DEF Parts, Read
  <2>3. Auditable(seen)
    BY <1>0, <1>a, <2>1, ViewAuditable DEF Later
  <2> HIDE DEF seen
  <2> QED
    BY <2>1, <2>2, <2>3, PartsSound, PutSound
<1>16. CASE ReadUidMap \/ ReadFilter \/ ReadProfile \/ ReadSetgroups \/ ReadInit \/ ReadCgroup \/ ReadLink \/ ReadGIDMap
  <2>1. CASE ReadUidMap
    <3>1. pc = "uidmap" /\ Look([view EXCEPT !.mapped = Seen.mapped], "filter") /\ UNCHANGED torn
      BY <2>1 DEF ReadUidMap
    <3>2. Auditable([view EXCEPT !.mapped = Seen.mapped])
      BY <1>0, <1>a, <3>1, ViewAuditable DEF Later
    <3> QED
      BY <1>a, <3>1, <3>2, LookSound DEF Later, Read
  <2>2. CASE ReadProfile
    <3>1. pc = "profile" /\ Look([view EXCEPT !.lsm = Seen.lsm], "setgroups") /\ UNCHANGED torn
      BY <2>2 DEF ReadProfile
    <3>2. Auditable([view EXCEPT !.lsm = Seen.lsm])
      BY <1>0, <1>a, <3>1, ViewAuditable DEF Later
    <3> QED
      BY <1>a, <3>1, <3>2, LookSound DEF Later, Read
  <2>3. CASE ReadSetgroups
    <3>1. pc = "setgroups" /\ Look([view EXCEPT !.setgroups = Seen.setgroups], "init") /\ UNCHANGED torn
      BY <2>3 DEF ReadSetgroups
    <3>2. Auditable([view EXCEPT !.setgroups = Seen.setgroups])
      BY <1>0, <1>a, <3>1, ViewAuditable DEF Later
    <3> QED
      BY <1>a, <3>1, <3>2, LookSound DEF Later, Read
  <2>4. CASE ReadInit
    <3>1. pc = "init" /\ Look([view EXCEPT !.oddInit = Seen.oddInit], "cgroup") /\ UNCHANGED torn
      BY <2>4 DEF ReadInit
    <3>2. Auditable([view EXCEPT !.oddInit = Seen.oddInit])
      BY <1>0, <1>a, <3>1, ViewAuditable DEF Later
    <3> QED
      BY <1>a, <3>1, <3>2, LookSound DEF Later, Read
  <2>5. CASE ReadCgroup
    <3>1. pc = "cgroup" /\ Look([view EXCEPT !.limits = Seen.limits], "link") /\ UNCHANGED torn
      BY <2>5 DEF ReadCgroup
    <3>2. Auditable([view EXCEPT !.limits = Seen.limits])
      BY <1>0, <1>a, <3>1, ViewAuditable DEF Later
    <3> QED
      BY <1>a, <3>1, <3>2, LookSound DEF Later, Read
  <2>6. CASE ReadGIDMap
    <3>1. pc = "gidmap" /\ Look([view EXCEPT !.gids = Seen.gids], "helpers") /\ UNCHANGED torn
      BY <2>6 DEF ReadGIDMap
    <3>2. Auditable([view EXCEPT !.gids = Seen.gids])
      BY <1>0, <1>a, <3>1, ViewAuditable DEF Later
    <3> QED
      BY <1>a, <3>1, <3>2, LookSound DEF Later, Read
  <2>7. CASE ReadFilter
    <3> DEFINE seen == [view EXCEPT !.seccomp = IF view.seccomp = "off" THEN "off" ELSE Seen.seccomp]
    <3>1. pc = "filter" /\ Look(seen, "profile") /\ UNCHANGED torn
      BY <2>7 DEF ReadFilter
    <3>2. (IF view.seccomp = "off" THEN "off" ELSE Seen.seccomp) \in {"off", "deny", "allow", "unknown"}
      BY <1>0 DEF Auditable, ProcessesWith
    <3>3. Auditable(seen)
      BY <1>0, <1>a, <3>1, <3>2, ViewAuditable DEF Later
    <3> HIDE DEF seen
    <3> QED
      BY <1>a, <3>1, <3>3, LookSound DEF Later, Read
  <2>8. CASE ReadLink
    <3> DEFINE seen == [view EXCEPT !.shared = IF alive THEN proc.shared ELSE view.shared \cup {"mnt"}]
    <3>1. pc = "link" /\ Look(seen, "gidmap") /\ torn' \in BOOLEAN
      BY <1>a, <2>8 DEF ReadLink
    <3>2. Auditable(view)
      BY <1>a, <3>1 DEF Later
    <3>3. (IF alive THEN proc.shared ELSE view.shared \cup {"mnt"}) \in SUBSET Namespaces
      BY <1>0, <3>2 DEF Auditable, ProcessesWith, Namespaces
    <3>4. Auditable(seen)
      BY <3>2, <3>3, ViewAuditable
    <3> HIDE DEF seen
    <3> QED
      BY <3>1, <3>4, LookSound DEF Later, Read
  <2> QED
    BY <1>16, <2>1, <2>2, <2>3, <2>4, <2>5, <2>6, <2>7, <2>8
<1>17. CASE ReadHelpers
  <2> DEFINE seen == [view EXCEPT !.helpers = Seen.helpers]
  <2>1. pc = "helpers" /\ Put("sec", AuditSecurity(seen, report["fs"]), "env")
    BY <1>17 DEF ReadHelpers
  <2>2. "sec" \in Parts /\ "env" \in Parts /\ Read["env"] = Read["helpers"] \cup {"sec"}
    BY DEF Parts, Read
  <2>3. Auditable(seen)
    BY <1>0, <1>a, <2>1, ViewAuditable DEF Later
  <2> HIDE DEF seen
  <2> QED
    BY <2>1, <2>2, <2>3, PartsSound, PutSound
<1>6. CASE ReadEnv
  <2>1. pc = "env" /\ Put("env", AuditEnv(Seen), "fd")
    BY <1>6 DEF ReadEnv
  <2>2. "env" \in Parts /\ "fd" \in Parts /\ Read["fd"] = Read["env"] \cup {"env"}
    BY DEF Parts, Read
  <2> QED
    BY <1>0, <2>1, <2>2, PartsSound, PutSound
<1>7. CASE ReadFD
  <2>1. pc = "fd" /\ Put("fd", AuditFD(Seen), "sysd")
    BY <1>7 DEF ReadFD
  <2>2. "fd" \in Parts /\ "sysd" \in Parts /\ Read["sysd"] = Read["fd"] \cup {"fd"}
    BY DEF Parts, Read
  <2> QED
    BY <1>0, <2>1, <2>2, PartsSound, PutSound
<1>8. CASE ReadSystemd
  <2>1. PICK unit : pc = "sysd" /\ Put("sysd", AuditSystemd(proc, unit), "sum")
    BY <1>8 DEF ReadSystemd
  <2>2. "sysd" \in Parts /\ Read["sum"] = Read["sysd"] \cup {"sysd"}
    BY DEF Parts, Read
  <2> QED
    BY <1>0, <2>1, <2>2, PartsSound, PutSound
<1>9. CASE Fail
  <2>1. ProcessInv' /\ InvocationInv'
    BY <1>9 DEF Fail, ReportInv, ProcessInv, InvocationInv, process
  <2>2. Read["failed"] = {} /\ "failed" \notin {"assert", "exited"}
    BY DEF Read
  <2>3. ReadInv' /\ SumInv'
    BY <1>9, <2>2 DEF Fail, ReportInv, ReadInv, SumInv, Reported, outcome
  <2>4. ViewInv'
    BY <1>9 DEF Fail, ReportInv, ViewInv, Later
  <2> QED
    BY <2>1, <2>3, <2>4 DEF ReportInv
<1>10. CASE Assemble
  <2>1. ProcessInv' /\ InvocationInv'
    BY <1>10 DEF Assemble, ReportInv, ProcessInv, InvocationInv, process, invocation
  <2>2. Read["sum"] = Parts /\ Read["assert"] = Parts
    BY DEF Read
  <2>3. \A p \in Parts : Sound(p, report[p])
    BY <1>10, <2>2 DEF Assemble, ReportInv, ReadInv
  <2>4. ReadInv'
    BY <1>10, <2>2, <2>3 DEF Assemble, ReportInv, ReadInv
  <2>5. Weighted(report) \in 0 .. 100
    BY <2>3, WeightedScore DEF Sound
  <2>6. BreakoutOf(report) \in FeasibilityNone .. FeasibilityTrivial
    BY VerdictPart DEF BreakoutOf
  <2>7. overall' = Weighted(report) /\ verdict' = BreakoutOf(report) /\ report' = report
    BY <1>10 DEF Assemble
  <2>8. SumInv'
    BY <2>5, <2>6, <2>7 DEF SumInv, BreakoutOf, Weighted
  <2>9. ViewInv'
    BY <1>10 DEF Assemble, ReportInv, ViewInv, Later
  <2> QED
    BY <2>1, <2>4, <2>8, <2>9 DEF ReportInv
<1>11. CASE AssertFlags
  <2>1. ProcessInv'
    BY <1>11 DEF AssertFlags, ReportInv, ProcessInv, process
  <2>2. ReadInv'
    BY <1>11 DEF AssertFlags, ReportInv, ReadInv, Read
  <2>3. pc = "assert" /\ report' = report /\ overall' = overall /\ verdict' = verdict
    BY <1>11 DEF AssertFlags, outcome
  <2>4. SumInv'
    BY <2>3 DEF ReportInv, SumInv, Reported, BreakoutOf, Weighted
  <2>5. InvocationInv'
    BY <1>11, ReportAssumption DEF AssertFlags, InvocationInv
  <2>6. ViewInv'
    BY <1>11 DEF AssertFlags, ReportInv, ViewInv, Later
  <2> QED
    BY <2>1, <2>2, <2>4, <2>5, <2>6 DEF ReportInv
<1>12. CASE Again
  <2>1. ProcessInv'
    BY <1>12 DEF Again, ReportInv, ProcessInv
  <2>2. pc' = "fs" /\ report' = Unread
    BY <1>12 DEF Again
  <2>3. Read["fs"] = {} /\ "fs" \in Parts
    BY DEF Read, Parts
  <2>4. DOMAIN report' = Parts /\ \A p \in Parts : report'[p] = NotRead
    BY <2>2 DEF Unread
  <2>5. ReadInv'
    BY <2>2, <2>3, <2>4 DEF ReadInv, Reads
  <2>8. ViewInv'
    BY <1>12 DEF Again, ViewInv, Later
  <2>6. SumInv'
    BY <1>12 DEF Again, SumInv, Reported, FeasibilityNone, FeasibilityTrivial
  <2>7. InvocationInv'
    BY <1>12 DEF Again, InvocationInv
  <2> QED
    BY <2>1, <2>5, <2>6, <2>7, <2>8 DEF ReportInv
<1>13. CASE Harden
  <2>1. Auditable(proc')
    BY <1>0, <1>13, HardenedAuditable DEF Harden
  <2>2. ProcessInv'
    BY <1>13, <2>1 DEF Harden, ReportInv, ProcessInv, Auditable
  <2>3. UNCHANGED <<pc, view, torn, report, overall, verdict, flags, threshold, exit>>
    BY <1>13 DEF Harden, outcome, invocation
  <2>4. ReadInv' /\ ViewInv' /\ InvocationInv'
    BY <2>3 DEF ReportInv, ReadInv, ViewInv, InvocationInv, Auditable
  <2>5. SumInv'
    BY <2>3 DEF ReportInv, SumInv, Reported, BreakoutOf, Weighted
  <2> QED
    BY <2>2, <2>4, <2>5 DEF ReportInv
<1>14. CASE Exit
  <2>1. ProcessInv'
    BY <1>14 DEF Exit, ReportInv, ProcessInv
  <2>2. UNCHANGED <<pc, view, report, overall, verdict, flags, threshold, exit>> /\ torn' \in BOOLEAN
    BY <1>a, <1>14 DEF Exit, outcome, invocation
  <2>3. ReadInv' /\ ViewInv' /\ InvocationInv'
    BY <2>2 DEF ReportInv, ReadInv, ViewInv, InvocationInv, Auditable
  <2>4. SumInv'
    BY <2>2 DEF ReportInv, SumInv, Reported, BreakoutOf, Weighted
  <2> QED
    BY <2>1, <2>3, <2>4 DEF ReportInv
<1>15. CASE UNCHANGED vars
  <2>1. UNCHANGED <<proc, before, alive, left, pc, view, torn, report, overall, verdict, flags, threshold, exit>>
    BY <1>15 DEF vars
  <2>2. ProcessInv' /\ ReadInv' /\ ViewInv' /\ InvocationInv'
    BY <2>1 DEF ReportInv, ProcessInv, ReadInv, ViewInv, InvocationInv, Auditable
  <2>3. SumInv'
    BY <2>1 DEF ReportInv, SumInv, Reported, BreakoutOf, Weighted
  <2> QED
    BY <2>2, <2>3 DEF ReportInv
<1> QED
  BY <1>1, <1>2, <1>3, <1>4, <1>5, <1>6, <1>7, <1>8, <1>9, <1>10, <1>11, <1>12, <1>13, <1>14, <1>15,
     <1>16, <1>17
     DEF Next, Generate

\* The invariant the theorems rest on.
LEMMA ReportInvariant == Spec => []ReportInv
BY InitReport, NextReport, PTL DEF Spec

(***************************************************************************)
(* The theorems.                                                           *)
(***************************************************************************)
\* Whatever is audited, and whatever it gives up meanwhile: every part, the
\* average, the verdict and the exit status are within their range
\* (report.go:90, and the clamps of the audits).
THEOREM ReportTypeCorrect == Spec => []TypeOK
<1>1. ReportInv => TypeOK
  BY DEF ReportInv, ProcessInv, ReadInv, ViewInv, SumInv, InvocationInv, TypeOK, InRange, Auditable
<1> QED
  BY <1>1, ReportInvariant, PTL

\* Full marks pass every assertion of the command line (main.go:238-300), for
\* any process with any number of mounts.
THEOREM FullMarksPass == Spec => []PerfectPasses
<1>1. ReportInv => PerfectPasses
  <2> SUFFICES ASSUME ReportInv, Reported, overall = 100 PROVE FailedAssertions(report) = {}
    BY DEF PerfectPasses
  <2>1. Read[pc] = Parts
    BY DEF Reported, Read
  <2>2. \A p \in Parts : Sound(p, report[p])
    BY <2>1 DEF ReportInv, ReadInv
  <2>3. Weighted(report) = 100
    BY DEF ReportInv, SumInv
  <2>4. \A p \in Parts \ {"sysd"} : report[p].score = 100
    BY <2>2, <2>3, WeightedScore DEF Sound
  <2>5. /\ ~report["fs"].risky
        /\ report["ns"].shared \ {"user", "cgroup", "time"} = {}
        /\ ~report["caps"].risky
        /\ \A x \in report["mounts"].found : x.level \notin Severe
        /\ ~report["sec"].hostRoot
        /\ report["sec"].seccomp \notin {"off", "allow"}
        /\ ~report["env"].secrets
        /\ ~report["fd"].leaks
    BY <2>2, <2>4 DEF Sound, Parts
  <2> QED
    BY <2>5 DEF FailedAssertions, AssertionFlags
<1> QED
  BY <1>1, ReportInvariant, PTL

\* A way out that is feasible at all has cost the report points
\* (breakout.go:103-332 against capability.go:64-155).
THEOREM BreakoutHasCost == Spec => []FeasibleCosts
<1>1. ReportInv => FeasibleCosts
  <2> SUFFICES ASSUME ReportInv, Reported, verdict > FeasibilityNone
               PROVE  report["caps"].score < 100 /\ overall < 100
    BY DEF FeasibleCosts
  <2>1. Read[pc] = Parts
    BY DEF Reported, Read
  <2>2. \A p \in Parts : Sound(p, report[p])
    BY <2>1 DEF ReportInv, ReadInv
  <2>3. overall = Weighted(report) /\ verdict = BreakoutOf(report) /\ overall \in 0 .. 100
    BY DEF ReportInv, SumInv
  <2>4. report["caps"].eff # {}
    BY <2>3, VerdictPart DEF BreakoutOf, FeasibilityNone
  <2>5. report["caps"].score # 100 /\ report["caps"].score \in 0 .. 100
    BY <2>2, <2>4 DEF Sound, Parts
  <2>6. overall # 100
    <3>1. \A p \in Parts : report[p].score \in 0 .. 100
      BY <2>2 DEF Sound
    <3>2. Weighted(report) = 100 => \A p \in Parts \ {"sysd"} : report[p].score = 100
      BY <3>1, WeightedScore
    <3>3. "caps" \in Parts \ {"sysd"}
      BY DEF Parts
    <3> QED
      BY <2>3, <2>5, <3>2, <3>3
  <2> QED
    BY <2>3, <2>5, <2>6
<1> QED
  BY <1>1, ReportInvariant, PTL

\* An overview that is green throughout belongs to a report without a way out,
\* which only the assertions on secrets and descriptors may refuse, whatever was
\* audited and whenever its parts were read (dashboard.go:2586-2674).
THEOREM GreenOverviewPasses == Spec => []GreenPasses
<1>1. ReportInv => GreenPasses
  <2> SUFFICES ASSUME ReportInv, Reported, AllGreen
               PROVE  /\ FailedAssertions(report) \subseteq {"secrets", "fd-leaks"}
                      /\ verdict = FeasibilityNone
    BY DEF GreenPasses
  <2>1. Read[pc] = Parts
    BY DEF Reported, Read
  <2>2. \A p \in Parts : Sound(p, report[p])
    BY <2>1 DEF ReportInv, ReadInv
  <2>3. /\ report["ns"].score = 100
        /\ report["caps"].audited = {}
        /\ report["mounts"].found = {} /\ ~report["fs"].risky /\ report["sec"].score = 100
    BY DEF AllGreen, IsGreen, Metrics
  <2>4. /\ report["ns"].shared \ {"user", "cgroup", "time"} = {}
        /\ ~report["caps"].risky /\ report["caps"].eff = {}
        /\ ~report["sec"].hostRoot /\ report["sec"].seccomp \notin {"off", "allow"}
    BY <2>2, <2>3 DEF Sound, Parts
  <2>5. FailedAssertions(report) \subseteq {"secrets", "fd-leaks"}
    BY <2>3, <2>4 DEF FailedAssertions, AssertionFlags
  <2>6. verdict = BreakoutOf(report)
    BY DEF ReportInv, SumInv
  <2> QED
    BY <2>4, <2>5, <2>6, VerdictPart DEF BreakoutOf
<1> QED
  BY <1>1, ReportInvariant, PTL
=============================================================================
