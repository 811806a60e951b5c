------------------------------- MODULE Scoring -------------------------------
(***************************************************************************)
(* What the parts of a report make of one process, except for its mounts:  *)
(* pkg/auditor/fs.go, namespace.go, capability.go, security.go, env.go,    *)
(* fd.go and systemd.go.  A process is a record of what the audits can     *)
(* tell apart in it; a part is a function of such a record, and of the     *)
(* parts made before it that the code hands over.  Texts are left out.     *)
(***************************************************************************)
EXTENDS Integers, FiniteSets

Namespaces == {"cgroup", "ipc", "mnt", "net", "pid", "user", "uts", "time"}

\* CapabilityRiskDatabase, by RiskLevel.  Other capabilities have no entry.
RiskDatabase ==
    [Critical |-> {"CAP_SYS_ADMIN", "CAP_SYS_MODULE"},
     High     |-> {"CAP_SYS_RAWIO", "CAP_SYS_PTRACE", "CAP_SYS_BOOT", "CAP_NET_ADMIN",
                   "CAP_DAC_OVERRIDE", "CAP_MKNOD", "CAP_BPF"},
     Medium   |-> {"CAP_SYS_CHROOT", "CAP_NET_RAW", "CAP_DAC_READ_SEARCH", "CAP_FOWNER",
                   "CAP_KILL", "CAP_SETUID", "CAP_SETGID", "CAP_SETPCAP", "CAP_PERFMON"}]
Capabilities == RiskDatabase.Critical \cup RiskDatabase.High \cup RiskDatabase.Medium

\* Programs the inventory knows, one or two of each kind.
Shells        == {"sh"}
Downloaders   == {"curl", "nc"}
AdminTools    == {"sudo", "chroot", "mknod", "tcpdump"}
Interpreters  == {"python"}
PkgManagers   == {"apt"}
NetworkScans  == {"nmap", "tcpdump", "nc"}
Programs == Shells \cup Downloaders \cup AdminTools \cup Interpreters \cup PkgManagers \cup {"nmap"}

\* systemdSecurityDirectives, by Penalty.
TenPoints  == {"NoNewPrivileges", "ProtectSystem", "ProtectHome", "PrivateTmp", "PrivateDevices",
               "ProtectKernelTunables", "ProtectKernelModules", "SystemCallFilter"}
FivePoints == {"ProtectControlGroups", "RestrictRealtime", "RestrictNamespaces", "MemoryMax"}

(***************************************************************************)
(* The processes, with the mounts taken from a set of the caller's.  peek: *)
(* the kernel lets nspect look into the process (its root, namespace       *)
(* links, environment, descriptors); status, uid_map, mountinfo, cgroup    *)
(* and attr/current are open to all.  shared: namespaces that are also     *)
(* those of PID 1, or of nspect itself where PID 1's cannot be read.       *)
(* mapped: its UID 0 is not the host's; boxed: the same of nspect and of   *)
(* PID 1, which are taken to be in one user namespace.  root: EUID 0;      *)
(* uid0: its real UID is 0.                                                *)
(***************************************************************************)
ProcessesWith(mounts) ==
    [peek : BOOLEAN, mapped : BOOLEAN, boxed : BOOLEAN,
     root : BOOLEAN, uid0 : BOOLEAN,
     shared : SUBSET Namespaces,
     eff : SUBSET Capabilities, prm : SUBSET Capabilities, bnd : SUBSET Capabilities,
     nnp : BOOLEAN, seccomp : {"off", "deny", "allow", "unknown"},
     lsm : {"unconfined", "lenient", "enforce"},
     setgroups : BOOLEAN, oddInit : BOOLEAN, limits : SUBSET {"memory", "pids"},
     gids : Nat, helpers : SUBSET {"core_pattern", "uevent_helper"},
     suid : Nat, exposed : SUBSET {"shadow", "passwd", "hosts", "resolv.conf"}, dotenv : BOOLEAN,
     programs : SUBSET Programs, minimal : BOOLEAN, pebble : BOOLEAN,
     secrets : Nat, dirs : Nat, accounts : Nat, disks : Nat,
     unit : {"none", "absent", "unreadable", "file"}, insecure : SUBSET (TenPoints \cup FivePoints),
     mounts : SUBSET mounts]

Clamp(x) == IF x < 0 THEN 0 ELSE x
AtMost(x, limit) == IF x > limit THEN limit ELSE x
Cost(fault, points) == IF fault THEN points ELSE 0

\* The inventory of a root that was read calls for the tests that look for
\* missing programs: IsDistroless || IsChiselled || !HasShell.
Distroless(c) ==
    \/ c.programs \cap Shells = {}
    \/ c.minimal /\ c.programs \cap PkgManagers = {}

(***************************************************************************)
(* AuditFilesystem.  A root that cannot be entered is reported as clean,   *)
(* with an empty inventory.  minimal: os-release names a chiselled or      *)
(* distroless image; pebble: the process is named after it.                *)
(***************************************************************************)
AuditFilesystem(c) ==
    IF ~c.peek
    THEN [score |-> 100, suid |-> 0, risky |-> FALSE, programs |-> {}, distroless |-> c.pebble]
    ELSE [score |-> Clamp(100 - (AtMost(3 * c.suid, 30) + 15 * Cardinality(c.exposed)
                                 + Cost(c.dotenv, 15))),
          suid |-> c.suid,
          risky |-> c.suid > 0 \/ c.exposed # {} \/ c.dotenv,
          programs |-> c.programs,
          distroless |-> Distroless(c)]

NamespacePenalty == [mnt |-> 30, pid |-> 25, net |-> 25, ipc |-> 15, uts |-> 5,
                     user |-> 10, cgroup |-> 5, time |-> 0]
Mut_SandboxedPenalty == [mnt |-> 5, pid |-> 5, net |-> 5, ipc |-> 2, uts |-> 0,
                         user |-> 0, cgroup |-> 0, time |-> 0]
SandboxedPenalty == [mnt |-> 5, pid |-> 5, net |-> 5, ipc |-> 2, uts |-> 1,
                     user |-> 0, cgroup |-> 0, time |-> 0]

\* AuditNamespaces: a link that cannot be read is skipped.
AuditNamespaces(c) ==
    LET shared == IF c.peek THEN c.shared ELSE {}
        lost(n) == IF n \notin shared THEN 0
                   ELSE IF c.mapped \/ c.boxed THEN SandboxedPenalty[n] ELSE NamespacePenalty[n]
    IN  [shared |-> shared,
         score |-> Clamp(100 - (lost("mnt") + lost("pid") + lost("net") + lost("ipc")
                                + lost("uts") + lost("user") + lost("cgroup") + lost("time")))]

CapabilityLevel(k) == CHOOSE l \in DOMAIN RiskDatabase : k \in RiskDatabase[l]

Mut_EffectiveLevel(k, c, fs) ==
    LET level == CapabilityLevel(k) IN
    IF c.mapped \/ c.boxed
    THEN CASE level = "Critical" -> "Medium" [] level = "High" -> "Low" [] OTHER -> "Info"
    ELSE level

\* The level after the user namespace or the missing programs are considered.
EffectiveLevel(k, c, fs) ==
    LET level == CapabilityLevel(k) IN
    IF c.mapped \/ c.boxed
    THEN IF level = "Critical" THEN "Medium" ELSE "Low"
    ELSE CASE fs.distroless /\ k = "CAP_SYS_CHROOT" /\ "chroot" \notin fs.programs -> "Low"
           [] fs.distroless /\ k = "CAP_MKNOD" /\ "mknod" \notin fs.programs -> "Medium"
           [] fs.distroless /\ k = "CAP_NET_RAW" /\ fs.programs \cap NetworkScans = {} -> "Low"
           [] OTHER -> level

AuditedCapabilities(c) == c.eff \cup (IF c.root THEN c.bnd ELSE c.prm)

\* AuditCapabilities, with the report of the file system.
AuditCapabilities(c, fs) ==
    LET of(l) == {k \in AuditedCapabilities(c) : EffectiveLevel(k, c, fs) = l}
    IN  [eff |-> c.eff,
         audited |-> AuditedCapabilities(c),
         risky |-> of("Critical") \cup of("High") # {},
         score |-> Clamp(100 - (30 * Cardinality(of("Critical")) + 20 * Cardinality(of("High"))
                                + 10 * Cardinality(of("Medium")) + 3 * Cardinality(of("Low"))))]

\* A namespace of its own, as far as the links can be read.
Isolated(c, n) == c.peek /\ n \notin c.shared

HostRoot(c) == c.root /\ ~c.mapped

\* FindPID1Name and the list of standardInits.
InitReduction(c) == Cost(Isolated(c, "pid") /\ c.oddInit, 10)

\* GetCgroupLimits, asked of processes with a mount namespace of their own.
CgroupReduction(c) ==
    Cost(Isolated(c, "mnt") /\ "memory" \notin c.limits, 10)
    + Cost(Isolated(c, "mnt") /\ "pids" \notin c.limits, 10)

\* checkGIDMapPrivilege: gids host groups are mapped that should not be.
GIDMapReduction(c) == IF c.mapped THEN 15 * c.gids ELSE 0

\* checkKernelHelperWritability opens the helpers below the root of the process.
KernelHelperReduction(c) == IF c.peek THEN 25 * Cardinality(c.helpers) ELSE 0

(***************************************************************************)
(* AuditSecurity, with the report of the file system: without SUID         *)
(* programs, or in a root that was not read, the missing NoNewPrivs costs  *)
(* nothing.                                                                *)
(***************************************************************************)
AuditSecurity(c, fs) ==
    [hostRoot |-> HostRoot(c),
     hostUser |-> c.uid0 /\ ~c.mapped,
     seccomp |-> c.seccomp,
     score |-> Clamp(100 - (Cost(HostRoot(c), 30) + Cost(~c.nnp /\ fs.suid > 0, 15)
                            + Cost(c.seccomp = "off", 20) + Cost(c.seccomp = "allow", 15)
                            + Cost(c.lsm = "unconfined", 20) + Cost(c.setgroups /\ c.mapped, 10)
                            + InitReduction(c) + CgroupReduction(c)
                            + GIDMapReduction(c) + KernelHelperReduction(c)))]

\* AuditEnv, or the default of GenerateReport when it fails.
AuditEnv(c) ==
    LET found == IF c.peek THEN c.secrets ELSE 0
    IN  [secrets |-> found > 0, score |-> Clamp(100 - 15 * found)]

\* AuditFD, or the default of GenerateReport when it fails.
AuditFD(c) ==
    IF ~c.peek THEN [leaks |-> FALSE, score |-> 100]
    ELSE [leaks |-> c.dirs + c.accounts + c.disks > 0,
          score |-> Clamp(100 - (15 * c.dirs + 20 * c.accounts + 25 * c.disks))]

\* AuditSystemd of a process for which FindSystemdUnitName finds this unit.
AuditSystemd(c, unit) ==
    [found |-> unit \in {"absent", "file"},
     score |-> CASE unit = "absent" -> 50
                 [] unit = "file" -> Clamp(100 - (10 * Cardinality(c.insecure \cap TenPoints)
                                                  + 5 * Cardinality(c.insecure \cap FivePoints)))
                 [] OTHER -> 0]
=============================================================================
