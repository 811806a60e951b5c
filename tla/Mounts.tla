-------------------------------- MODULE Mounts --------------------------------
(***************************************************************************)
(* auditMountsInternal of pkg/auditor/mount.go: what it finds in the       *)
(* mounts of a process, and the score with its limits per category.  A     *)
(* mount is the class of its mount point and file system, the modes either *)
(* of its option lists states, the flags the conditions look for, and its  *)
(* mount ID, by which two mounts alike in all of these differ.             *)
(***************************************************************************)
EXTENDS Scoring

Flags == {"nosuid", "nodev", "noexec", "nosymfollow"}

\* "config": a file like /etc/hosts that the runtime puts there; "char": a
\* device like /dev/null; "volume": anything the code has no name for.  modules:
\* its source lies below /lib/modules.
MountPoints == {"/", "/proc", "/proc/", "/sys", "/sys/", "/dev", "char", "/lib/modules",
                "scratch", "/host", "config", "volume"}
Mount == [id : Nat, at : MountPoints, fs : {"pseudo", "devtmpfs", "tmpfs", "nfs", "disk"},
          modes : SUBSET {"rw", "ro"}, flags : SUBSET Flags,
          socket : BOOLEAN, modules : BOOLEAN, shared : BOOLEAN,
          weak : SUBSET {"sec", "noresvport", "udp", "v3"}]

IsRW(m) == "rw" \in m.modes

\* The chain of else-ifs over the sensitive places.
Place(m) ==
    IF m.at \in {"/proc", "/proc/"} THEN "proc"
    ELSE IF m.at \in {"/sys", "/sys/"} THEN "sys"
    ELSE IF m.at = "/dev" \/ m.fs = "devtmpfs" THEN "dev"
    ELSE IF m.at = "/lib/modules" \/ m.modules THEN "libmodules"
    ELSE IF m.at = "/" THEN "root_rw" ELSE "none"

\* The mounts that must carry the hardening flags.
IsExternal(m) == /\ m.at \notin {"/", "scratch", "/dev", "config", "/proc/", "/sys/"}
                 /\ m.fs \notin {"pseudo", "devtmpfs"}

Mut_Mitigated(eff, level, needed) == IF eff \cap needed = {} THEN level ELSE "Low"

\* capMitigatedLevel for a level of Critical or High.
Mitigated(eff, level, needed) == IF eff \cap needed = {} THEN "Low" ELSE level

\* The level of a writable mount at a sensitive place.
PlaceLevel(m, c, eff) ==
    LET restricts == c.lsm = "enforce" IN
    CASE Place(m) \in {"proc", "sys"} ->
           IF restricts THEN "Info" ELSE IF c.mapped THEN "Medium"
           ELSE Mitigated(eff, "Critical", {"CAP_SYS_ADMIN"})
      [] Place(m) = "dev" ->
           IF m.at = "char" \/ c.mapped \/ (restricts /\ m.fs = "tmpfs") THEN "Info"
           ELSE Mitigated(eff, "High", {"CAP_MKNOD", "CAP_SYS_ADMIN"})
      [] Place(m) = "libmodules" -> Mitigated(eff, "Critical", {"CAP_SYS_MODULE", "CAP_SYS_ADMIN"})
      [] OTHER -> "Low"

FlagLevel(flag, c) ==
    IF flag \in {"noexec", "nosymfollow"} THEN "Medium" ELSE IF c.mapped THEN "Low" ELSE "High"

WeakLevel(w) == IF w \in {"sec", "noresvport"} THEN "Medium" ELSE "Low"

SharedLevel(c, eff) == IF c.mapped THEN "Low" ELSE Mitigated(eff, "High", {"CAP_SYS_ADMIN"})

(***************************************************************************)
(* The risks, each with the category its deduction goes to; what is the    *)
(* flag or the weakness.  A writable scratch directory has one risk in the *)
(* code, whose deduction grows with each missing flag.                     *)
(***************************************************************************)
Finding(m, kind, what, level) == [mount |-> m, kind |-> kind, what |-> what, level |-> level]

Findings(c, eff) ==
    LET writable == {m \in c.mounts : IsRW(m)}
        lacking(S) == {p \in S \X Flags : p[2] \notin p[1].flags}
    IN  UNION {
        {Finding(m, "docker_socket", "", "Critical") : m \in {n \in c.mounts : n.socket}},
        {Finding(m, Place(m), "", PlaceLevel(m, c, eff)) : m \in {n \in writable : Place(n) # "none"}},
        {Finding(p[1], "tmpfs_scratch", p[2], "Low") : p \in lacking({m \in writable : m.at = "scratch"})},
        {Finding(m, "host_root_mount", "", "High") : m \in {n \in writable : n.at = "/host"}},
        {Finding(p[1], p[2], p[2], FlagLevel(p[2], c)) : p \in lacking({m \in writable : IsExternal(m)})},
        {Finding(p[1], "nfs", p[2], WeakLevel(p[2])) :
            p \in {q \in {m \in c.mounts : m.fs = "nfs"} \X {"sec", "noresvport", "udp", "v3"} :
                     q[2] \in q[1].weak}},
        {Finding(m, "shared", "", SharedLevel(c, eff)) : m \in {n \in writable : n.shared}}}

\* What the category loses before its limit.
Deduction(found, kind, c) ==
    LET n(level) == Cardinality({f \in found : f.kind = kind /\ f.level = level})
        weak(w) == Cardinality({f \in found : f.kind = "nfs" /\ f.what = w})
    IN  CASE kind \in {"proc", "sys"} -> 35 * n("Critical") + 10 * n("Medium") + 3 * n("Low")
          [] kind = "dev" -> 30 * n("High") + 3 * n("Low")
          [] kind = "libmodules" -> 35 * n("Critical") + 5 * n("Low")
          [] kind \in {"nosuid", "nodev"} -> 15 * n("High") + 5 * n("Low")
          [] kind \in {"noexec", "nosymfollow"} -> 10 * n("Medium")
          [] kind = "shared" -> 20 * n("High") + (IF c.mapped THEN 5 ELSE 2) * n("Low")
          [] kind = "nfs" -> 10 * weak("sec") + 5 * weak("noresvport") + 3 * (weak("udp") + weak("v3"))
          [] kind = "tmpfs_scratch" -> 3 * n("Low")
          [] kind = "root_rw" -> 5 * n("Low")
          [] kind = "host_root_mount" -> 30 * n("High")
          [] OTHER -> 40 * n("Critical")

PrivilegedLimit ==
    [proc |-> 35, sys |-> 35, dev |-> 30, shared |-> 40, nodev |-> 30, nosuid |-> 30, noexec |-> 20,
     nosymfollow |-> 20, nfs |-> 20, tmpfs_scratch |-> 15, root_rw |-> 5, all |-> 70]
UnprivilegedLimit ==
    [proc |-> 5, sys |-> 5, dev |-> 5, shared |-> 5, nodev |-> 5, nosuid |-> 10, noexec |-> 10,
     nosymfollow |-> 10, nfs |-> 10, tmpfs_scratch |-> 5, root_rw |-> 5, all |-> 30]

\* The categories without a way out of the container, limited one by one and in all.
NonEscapeReduction(found, c) ==
    LET limit == IF c.mapped THEN UnprivilegedLimit ELSE PrivilegedLimit
        part(kind) == AtMost(Deduction(found, kind, c), limit[kind])
    IN  AtMost(part("proc") + part("sys") + part("dev") + part("shared") + part("nodev")
               + part("nosuid") + part("noexec") + part("nosymfollow") + part("nfs")
               + part("tmpfs_scratch") + part("root_rw"), limit["all"])

\* AuditMounts, with the report of the capabilities.
AuditMounts(c, caps) ==
    LET found == Findings(c, caps.eff)
        lost == Deduction(found, "docker_socket", c) + Deduction(found, "host_root_mount", c)
                + Deduction(found, "libmodules", c) + NonEscapeReduction(found, c)
        rootRO == \E m \in c.mounts : m.at = "/" /\ "ro" \in m.modes
    IN  [mounts |-> c.mounts,
         found |-> found,
         score |-> IF rootRO /\ found = {} THEN 100 ELSE Clamp(100 - lost)]
=============================================================================
