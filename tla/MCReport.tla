------------------------------- MODULE MCReport -------------------------------
(* A small instance of Report for TLC: a process that loses no point, one    *)
(* process for each way to lose one, and some that lose many.                *)
EXTENDS Overview

MCMount(at, fs, modes, opts) ==
    [id |-> 0, at |-> at, fs |-> fs, modes |-> modes, flags |-> opts, socket |-> FALSE,
     modules |-> FALSE, shared |-> FALSE, weak |-> {}]
MCRoot == MCMount("/", "disk", {"ro"}, Flags)

Perfect ==
    [peek |-> TRUE, mapped |-> FALSE, boxed |-> FALSE, root |-> FALSE, uid0 |-> FALSE, shared |-> {},
     eff |-> {}, prm |-> {}, bnd |-> {}, nnp |-> TRUE, seccomp |-> "deny", lsm |-> "enforce",
     setgroups |-> FALSE, oddInit |-> FALSE, limits |-> {"memory", "pids"}, gids |-> 0, helpers |-> {},
     suid |-> 0, exposed |-> {}, dotenv |-> FALSE, programs |-> {}, minimal |-> FALSE, pebble |-> FALSE,
     secrets |-> 0, dirs |-> 0, accounts |-> 0, disks |-> 0, unit |-> "none", insecure |-> {},
     mounts |-> {MCRoot}]

MCWith(c, m) == [c EXCEPT !.mounts = @ \cup {m}]
MCWritable(at, fs) == MCMount(at, fs, {"rw"}, Flags)

MCFlawed(c) ==
    {[c EXCEPT !.shared = {n}] : n \in Namespaces}
    \cup {[c EXCEPT !.eff = {k}, !.prm = {k}] : k \in Capabilities}
    \cup {[c EXCEPT !.root = TRUE, !.bnd = {k}] : k \in {"CAP_SYS_ADMIN", "CAP_KILL"}}
    \cup {MCWith([c EXCEPT !.lsm = "lenient"], MCWritable(at, "pseudo")) : at \in {"/proc", "/sys/", "/dev"}}
    \cup {MCWith(c, MCWritable(at, "disk")) : at \in {"/lib/modules", "/host", "scratch", "volume"}}
    \cup {MCWith(c, MCMount(at, "tmpfs", {"rw"}, Flags \ {f})) : at \in {"scratch", "volume"}, f \in Flags}
    \cup {MCWith(c, [MCRoot EXCEPT !.at = "volume", !.fs = "nfs", !.weak = {w}]) :
            w \in {"sec", "noresvport", "udp", "v3"}}
    \cup {MCWith(c, [MCRoot EXCEPT !.at = "config", !.socket = TRUE]),
          MCWith(c, [MCWritable("/host", "disk") EXCEPT !.modules = TRUE]),
          MCWith(c, [MCWritable("volume", "disk") EXCEPT !.shared = TRUE]),
          [c EXCEPT !.mounts = {[MCRoot EXCEPT !.modes = {"rw", "ro"}]}],
          [c EXCEPT !.mounts = {[MCMount("volume", "disk", {"rw"}, {"nodev"}) EXCEPT !.id = i] : i \in 1 .. 4}]}
    \cup {[c EXCEPT !.seccomp = s] : s \in {"off", "allow", "unknown"}}
    \cup {[c EXCEPT !.root = TRUE], [c EXCEPT !.uid0 = TRUE], [c EXCEPT !.suid = 1], [c EXCEPT !.suid = 11, !.nnp = FALSE],
          [c EXCEPT !.lsm = "unconfined"], [c EXCEPT !.setgroups = TRUE], [c EXCEPT !.oddInit = TRUE],
          [c EXCEPT !.limits = {"pids"}], [c EXCEPT !.gids = 2], [c EXCEPT !.helpers = {"core_pattern"}],
          [c EXCEPT !.exposed = {"shadow"}], [c EXCEPT !.dotenv = TRUE], [c EXCEPT !.secrets = 1],
          [c EXCEPT !.dirs = 1], [c EXCEPT !.accounts = 1], [c EXCEPT !.disks = 1],
          [c EXCEPT !.unit = "absent"], [c EXCEPT !.unit = "unreadable"],
          [c EXCEPT !.unit = "file", !.insecure = {"MemoryMax"}],
          [c EXCEPT !.unit = "file", !.insecure = TenPoints \cup FivePoints]}

MCSmall == {Perfect} \cup MCFlawed(Perfect) \cup MCFlawed([Perfect EXCEPT !.mapped = TRUE])
           \cup MCFlawed([Perfect EXCEPT !.boxed = TRUE])
           \cup {[c EXCEPT !.peek = FALSE] : c \in MCFlawed(Perfect)}

\* A privileged container with a full image.
MCPrivileged ==
    [Perfect EXCEPT !.root = TRUE, !.uid0 = TRUE, !.shared = {"net", "pid", "user"}, !.nnp = FALSE, !.seccomp = "allow",
     !.eff = {"CAP_SYS_ADMIN", "CAP_MKNOD"}, !.prm = {"CAP_SYS_ADMIN", "CAP_MKNOD"},
     !.bnd = {"CAP_SYS_ADMIN", "CAP_MKNOD"}, !.lsm = "unconfined", !.suid = 2, !.programs = {"sh", "mknod"},
     !.mounts = {[MCRoot EXCEPT !.modes = {"rw"}], MCWritable("/dev", "tmpfs"),
                 [MCWritable("/proc", "pseudo") EXCEPT !.shared = TRUE]}]

\* A service on the host with a unit of its own.
MCService ==
    [Perfect EXCEPT !.shared = {"net", "uts"}, !.limits = {}, !.eff = {"CAP_NET_RAW"},
     !.prm = {"CAP_NET_RAW"}, !.nnp = FALSE, !.suid = 1, !.programs = {"sh", "nc"}, !.minimal = TRUE,
     !.unit = "file", !.insecure = {"MemoryMax"}, !.dirs = 1, !.secrets = 1, !.disks = 1,
     !.mounts = {[MCRoot EXCEPT !.modes = {"rw"}], MCMount("volume", "disk", {"rw"}, {"nosuid"})}]

\* A rock, managed by pebble, with some tools left in it.
MCRock ==
    [Perfect EXCEPT !.root = TRUE, !.uid0 = TRUE, !.eff = {"CAP_SYS_CHROOT", "CAP_NET_RAW"},
     !.prm = {"CAP_SYS_CHROOT", "CAP_NET_RAW"}, !.bnd = {"CAP_SYS_CHROOT", "CAP_NET_RAW"},
     !.shared = {"net"}, !.programs = {"chroot", "nc", "apt", "python"}, !.minimal = TRUE, !.pebble = TRUE]

\* One that shares the mount namespace, and has no limits yet.
MCUnlimited == [Perfect EXCEPT !.shared = {"mnt"}, !.limits = {}]

MCLarge == {MCUnlimited, MCPrivileged, [MCPrivileged EXCEPT !.mapped = TRUE, !.gids = 1, !.shared = {"net"}],
            MCService, [MCService EXCEPT !.boxed = TRUE], [MCService EXCEPT !.peek = FALSE],
            MCRock, [MCRock EXCEPT !.peek = FALSE]}

MCProcesses == MCSmall \cup MCLarge
MCChanges == [c \in MCProcesses |-> IF c \in MCLarge THEN 2 ELSE 1]
MCFlagSets == {{}, {"shared-ns"}, AssertionFlags}
=============================================================================
