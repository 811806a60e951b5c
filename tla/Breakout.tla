------------------------------- MODULE Breakout -------------------------------
(***************************************************************************)
(* AssessBreakoutFeasibility of pkg/auditor/breakout.go: how feasible each *)
(* of its eight ways out is, given the parts of a report.  Feasibilities   *)
(* are their places in the order the code compares them by.                *)
(***************************************************************************)
EXTENDS Mounts

FeasibilityNone     == 0
FeasibilityLow      == 1
FeasibilityModerate == 2
FeasibilityHigh     == 3
FeasibilityTrivial  == 4

RootfsWritable(mounts) == \E m \in mounts.mounts : m.at = "/" /\ IsRW(m)

Mut_Difficulty(fs, mounts) ==
    CASE fs.programs \cap AdminTools # {} -> FeasibilityTrivial
      [] fs.programs \cap AdminTools = {} /\ fs.programs \cap Shells # {} -> FeasibilityHigh
      [] OTHER -> FeasibilityTrivial

\* exploitDifficulty of a vector that needs programs; a raw system call is always High.
Difficulty(fs, mounts) ==
    CASE fs.programs \cap Shells # {} ->
           IF fs.programs \cap AdminTools # {} THEN FeasibilityTrivial ELSE FeasibilityHigh
      [] fs.programs \cap Shells = {} /\ fs.programs \cap Interpreters # {} -> FeasibilityHigh
      [] OTHER -> IF RootfsWritable(mounts) THEN FeasibilityModerate ELSE FeasibilityLow

\* The mounts with a risk of these levels.
SevereMounts(mounts) == {f.mount : f \in {g \in mounts.found : g.level \in {"Critical", "High"}}}

\* The vectors that apply, with what each needs: "programs", "syscall" or "nothing".
Vectors(caps, ns, mounts) ==
    LET has(k) == k \in caps.eff
        control == caps.eff \cap {"CAP_SYS_ADMIN", "CAP_SYS_PTRACE", "CAP_NET_ADMIN"} # {}
        proc(m) == m.at = "/proc"
        dev(m) == m.at = "/dev" \/ m.fs = "devtmpfs"
        vector(name, needs, applies) == IF applies THEN {[name |-> name, needs |-> needs]} ELSE {}
    IN  UNION {
        vector("visibility", "nothing", ns.shared # {} /\ ~control),
        vector("sharing", "programs", ns.shared # {} /\ control),
        vector("core_pattern", "syscall", has("CAP_SYS_ADMIN") /\ \E m \in SevereMounts(mounts) : proc(m)),
        vector("propagation", "programs", has("CAP_SYS_ADMIN") /\ \E m \in mounts.mounts : m.shared),
        vector("device", "programs", (has("CAP_MKNOD") \/ has("CAP_SYS_ADMIN")) /\ \E m \in SevereMounts(mounts) : dev(m)),
        vector("module", "syscall", has("CAP_SYS_MODULE")),
        vector("rawio", "syscall", has("CAP_SYS_RAWIO")),
        vector("ptrace", "syscall", has("CAP_SYS_PTRACE") /\ "pid" \in ns.shared),
        vector("network", "programs", (has("CAP_NET_ADMIN") \/ has("CAP_NET_RAW")) /\ "net" \in ns.shared)}

Feasibility(v, fs, mounts) ==
    CASE v.needs = "nothing" -> FeasibilityNone
      [] v.needs = "syscall" -> FeasibilityHigh
      [] OTHER -> Difficulty(fs, mounts)

\* OverallVerdict: the worst vector, or None when there is no vector.
Verdict(caps, ns, mounts, fs) ==
    LET all == {FeasibilityNone} \cup {Feasibility(v, fs, mounts) : v \in Vectors(caps, ns, mounts)}
    IN  CHOOSE f \in all : \A g \in all : g <= f
=============================================================================
