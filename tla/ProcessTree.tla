----------------------------- MODULE ProcessTree -----------------------------
(***************************************************************************)
(* AuditProcessTree of pkg/auditor/tree.go: one audit reads the process    *)
(* table through /proc, one status file at a time, while the kernel keeps  *)
(* forking, reaping and re-parenting processes; it then walks from the     *)
(* target to its oldest known ancestor and hangs the known processes below *)
(* it.  A node keeps the parent PID its status file showed; the variable   *)
(* born tells apart two processes that had the same PID.  Names, command   *)
(* lines, UIDs, the namespace inode and the ASCII drawing are left out.    *)
(***************************************************************************)
EXTENDS Naturals, Sequences, FiniteSets

CONSTANTS
    Pids,       \* the PIDs the kernel can give out
    Roots,      \* processes whose status says "PPid: 0": init, kthreadd
    NameRank,   \* position of a PID among the sorted names of /proc
    MaxBirths   \* bound on the number of processes ever created

ASSUME PidsAssumption ==
    /\ IsFiniteSet(Pids)
    /\ Pids \subseteq Nat \ {0}
    /\ 1 \in Roots
    /\ Roots \subseteq Pids
    /\ NameRank \in [Pids -> Nat]
    /\ \A p, q \in Pids : NameRank[p] = NameRank[q] => p = q
    /\ MaxBirths \in Nat

VARIABLES
    live,     \* kernel: the PIDs of the existing processes
    ppid,     \* kernel: the parent of each process
    born,     \* kernel: when the process that (last) had the PID was created
    births,   \* kernel: how many processes have been created
    reused,   \* kernel: has it given out a PID again since the audit began?
    pc,       \* audit: where AuditProcessTree is
    target,   \* audit: targetPID
    todo,     \* audit: names ReadDir returned that are still to be read
    procs,    \* audit: the nodes of allProcs
    known,    \* audit: the keys of allProcs
    scanned,  \* audit: the keys that parentMap mentions too
    curr,     \* audit: curr of the ancestor loop
    chain,    \* audit: ancestors, the oldest first
    tree,     \* audit: the PIDs that attachChildren visited
    visits    \* audit: totalNodes

kernel == <<live, ppid, born, births, reused>>
audit  == <<pc, target, todo, procs, known, scanned, curr, chain, tree, visits>>
vars   == <<kernel, audit>>

Node   == [ppid : Pids \cup {0}, born : Nat]
NoNode == [ppid |-> 0, born |-> 0]

KernelTypeOK ==
    /\ live \in SUBSET Pids
    /\ ppid \in [Pids -> Pids \cup {0}]
    /\ born \in [Pids -> Nat]
    /\ births \in Nat
    /\ reused \in BOOLEAN

AuditTypeOK ==
    /\ pc \in {"idle", "scan", "locate", "climb", "attach", "done", "error"}
    /\ target \in Pids
    /\ todo \in SUBSET Pids
    /\ procs \in [Pids -> Node]
    /\ known \in SUBSET Pids
    /\ scanned \in SUBSET known
    /\ curr \in Pids
    /\ chain \in Seq(Pids)
    /\ tree \in SUBSET Pids
    /\ visits \in Nat

TypeOK == KernelTypeOK /\ AuditTypeOK

Init ==
    /\ live = Roots
    /\ ppid = [p \in Pids |-> 0]
    /\ born = [p \in Pids |-> IF p \in Roots THEN 1 ELSE 0]
    /\ births = 1
    /\ reused = FALSE
    /\ pc = "idle"
    /\ target = 1
    /\ todo = {}
    /\ procs = [p \in Pids |-> NoNode]
    /\ known = {}
    /\ scanned = {}
    /\ curr = 1
    /\ chain = <<>>
    /\ tree = {}
    /\ visits = 0
-----------------------------------------------------------------------------
(* The kernel.                                                             *)

Fork(p, c) ==
    /\ births < MaxBirths
    /\ p \in live
    /\ c \notin live
    /\ live' = live \cup {c}
    /\ ppid' = [ppid EXCEPT ![c] = p]
    /\ births' = births + 1
    /\ born' = [born EXCEPT ![c] = births + 1]
    /\ reused' = (pc # "idle" /\ (reused \/ born[c] # 0))
    /\ UNCHANGED audit

\* The parent of p, its parent, and so on.
Forebears(p) ==
    {q \in Pids : \A S \in SUBSET Pids :
        ppid[p] \in S /\ (\A r \in S : ppid[r] \in S \cup {0}) => q \in S}

\* The orphans go to the nearest subreaper above the parent, or to init.
Exit(p) ==
    /\ p \in live \ Roots
    /\ live' = live \ {p}
    /\ \E reaper \in {1} \cup Forebears(p) :
          ppid' = [c \in Pids |-> IF c \in live /\ ppid[c] = p THEN reaper ELSE ppid[c]]
    /\ UNCHANGED <<born, births, reused, audit>>
-----------------------------------------------------------------------------
(* The audit.                                                              *)

\* fetchProcessNodeInfo on a PID that exists; it returns nil on any other.
Fetched(p) == [ppid |-> ppid[p], born |-> born[p]]

\* The node is put into allProcs.
Learn(p) ==
    /\ procs' = [procs EXCEPT ![p] = Fetched(p)]
    /\ known' = known \cup {p}

\* AuditProcessTree is called: os.ReadDir takes the names in /proc at once.
List(t) ==
    /\ pc = "idle"
    /\ pc' = "scan"
    /\ target' = t
    /\ todo' = live
    /\ UNCHANGED <<kernel, procs, known, scanned, curr, chain, tree, visits>>

\* Wrong variant: a PID that is gone is entered in parentMap all the same.
Mut_ReadEntryUnchecked(p) ==
    /\ pc = "scan"
    /\ \A q \in todo : NameRank[p] <= NameRank[q]
    /\ todo' = todo \ {p}
    /\ scanned' = scanned \cup {p}
    /\ IF p \in live THEN Learn(p) ELSE UNCHANGED <<procs, known>>
    /\ UNCHANGED <<kernel, pc, target, curr, chain, tree, visits>>

\* One turn of the loop over the names, which are sorted.
ReadEntry(p) ==
    /\ pc = "scan"
    /\ \A q \in todo : NameRank[p] <= NameRank[q]
    /\ todo' = todo \ {p}
    /\ IF p \in live
       THEN Learn(p) /\ scanned' = scanned \cup {p}
       ELSE UNCHANGED <<procs, known, scanned>>
    /\ UNCHANGED <<kernel, pc, target, curr, chain, tree, visits>>

Scanned ==
    /\ pc = "scan"
    /\ todo = {}
    /\ pc' = "locate"
    /\ UNCHANGED <<kernel, target, todo, procs, known, scanned, curr, chain, tree, visits>>

\* The target is fetched on its own when the scan did not see it.
Locate ==
    /\ pc = "locate"
    /\ IF target \in known \/ target \in live
       THEN pc' = "climb" /\ curr' = target
       ELSE pc' = "error" /\ UNCHANGED curr
    /\ IF target \in live \ known
       THEN Learn(target)
       ELSE UNCHANGED <<procs, known>>
    /\ UNCHANGED <<kernel, target, todo, scanned, chain, tree, visits>>

\* The chain only outgrows the PIDs once the loop goes round a cycle for
\* good; what it appends from then on is not kept (bound on a counter).
Prepend(p, s) == IF Len(s) > Cardinality(Pids) THEN s ELSE <<p>> \o s

\* Wrong variant: curr is not moved on to the parent.
Mut_ClimbStays ==
    /\ pc = "climb"
    /\ chain' = Prepend(curr, chain)
    /\ LET parent == procs[curr].ppid IN
       /\ pc' = IF parent \in Pids \ {curr} /\ (parent \in known \/ parent \in live)
                THEN pc ELSE "attach"
       /\ IF parent \in (Pids \ {curr}) \cap (live \ known)
          THEN Learn(parent)
          ELSE UNCHANGED <<procs, known>>
    /\ UNCHANGED <<kernel, target, todo, scanned, curr, tree, visits>>

\* Wrong variant: the late fetch reads the child's status again.
Mut_ClimbFetchesChild ==
    /\ pc = "climb"
    /\ chain' = Prepend(curr, chain)
    /\ LET parent == procs[curr].ppid IN
       /\ IF parent \in Pids \ {curr} /\ (parent \in known \/ parent \in live)
          THEN curr' = parent /\ UNCHANGED pc
          ELSE pc' = "attach" /\ UNCHANGED curr
       /\ IF parent \in (Pids \ {curr}) \cap (live \ known)
          THEN /\ procs' = [procs EXCEPT ![parent] = Fetched(curr)]
               /\ known' = known \cup {parent}
          ELSE UNCHANGED <<procs, known>>
    /\ UNCHANGED <<kernel, target, todo, scanned, tree, visits>>

\* One turn of the ancestor loop; a parent the scan did not see is fetched
\* and added to allProcs, not to parentMap.
Climb ==
    /\ pc = "climb"
    /\ chain' = Prepend(curr, chain)
    /\ LET parent == procs[curr].ppid IN
       /\ IF parent \in Pids \ {curr} /\ (parent \in known \/ parent \in live)
          THEN curr' = parent /\ UNCHANGED pc
          ELSE pc' = "attach" /\ UNCHANGED curr
       /\ IF parent \in (Pids \ {curr}) \cap (live \ known)
          THEN Learn(parent)
          ELSE UNCHANGED <<procs, known>>
    /\ UNCHANGED <<kernel, target, todo, scanned, tree, visits>>

Ancestors == {chain[i] : i \in DOMAIN chain}

\* Wrong variant: no filter, so the siblings of ancestors come along.
Mut_ChildrenOffSpine(n) == {c \in scanned : procs[c].ppid = n}

\* Wrong variant: the clause for the children on the chain is missing.
Mut_ChildrenNoSpine(n) ==
    {c \in scanned :
        /\ procs[c].ppid = n
        /\ \/ target = 1
           \/ n = target
           \/ n \notin Ancestors}

\* Wrong variant: the target is hung below every ancestor.
Mut_ChildrenAttachTarget(n) ==
    {c \in scanned :
        \/ procs[c].ppid = n /\ (n = target \/ n \notin Ancestors \/ c \in Ancestors)
        \/ c = target /\ n \in Ancestors \ {target}}

\* The children of n that attachChildren hangs below it.
Children(n) ==
    {c \in scanned :
        /\ procs[c].ppid = n
        /\ \/ target = 1
           \/ n = target
           \/ n \notin Ancestors
           \/ c \in Ancestors}

\* The calls of attachChildren at each depth of its recursion.  Depth
\* Cardinality(Pids) is reached only when a node is its own descendant.
Levels ==
    LET level[d \in 0..Cardinality(Pids)] ==
            IF d = 0 THEN {chain[1]} ELSE UNION {Children(n) : n \in level[d - 1]}
    IN  level

\* The calls of attachChildren: each has a depth and the PID of its node.
Calls == {v \in (0..Cardinality(Pids)) \X Pids : v[2] \in Levels[v[1]]}

\* attachChildren on the root.  It works on the audit's own data only.
Attach ==
    /\ pc = "attach"
    /\ pc' = "done"
    /\ tree' = {v[2] : v \in Calls}
    /\ visits' = Cardinality(Calls)
    /\ UNCHANGED <<kernel, target, todo, procs, known, scanned, curr, chain>>

\* The caller takes the result, or "process not found".
Return ==
    /\ pc \in {"done", "error"}
    /\ pc' = "idle"
    /\ target' = 1
    /\ todo' = {}
    /\ procs' = [p \in Pids |-> NoNode]
    /\ known' = {}
    /\ scanned' = {}
    /\ curr' = 1
    /\ chain' = <<>>
    /\ tree' = {}
    /\ visits' = 0
    /\ reused' = FALSE
    /\ UNCHANGED <<live, ppid, born, births>>
-----------------------------------------------------------------------------
KernelStep ==
    \/ \E p, c \in Pids : Fork(p, c)
    \/ \E p \in Pids : Exit(p)

AuditStep ==
    \/ \E p \in todo : ReadEntry(p)
    \/ Scanned
    \/ Locate
    \/ Climb
    \/ Attach
    \/ Return

Next ==
    \/ KernelStep
    \/ \E t \in Pids : List(t)
    \/ AuditStep

\* A call of AuditProcessTree keeps running; nobody has to make one.
Spec == Init /\ [][Next]_vars /\ WF_vars(AuditStep)
-----------------------------------------------------------------------------
(* Properties.                                                             *)

\* The entry that allProcs holds for a PID's parent is about a process older
\* than the child's, so following the parents found by fetchProcessNodeInfo
\* cannot come back to where it started, whatever forked, exited or was
\* re-parented between two reads.  Needs that no PID was used again since
\* the audit began.
ParentsOlder ==
    ~ reused =>
        \A c \in known :
            procs[c].ppid \in known => procs[procs[c].ppid].born < procs[c].born

\* Unless a PID was used again meanwhile, no process is its own ancestor in
\* the chain AuditProcessTree returns.
AncestorsDistinct == ~ reused => \A i, j \in DOMAIN chain : chain[i] = chain[j] => i = j

\* A target that was in the directory listing is in the tree it is asked
\* for: no process on the way from the root to it was met only by the late
\* fetch of the ancestor loop, which parentMap does not know of.
TargetShown == pc = "done" /\ target \in scanned /\ ~ reused => target \in tree

\* The chain of parents of n, n included, by all that allProcs holds, also the
\* nodes of which parentMap knows nothing.
Lineage(n) ==
    LET up[d \in 0..Cardinality(Pids)] ==
            IF d = 0 THEN {n}
            ELSE up[d - 1] \cup {procs[c].ppid : c \in up[d - 1] \cap known}
    IN  up[Cardinality(Pids)]

\* For one process the chain to it and everything below it; for PID 1
\* everything below init.  Siblings of ancestors are not wanted.
Wanted == {n \in known : /\ chain[1] \in Lineage(n)
                         /\ \/ target \in Lineage(n)
                            \/ n \in Ancestors}

\* The tree of a target that was in the directory listing is all that is
\* wanted of what the audit has met: nobody on the chain, and nobody below
\* the target, is lost because it was fetched late.  A target that was
\* forked after the listing was taken is fetched late itself and can be
\* missing with what is below it; that tree still has nobody too many.
TreeIsLineage ==
    pc = "done" /\ ~ reused =>
        /\ tree \subseteq Wanted
        /\ target \in scanned => tree = Wanted

\* attachChildren visits no process twice, also when PIDs are used again
\* between two reads: its recursion ends and total_nodes is the number of
\* processes shown.
VisitedOnce == pc = "done" => visits = Cardinality(tree)

\* The ancestor loop ends unless a PID is used again while the audit runs.
ReturnsUnlessReused == pc # "idle" ~> pc = "idle" \/ reused

\* The ancestor loop ends: "Build ancestor chain (target -> parent ->
\* grandparent ... -> PID 1)".
AuditReturns == pc # "idle" ~> pc = "idle"
=============================================================================
