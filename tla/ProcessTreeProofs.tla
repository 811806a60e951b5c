-------------------------- MODULE ProcessTreeProofs --------------------------
(***************************************************************************)
(* Proofs about ProcessTree.  The argument: a child is created after its   *)
(* parent and the reaper of an orphan is older than the process that died, *)
(* so parent links of the kernel go to older processes; a node the audit   *)
(* holds was copied from such a link, and the ages it compares do not      *)
(* change as long as no PID is used again.  The recursion over children is *)
(* taken level by level, and what holds of every level is shown by looking *)
(* at the first one of which it would not.                                 *)
(***************************************************************************)
EXTENDS ProcessTree, FiniteSetTheorems, WellFoundedInduction, TLAPS

-----------------------------------------------------------------------------
(* Type correctness.                                                       *)

\* A node that fetchProcessNodeInfo returns is a well-formed one.
LEMMA FetchedType == ASSUME KernelTypeOK, NEW p \in Pids PROVE Fetched(p) \in Node
  BY DEF KernelTypeOK, Fetched, Node

\* Adding a node to allProcs keeps the map well-formed.
LEMMA LearnType ==
  ASSUME TypeOK, NEW p \in Pids, Learn(p)
  PROVE  procs' \in [Pids -> Node] /\ known' \in SUBSET Pids /\ known \subseteq known'
<1>1. Fetched(p) \in Node
  BY FetchedType DEF TypeOK
<1> QED
  BY <1>1 DEF TypeOK, AuditTypeOK, Learn

\* A step of the audit leaves the kernel's variables well-typed, and the
\* other way round.
LEMMA FrameType ==
  /\ KernelTypeOK /\ UNCHANGED kernel => KernelTypeOK'
  /\ AuditTypeOK /\ UNCHANGED audit => AuditTypeOK'
<1>1. KernelTypeOK /\ UNCHANGED kernel => KernelTypeOK'
  BY DEF KernelTypeOK, kernel
<1>2. AuditTypeOK /\ UNCHANGED audit => AuditTypeOK'
  BY DEF AuditTypeOK, audit
<1> QED
  BY <1>1, <1>2

\* Every step keeps every variable of the audit and of the kernel in its type.
LEMMA TypeStep == TypeOK /\ [Next]_vars => TypeOK'
<1> SUFFICES ASSUME TypeOK, [Next]_vars PROVE TypeOK'
  OBVIOUS
<1> USE PidsAssumption DEF TypeOK
<1>1. ASSUME NEW p \in Pids, NEW c \in Pids, Fork(p, c) PROVE TypeOK'
  <2>1. KernelTypeOK'
    BY <1>1 DEF Fork, KernelTypeOK
  <2> QED
    BY <1>1, <2>1, FrameType DEF Fork
<1>2. ASSUME NEW p \in Pids, Exit(p) PROVE TypeOK'
  <2>1. PICK reaper \in {1} \cup Forebears(p) :
          ppid' = [c \in Pids |-> IF c \in live /\ ppid[c] = p THEN reaper ELSE ppid[c]]
    BY <1>2 DEF Exit
  <2>2. reaper \in Pids \cup {0}
    BY PidsAssumption DEF Forebears
  <2>3. KernelTypeOK'
    BY <1>2, <2>1, <2>2 DEF Exit, KernelTypeOK
  <2> QED
    BY <1>2, <2>3, FrameType DEF Exit, audit
<1>3. ASSUME NEW t \in Pids, List(t) PROVE TypeOK'
  BY <1>3, FrameType DEF List, AuditTypeOK, KernelTypeOK
<1>4. ASSUME NEW p \in todo, ReadEntry(p) PROVE TypeOK'
  <2>1. p \in Pids
    BY DEF AuditTypeOK
  <2>2. procs' \in [Pids -> Node] /\ known' \in SUBSET Pids /\ scanned' \in SUBSET known'
    <3>1. CASE p \in live
      BY <1>4, <2>1, <3>1, LearnType DEF ReadEntry, AuditTypeOK, Learn
    <3>2. CASE p \notin live
      BY <1>4, <3>2 DEF ReadEntry, AuditTypeOK
    <3> QED
      BY <3>1, <3>2
  <2>3. AuditTypeOK'
    BY <1>4, <2>2 DEF ReadEntry, AuditTypeOK
  <2> QED
    BY <1>4, <2>3, FrameType DEF ReadEntry
<1>5. CASE Scanned
  BY <1>5, FrameType DEF Scanned, AuditTypeOK
<1>6. CASE Locate
  <2>2. procs' \in [Pids -> Node] /\ known' \in SUBSET Pids /\ known \subseteq known'
    <3>1. CASE target \in live \ known
      BY <1>6, <3>1, LearnType DEF Locate, AuditTypeOK
    <3>2. CASE target \notin live \ known
      BY <1>6, <3>2 DEF Locate, AuditTypeOK
    <3> QED
      BY <3>1, <3>2
  <2>3. pc' \in {"climb", "error"} /\ curr' \in Pids
    BY <1>6 DEF Locate, AuditTypeOK
  <2>4. AuditTypeOK'
    BY <1>6, <2>2, <2>3 DEF Locate, AuditTypeOK
  <2> QED
    BY <1>6, <2>4, FrameType DEF Locate
<1>7. CASE Climb
  <2> DEFINE parent == procs[curr].ppid
  <2>1. Prepend(curr, chain) \in Seq(Pids)
    BY DEF Prepend, AuditTypeOK
  <2>3. procs' \in [Pids -> Node] /\ known' \in SUBSET Pids /\ known \subseteq known'
    <3>1. CASE parent \in (Pids \ {curr}) \cap (live \ known)
      BY <1>7, <3>1, LearnType DEF Climb
    <3>2. CASE parent \notin (Pids \ {curr}) \cap (live \ known)
      BY <1>7, <3>2 DEF Climb, AuditTypeOK
    <3> QED
      BY <3>1, <3>2
  <2>4. curr' \in Pids /\ pc' \in {"climb", "attach"}
    BY <1>7 DEF Climb, AuditTypeOK
  <2>5. AuditTypeOK'
    BY <1>7, <2>1, <2>3, <2>4 DEF Climb, AuditTypeOK
  <2> QED
    BY <1>7, <2>5, FrameType DEF Climb
<1>8. CASE Attach
  <2>0. IsFiniteSet(0..Cardinality(Pids))
    BY FS_CardinalityType, FS_Interval
  <2>1. IsFiniteSet((0..Cardinality(Pids)) \X Pids)
    BY <2>0, FS_Product
  <2>2. Cardinality(Calls) \in Nat
    BY <2>1, FS_Subset, FS_CardinalityType DEF Calls
  <2>3. {v[2] : v \in Calls} \subseteq Pids
    BY DEF Calls
  <2>4. AuditTypeOK'
    BY <1>8, <2>2, <2>3 DEF Attach, AuditTypeOK
  <2> QED
    BY <1>8, <2>4, FrameType DEF Attach
<1>9. CASE Return
  <2>1. AuditTypeOK'
    BY <1>9 DEF Return, NoNode, Node, AuditTypeOK
  <2>2. KernelTypeOK'
    BY <1>9 DEF Return, KernelTypeOK
  <2> QED
    BY <2>1, <2>2
<1>10. CASE UNCHANGED vars
  BY <1>10, FrameType DEF vars
<1> QED
  BY <1>1, <1>2, <1>3, <1>4, <1>5, <1>6, <1>7, <1>8, <1>9, <1>10
  DEF Next, KernelStep, AuditStep

\* They have their types at the start.
LEMMA InitType == Init => TypeOK
<1>1. Init => KernelTypeOK
  <2>1. Init => live \in SUBSET Pids /\ ppid \in [Pids -> Pids \cup {0}] /\ born \in [Pids -> Nat] /\ births \in Nat
    BY PidsAssumption DEF Init
  <2>2. Init => reused \in BOOLEAN
    BY DEF Init
  <2> QED
    BY <2>1, <2>2 DEF KernelTypeOK
<1>2. Init => AuditTypeOK
  BY PidsAssumption DEF Init, AuditTypeOK, NoNode, Node
<1> QED
  BY <1>1, <1>2 DEF TypeOK

\* The variables of the kernel and of the audit always have their types.
THEOREM TypeCorrect == Spec => []TypeOK
<1>1. Init => TypeOK
  BY InitType
<1> QED
  BY <1>1, TypeStep, PTL DEF Spec
-----------------------------------------------------------------------------
(* Ages.                                                                   *)

\* The kernel's parent links go from a living process to an older living
\* one; only the roots have none, and they are the oldest.
KernelInv ==
    /\ Roots \subseteq live
    /\ \A p \in Roots : born[p] = 1
    /\ births >= 1
    /\ \A p \in live :
          /\ 1 <= born[p] /\ born[p] <= births
          /\ p \in Roots => ppid[p] = 0
          /\ p \notin Roots => ppid[p] \in live /\ born[ppid[p]] < born[p]

\* A node that allProcs holds is about the one process that ever had its
\* PID, and names a parent that has existed and is older.
SnapshotInv ==
    \A c \in known :
        /\ born[c] = procs[c].born
        /\ procs[c].born >= 1
        /\ LET p == procs[c].ppid IN
            p # 0 => born[p] >= 1 /\ born[p] < procs[c].born

\* Between two audits nothing is known, and no PID counts as used again.
IdleInv == pc = "idle" => known = {} /\ ~ reused

\* Every step keeps that: only a call of AuditProcessTree leaves idle.
LEMMA IdleStepInv ==
  ASSUME TypeOK, IdleInv, [Next]_vars
  PROVE  IdleInv'
<1>1. ASSUME NEW p \in Pids, NEW c \in Pids, Fork(p, c) PROVE IdleInv'
  BY <1>1 DEF Fork, audit, IdleInv
<1>2. ASSUME NEW p \in Pids, Exit(p) PROVE IdleInv'
  BY <1>2 DEF Exit, audit, IdleInv
<1>3. CASE Return
  BY <1>3 DEF Return, IdleInv
<1>4. ASSUME NEW t \in Pids, List(t) PROVE IdleInv'
  BY <1>4 DEF List, IdleInv
<1>5. ASSUME NEW p \in todo, ReadEntry(p) PROVE IdleInv'
  BY <1>5 DEF ReadEntry, IdleInv
<1>6. CASE Scanned \/ Attach
  BY <1>6 DEF Scanned, Attach, IdleInv
<1>7. CASE Locate
  BY <1>7 DEF Locate, IdleInv
<1>8. CASE Climb
  BY <1>8 DEF Climb, IdleInv
<1>9. CASE UNCHANGED vars
  BY <1>9 DEF vars, kernel, audit, IdleInv
<1> QED
  BY <1>1, <1>2, <1>3, <1>4, <1>5, <1>6, <1>7, <1>8, <1>9 DEF Next, KernelStep, AuditStep

\* Once a PID has been used again only the end of the audit makes up for it.
LEMMA ReusedStep ==
  ASSUME TypeOK, IdleInv, [Next]_vars, ~ reused'
  PROVE  ~ reused \/ Return
<1>1. ASSUME NEW p \in Pids, NEW c \in Pids, Fork(p, c) PROVE ~ reused
  BY <1>1 DEF Fork, IdleInv
<1>2. CASE UNCHANGED reused
  BY <1>2
<1> QED
  BY <1>1, <1>2 DEF Next, KernelStep, AuditStep, Exit, List, ReadEntry, Scanned,
     Locate, Climb, Attach, vars, kernel

\* Whoever is above a process runs and is older.
LEMMA ForebearsOlder ==
  ASSUME TypeOK, KernelInv, NEW p \in live \ Roots, NEW q \in Forebears(p)
  PROVE  q \in live /\ born[q] < born[p]
<1> DEFINE S == {r \in live : born[r] < born[p]}
<1>1. \A r \in live : born[r] \in Nat
  BY DEF TypeOK, KernelTypeOK
<1>2. ppid[p] \in S
  BY DEF KernelInv
<1>3. \A r \in S : ppid[r] \in S \cup {0}
  BY <1>1 DEF KernelInv
<1>4. S \in SUBSET Pids
  BY DEF TypeOK, KernelTypeOK
<1>5. q \in S
  <2> HIDE DEF S
  <2> QED
    BY <1>2, <1>3, <1>4 DEF Forebears
<1> QED
  BY <1>5

\* The kernel keeps its parent links pointing to older processes.
LEMMA KernelStepInv ==
  ASSUME TypeOK, KernelInv, [Next]_vars
  PROVE  KernelInv'
<1> USE PidsAssumption DEF TypeOK, KernelTypeOK
<1>1. ASSUME NEW p \in Pids, NEW c \in Pids, Fork(p, c) PROVE KernelInv'
  <2>1. p # c /\ c \notin Roots /\ born'[c] = births + 1 /\ ppid'[c] = p
    BY <1>1 DEF Fork, KernelInv
  <2>2. \A q \in live : q # c /\ born'[q] = born[q] /\ ppid'[q] = ppid[q]
    BY <1>1 DEF Fork, KernelInv
  <2> QED
    BY <1>1, <2>1, <2>2 DEF Fork, KernelInv
<1>2. ASSUME NEW p \in Pids, Exit(p) PROVE KernelInv'
  <2>1. PICK reaper \in {1} \cup Forebears(p) :
          ppid' = [c \in Pids |-> IF c \in live /\ ppid[c] = p THEN reaper ELSE ppid[c]]
    BY <1>2 DEF Exit
  <2>2. p \in live /\ p \notin Roots /\ live' = live \ {p} /\ UNCHANGED <<born, births>>
    BY <1>2 DEF Exit
  <2>3. reaper \in live /\ reaper # p /\ born[reaper] < born[p]
    <3>1. ppid[p] \in live /\ born[ppid[p]] < born[p] /\ 1 <= born[ppid[p]]
      BY <2>2 DEF KernelInv
    <3>2. 1 \in live /\ born[1] = 1
      BY DEF KernelInv
    <3>3. 1 # p
      BY <2>2, PidsAssumption
    <3>4. born[p] \in Nat /\ born[ppid[p]] \in Nat /\ 1 < born[p]
      <4>1. born[p] \in Nat /\ born[ppid[p]] \in Nat
        BY <2>2, <3>1
      <4> QED
        BY <3>1, <4>1
    <3>5. CASE reaper = 1
      BY <3>2, <3>3, <3>4, <3>5
    <3>6. CASE reaper \in Forebears(p)
      <4>1. reaper \in live /\ born[reaper] < born[p]
        BY <2>2, <3>6, ForebearsOlder
      <4> QED
        BY <3>4, <4>1
    <3> QED
      BY <3>5, <3>6
  <2>4. ASSUME NEW c \in live', c \notin Roots
        PROVE  ppid'[c] \in live' /\ born'[ppid'[c]] < born'[c]
    <3>1. c \in live /\ ppid[c] \in live /\ born[ppid[c]] < born[c]
      BY <2>2, <2>4 DEF KernelInv
    <3>2. CASE ppid[c] = p
      <4>1. ppid'[c] = reaper
        BY <2>1, <3>1, <3>2
      <4>2. born[reaper] < born[c]
        BY <2>2, <2>3, <3>1, <3>2
      <4> QED
        BY <4>1, <4>2, <2>2, <2>3
    <3>3. CASE ppid[c] # p
      BY <2>1, <2>2, <3>1, <3>3
    <3> QED
      BY <3>2, <3>3
  <2>5. \A c \in Roots : ppid'[c] = 0
    BY <2>1, <2>2 DEF KernelInv
  <2>6. Roots \subseteq live' /\ births' >= 1 /\ \A q \in Roots : born'[q] = 1
    BY <2>2 DEF KernelInv
  <2>7. \A q \in live' : 1 <= born'[q] /\ born'[q] <= births'
    BY <2>2 DEF KernelInv
  <2> QED
    BY <2>4, <2>5, <2>6, <2>7 DEF KernelInv
<1>3. CASE UNCHANGED <<live, ppid, born, births>>
  BY <1>3 DEF KernelInv
<1> QED
  BY <1>1, <1>2, <1>3 DEF Next, KernelStep, AuditStep, List, ReadEntry, Scanned,
     Locate, Climb, Attach, Return, vars, kernel

\* A node just fetched satisfies SnapshotInv, and the others keep it.
LEMMA LearnInv ==
  ASSUME TypeOK, KernelInv, SnapshotInv, NEW p \in live, Learn(p), UNCHANGED kernel
  PROVE  SnapshotInv'
<1> USE PidsAssumption DEF TypeOK, KernelTypeOK, AuditTypeOK, KernelInv, SnapshotInv, kernel
<1>1. procs'[p].ppid = ppid[p] /\ procs'[p].born = born[p]
  BY DEF Learn, Fetched
<1>2. ASSUME NEW c \in known', c # p
      PROVE  c \in known /\ procs'[c] = procs[c]
  BY <1>2 DEF Learn
<1>3. ppid[p] # 0 => ppid[p] \in live /\ born[ppid[p]] < born[p]
  OBVIOUS
<1>4. ASSUME NEW c \in known'
      PROVE  /\ born[c] = procs'[c].born
             /\ procs'[c].born >= 1
             /\ procs'[c].ppid # 0 => /\ born[procs'[c].ppid] >= 1
                                      /\ born[procs'[c].ppid] < procs'[c].born
  <2>1. CASE c = p
    BY <2>1, <1>1, <1>3
  <2>2. CASE c # p
    BY <2>2, <1>2
  <2> QED
    BY <2>1, <2>2
<1>5. born' = born
  OBVIOUS
<1> QED
  BY <1>4, <1>5

\* Forks, exits and the audit's own steps leave the ages in allProcs right,
\* those of a fork as long as the PID it gives out is a new one.
LEMMA SnapshotStepInv ==
  ASSUME TypeOK, KernelInv, SnapshotInv, IdleInv, [Next]_vars, ~ reused'
  PROVE  SnapshotInv'
<1> USE PidsAssumption DEF TypeOK, KernelTypeOK, AuditTypeOK
<1>1. ASSUME NEW p \in Pids, NEW c \in Pids, Fork(p, c) PROVE SnapshotInv'
  <2>0. known = {} \/ born[c] = 0
    BY <1>1 DEF Fork, IdleInv
  <2>3. born' = [born EXCEPT ![c] = births + 1]
    BY <1>1 DEF Fork
  <2>1. ASSUME NEW q \in Pids, born[q] >= 1, known # {} PROVE born'[q] = born[q]
    <3> HIDE DEF TypeOK, KernelTypeOK, AuditTypeOK
    <3>1. q # c
      BY <2>0, <2>1
    <3>2. born \in [Pids -> Nat]
      BY DEF TypeOK, KernelTypeOK
    <3> QED
      BY <2>3, <3>1, <3>2
  <2>2. UNCHANGED <<procs, known>>
    BY <1>1 DEF Fork, audit
  <2>4. \A q \in known : procs[q].ppid \in Pids \cup {0}
    BY DEF Node
  <2> QED
    BY <2>1, <2>2, <2>4 DEF SnapshotInv
<1>2. ASSUME NEW p \in Pids, Exit(p) PROVE SnapshotInv'
  BY <1>2 DEF Exit, audit, SnapshotInv
<1>3. ASSUME NEW t \in Pids, List(t) PROVE SnapshotInv'
  BY <1>3 DEF List, kernel, SnapshotInv
<1>4. ASSUME NEW p \in todo, ReadEntry(p) PROVE SnapshotInv'
  <2>1. CASE p \in live
    BY <1>4, <2>1, LearnInv DEF ReadEntry
  <2>2. CASE p \notin live
    BY <1>4, <2>2 DEF ReadEntry, kernel, SnapshotInv
  <2> QED
    BY <2>1, <2>2
<1>5. CASE Locate
  <2>1. CASE target \in live \ known
    BY <1>5, <2>1, LearnInv DEF Locate
  <2>2. CASE target \notin live \ known
    BY <1>5, <2>2 DEF Locate, kernel, SnapshotInv
  <2> QED
    BY <2>1, <2>2
<1>6. CASE Climb
  <2> DEFINE parent == procs[curr].ppid
  <2>1. CASE parent \in (Pids \ {curr}) \cap (live \ known)
    BY <1>6, <2>1, LearnInv DEF Climb
  <2>2. CASE parent \notin (Pids \ {curr}) \cap (live \ known)
    BY <1>6, <2>2 DEF Climb, kernel, SnapshotInv
  <2> QED
    BY <2>1, <2>2
<1>7. CASE Return
  BY <1>7 DEF Return, SnapshotInv
<1>8. CASE Scanned \/ Attach \/ UNCHANGED vars
  BY <1>8 DEF Scanned, Attach, kernel, vars, audit, SnapshotInv
<1> QED
  BY <1>1, <1>2, <1>3, <1>4, <1>5, <1>6, <1>7, <1>8 DEF Next, KernelStep, AuditStep

AgeInv == TypeOK /\ KernelInv /\ IdleInv /\ (~ reused => SnapshotInv)

\* The invariant about ages is inductive.
LEMMA AgeInvariant == Spec => []AgeInv
<1>1. Init => AgeInv
  <2>1. Init => TypeOK
    BY InitType
  <2>2. Init => KernelInv /\ IdleInv /\ SnapshotInv
    BY PidsAssumption DEF Init, KernelInv, IdleInv, SnapshotInv
  <2> QED
    BY <2>1, <2>2 DEF AgeInv
<1>2. AgeInv /\ [Next]_vars => AgeInv'
  <2> SUFFICES ASSUME AgeInv, [Next]_vars PROVE AgeInv'
    OBVIOUS
  <2>1. TypeOK' /\ KernelInv' /\ IdleInv'
    BY TypeStep, KernelStepInv, IdleStepInv DEF AgeInv
  <2>2. ASSUME ~ reused' PROVE SnapshotInv'
    <3>1. CASE ~ reused
      BY <2>2, <3>1, SnapshotStepInv DEF AgeInv
    <3>2. CASE Return
      BY <3>2 DEF Return, SnapshotInv
    <3> QED
      BY <2>2, <3>1, <3>2, ReusedStep DEF AgeInv
  <2> QED
    BY <2>1, <2>2 DEF AgeInv
<1> QED
  BY <1>1, <1>2, PTL DEF Spec

\* Unless a PID was used again since the audit began, the parent of any
\* process in allProcs is older than it, for any process table and any
\* interleaving.
THEOREM ParentsAreOlder == Spec => []ParentsOlder
<1>1. AgeInv => ParentsOlder
  BY PidsAssumption DEF AgeInv, SnapshotInv, ParentsOlder, TypeOK, AuditTypeOK
<1> QED
  BY <1>1, AgeInvariant, PTL
-----------------------------------------------------------------------------
(* The ancestor chain.                                                     *)

\* The chain holds known processes, older ones first, and the one the loop
\* is about to put in front is older than all of them.
ChainInv ==
    /\ \A i \in DOMAIN chain : chain[i] \in known
    /\ \A i, j \in DOMAIN chain : i < j => procs[chain[i]].born < procs[chain[j]].born
    /\ pc = "climb" =>
          /\ curr \in known
          /\ \A i \in DOMAIN chain : procs[curr].born < procs[chain[i]].born
    /\ pc \in {"idle", "scan", "locate"} => chain = <<>>

\* What Prepend puts where.
LEMMA PrependAt ==
  ASSUME NEW p \in Pids, NEW s \in Seq(Pids), NEW i \in DOMAIN Prepend(p, s)
  PROVE  \/ i \in DOMAIN s /\ Prepend(p, s)[i] = s[i] /\ Prepend(p, s) = s
         \/ Prepend(p, s) # s /\ i = 1 /\ Prepend(p, s)[i] = p
         \/ Prepend(p, s) # s /\ i > 1 /\ i - 1 \in DOMAIN s /\ Prepend(p, s)[i] = s[i - 1]
<1>1. CASE Len(s) > Cardinality(Pids)
  BY <1>1 DEF Prepend
<1>2. CASE ~(Len(s) > Cardinality(Pids))
  <2>1. Prepend(p, s) = <<p>> \o s
    BY <1>2 DEF Prepend
  <2>2. <<p>> \o s # s /\ i \in 1..(Len(s) + 1)
    BY <2>1
  <2> QED
    BY <2>1, <2>2
<1> QED
  BY <1>1, <1>2

\* One turn of the ancestor loop keeps the chain sorted by age.
LEMMA ClimbChain ==
  ASSUME AgeInv, AgeInv', ~ reused, ~ reused', ChainInv, Climb
  PROVE  ChainInv'
<1> USE DEF AgeInv, TypeOK, AuditTypeOK
<1>1. \A c \in known : c \in known' /\ procs'[c] = procs[c]
  <2> DEFINE parent == procs[curr].ppid
  <2>1. CASE parent \in (Pids \ {curr}) \cap (live \ known)
    BY <2>1 DEF Climb, Learn
  <2>2. CASE parent \notin (Pids \ {curr}) \cap (live \ known)
    BY <2>2 DEF Climb
  <2> QED
    BY <2>1, <2>2
<1>2. curr \in known /\ \A i \in DOMAIN chain : procs[curr].born < procs[chain[i]].born
  BY DEF Climb, ChainInv
<1>3. chain' = Prepend(curr, chain)
  BY DEF Climb
<1>4. ASSUME NEW i \in DOMAIN chain'
      PROVE  /\ chain'[i] \in known
             /\ chain'[i] = curr \/ \E k \in DOMAIN chain : chain'[i] = chain[k]
  BY <1>2, <1>3, <1>4, PrependAt DEF ChainInv
<1>5. ASSUME NEW i \in DOMAIN chain', NEW j \in DOMAIN chain', i < j
      PROVE  procs[chain'[i]].born < procs[chain'[j]].born
  <2>1. CASE chain' = chain
    BY <2>1, <1>5 DEF ChainInv
  <2>2. CASE chain' # chain
    <3>1. j > 1 /\ j - 1 \in DOMAIN chain /\ chain'[j] = chain[j - 1]
      BY <1>3, <1>5, <2>2, PrependAt
    <3>2. CASE i = 1
      <4>1. chain'[i] = curr
        BY <1>3, <2>2, <3>2, PrependAt
      <4> QED
        BY <4>1, <3>1, <1>2
    <3>3. CASE i # 1
      <4>1. i - 1 \in DOMAIN chain /\ chain'[i] = chain[i - 1]
        BY <1>3, <2>2, <3>3, PrependAt
      <4> QED
        BY <4>1, <3>1, <1>5 DEF ChainInv
    <3> QED
      BY <3>2, <3>3
  <2> QED
    BY <2>1, <2>2
<1>6. ASSUME pc' = "climb"
      PROVE  /\ curr' \in known'
             /\ curr' = procs[curr].ppid
             /\ procs'[curr'].born < procs[curr].born
  <2>1. curr' = procs[curr].ppid /\ curr' \in Pids /\ (curr' \in known \/ curr' \in live)
    BY <1>6 DEF Climb
  <2>2. curr' \in known'
    <3>1. CASE curr' \in known
      BY <3>1, <1>1
    <3>2. CASE curr' \notin known
      BY <1>6, <2>1, <3>2 DEF Climb, Learn
    <3> QED
      BY <3>1, <3>2
  <2>3. born'[curr'] = procs'[curr'].born
    BY <2>2 DEF SnapshotInv
  <2>4. born'[curr'] < procs'[curr].born
    <3>1. curr \in known' /\ procs'[curr].ppid = curr' /\ curr' # 0
      BY <1>1, <1>2, <2>1, PidsAssumption
    <3> HIDE DEF AgeInv, TypeOK, AuditTypeOK
    <3>2. SnapshotInv'
      BY DEF AgeInv
    <3> QED
      BY <3>1, <3>2 DEF SnapshotInv
  <2> QED
    BY <1>1, <1>2, <2>1, <2>2, <2>3, <2>4
<1>7. \A i \in DOMAIN chain' : procs'[chain'[i]] = procs[chain'[i]] /\ chain'[i] \in known'
  BY <1>1, <1>4
<1>8. pc' = "climb" => \A i \in DOMAIN chain' : procs'[curr'].born < procs'[chain'[i]].born
  <2> SUFFICES ASSUME pc' = "climb", NEW i \in DOMAIN chain'
               PROVE  procs'[curr'].born < procs'[chain'[i]].born
    OBVIOUS
  <2>1. procs'[curr'].born < procs[curr].born
    BY <1>6
  <2>2. procs[curr].born <= procs[chain'[i]].born
    BY <1>2, <1>4 DEF Node
  <2>3. procs'[curr'].born \in Nat /\ procs[curr].born \in Nat /\ procs[chain'[i]].born \in Nat
    BY <1>4 DEF Node
  <2> QED
    BY <2>1, <2>2, <2>3, <1>7
<1>9. pc' \in {"climb", "attach"}
  BY DEF Climb
<1> QED
  BY <1>5, <1>6, <1>7, <1>8, <1>9 DEF ChainInv

\* Every step keeps the chain sorted by age, unless it uses a PID again.
LEMMA ChainStepInv ==
  ASSUME AgeInv, AgeInv', ~ reused, ~ reused', ChainInv, [Next]_vars
  PROVE  ChainInv'
<1> USE DEF AgeInv, TypeOK, AuditTypeOK
<1>1. CASE Climb
  BY <1>1, ClimbChain
<1>2. CASE Locate
  <2>1. pc = "locate" /\ chain = <<>> /\ chain' = <<>> /\ pc' \in {"climb", "error"}
    BY <1>2 DEF Locate, ChainInv
  <2>2. pc' = "climb" => curr' \in known'
    <3>1. CASE target \in live \ known
      BY <1>2, <3>1 DEF Locate, Learn
    <3>2. CASE target \notin live \ known
      BY <1>2, <3>2 DEF Locate
    <3> QED
      BY <3>1, <3>2
  <2> QED
    BY <2>1, <2>2 DEF ChainInv
<1>3. ASSUME NEW p \in todo, ReadEntry(p) PROVE ChainInv'
  BY <1>3 DEF ReadEntry, ChainInv
<1>4. ASSUME NEW t \in Pids, List(t) PROVE ChainInv'
  BY <1>4 DEF List, ChainInv
<1>5. CASE Scanned
  BY <1>5 DEF Scanned, ChainInv
<1>6. CASE Attach
  BY <1>6 DEF Attach, ChainInv
<1>7. CASE Return
  BY <1>7 DEF Return, ChainInv
<1>8. CASE UNCHANGED audit
  BY <1>8 DEF audit, ChainInv
<1> QED
  BY <1>1, <1>2, <1>3, <1>4, <1>5, <1>6, <1>7, <1>8
  DEF Next, KernelStep, AuditStep, Fork, Exit, vars

\* Unless a PID was used again since the audit began, no process is its own
\* ancestor in the chain, so the ancestor loop runs at most once per process.
THEOREM ChainHasNoCycle == Spec => []AncestorsDistinct
<1> DEFINE Inv == ~ reused => ChainInv
<1>1. Init => Inv
  BY DEF Init, ChainInv
<1>2. AgeInv /\ AgeInv' /\ Inv /\ [Next]_vars => Inv'
  <2> SUFFICES ASSUME AgeInv, AgeInv', Inv, [Next]_vars, ~ reused' PROVE ChainInv'
    OBVIOUS
  <2>1. CASE ~ reused
    BY <2>1, ChainStepInv
  <2>2. CASE Return
    BY <2>2 DEF Return, ChainInv
  <2> QED
    BY <2>1, <2>2, ReusedStep DEF AgeInv
<1>3. AgeInv /\ Inv => AncestorsDistinct
  <2> SUFFICES ASSUME AgeInv, ChainInv, NEW i \in DOMAIN chain, NEW j \in DOMAIN chain,
                      chain[i] = chain[j], i # j
               PROVE  FALSE
    BY DEF AncestorsDistinct
  <2>1. i \in Nat /\ j \in Nat /\ procs[chain[i]].born \in Nat
    BY DEF AgeInv, TypeOK, AuditTypeOK, Node
  <2>2. i < j \/ j < i
    BY <2>1
  <2> QED
    BY <2>1, <2>2 DEF ChainInv
<1> QED
  BY <1>1, <1>2, <1>3, AgeInvariant, PTL DEF Spec
-----------------------------------------------------------------------------
(* Recursion on the depth.                                                 *)

\* A set of numbers has a least one: what induction on a depth rests on.
LEMMA LeastNumber ==
  ASSUME NEW S \in SUBSET Nat, S # {}
  PROVE  \E n \in S : \A m \in S : n <= m
<1>1. \E n \in S : \A m \in S : <<m, n>> \notin OpToRel(<, Nat)
  BY NatLessThanWellFounded, WFMin
<1>2. \E n \in S : \A m \in S : ~ m < n
  BY <1>1 DEF OpToRel
<1> QED
  BY <1>2

\* f[d] is what d applications of the function F on D make of a, up to d = N.
Iterates(f, F, a, D, N) ==
  f \in [0..N -> D] /\ \A d \in 0..N : f[d] = IF d = 0 THEN a ELSE F[f[d - 1]]

\* A function on D can be iterated any number of times.
LEMMA IteratesExist ==
  ASSUME NEW D, NEW F \in [D -> D], NEW a \in D, NEW N \in Nat
  PROVE  \E f : Iterates(f, F, a, D, N)
<1> DEFINE Good(n) == \E f \in [0..n -> D] : \A d \in 0..n : f[d] = IF d = 0 THEN a ELSE F[f[d - 1]]
           Bad == {n \in 0..N : ~ Good(n)}
<1>1. CASE Bad = {}
  <2>1. Good(N)
    BY <1>1
  <2> QED
    BY <2>1 DEF Iterates
<1>2. CASE Bad # {}
  <2>0. Bad \in SUBSET Nat
    OBVIOUS
  <2>1. PICK n \in Bad : \A m \in Bad : n <= m
    <3> HIDE DEF Bad
    <3> QED
      BY <1>2, <2>0, LeastNumber
  <2>2. n \in 0..N /\ ~ Good(n)
    BY <2>1
  <2>3. CASE n = 0
    <3>1. [d \in 0..0 |-> a] \in [0..n -> D]
      BY <2>3
    <3>2. \A d \in 0..n : [e \in 0..0 |-> a][d] = IF d = 0 THEN a ELSE F[[e \in 0..0 |-> a][d - 1]]
      BY <2>3
    <3> QED
      BY <2>2, <3>1, <3>2
  <2>4. CASE n # 0
    <3>1. n - 1 \in 0..N /\ Good(n - 1)
      BY <2>1, <2>2, <2>4
    <3>2. PICK f \in [0..(n - 1) -> D] :
             \A d \in 0..(n - 1) : f[d] = IF d = 0 THEN a ELSE F[f[d - 1]]
      BY <3>1
    <3> DEFINE g == [d \in 0..n |-> IF d = n THEN F[f[n - 1]] ELSE f[d]]
    <3>3. f[n - 1] \in D
      BY <2>2, <2>4, <3>2
    <3>4. g \in [0..n -> D]
      BY <2>2, <3>2, <3>3
    <3>5. ASSUME NEW d \in 0..n PROVE g[d] = IF d = 0 THEN a ELSE F[g[d - 1]]
      <4>1. CASE d = n
        <5>1. g[n - 1] = f[n - 1] /\ g[n] = F[f[n - 1]]
          BY <2>2, <2>4
        <5> QED
          BY <4>1, <5>1, <2>4
      <4>2. CASE d # n
        <5>1. d \in 0..(n - 1) /\ g[d] = f[d] /\ (d # 0 => g[d - 1] = f[d - 1])
          BY <2>2, <4>2
        <5>2. f[d] = IF d = 0 THEN a ELSE F[f[d - 1]]
          BY <3>2, <5>1
        <5> QED
          BY <5>1, <5>2
      <4> QED
        BY <4>1, <4>2
    <3> HIDE DEF g
    <3> QED
      BY <2>2, <3>4, <3>5
  <2> QED
    BY <2>3, <2>4
<1> QED
  BY <1>1, <1>2

\* What the recursion of attachChildren works on.
LEMMA LevelsRecursion ==
  ASSUME TypeOK, chain # <<>>
  PROVE  /\ Levels \in [0..Cardinality(Pids) -> SUBSET Pids]
         /\ Levels[0] = {chain[1]}
         /\ \A d \in 0..Cardinality(Pids) :
               d # 0 => Levels[d] = UNION {Children(n) : n \in Levels[d - 1]}
<1> DEFINE N == Cardinality(Pids)
           F == [X \in SUBSET Pids |-> UNION {Children(n) : n \in X}]
<1>0. N \in Nat
  BY FS_CardinalityType, PidsAssumption
<1>1. chain[1] \in Pids
  BY DEF TypeOK, AuditTypeOK
<1>2. \A n : Children(n) \subseteq Pids
  BY DEF Children, TypeOK, AuditTypeOK
<1>3. F \in [SUBSET Pids -> SUBSET Pids]
  BY <1>2
<1>4. PICK f \in [0..N -> SUBSET Pids] : \A d \in 0..N : f[d] = IF d = 0 THEN {chain[1]} ELSE F[f[d - 1]]
  <2> DEFINE a == {chain[1]}
             D == SUBSET Pids
  <2>1. a \in D /\ F \in [D -> D]
    BY <1>1, <1>3
  <2>2. \E f : Iterates(f, F, a, D, N)
    <3> HIDE DEF N, F, a, D
    <3> QED
      BY <1>0, <2>1, IteratesExist
  <2> QED
    BY <2>2 DEF Iterates
<1>5. \A d \in 0..N : d # 0 => F[f[d - 1]] = UNION {Children(n) : n \in f[d - 1]}
  <2>1. ASSUME NEW d \in 0..N, d # 0 PROVE f[d - 1] \in SUBSET Pids
    <3> HIDE DEF N, F
    <3>1. d - 1 \in 0..N
      BY <1>0, <2>1
    <3> QED
      BY <3>1, <1>4
  <2> QED
    BY <2>1
<1>6. f = [d \in 0..N |-> IF d = 0 THEN {chain[1]} ELSE UNION {Children(n) : n \in f[d - 1]}]
  <2>1. f = [d \in 0..N |-> f[d]]
    BY <1>4
  <2>2. \A d \in 0..N : f[d] = IF d = 0 THEN {chain[1]} ELSE UNION {Children(n) : n \in f[d - 1]}
    BY <1>4, <1>5
  <2> QED
    BY <2>1, <2>2
<1>7. Levels = CHOOSE g : g = [d \in 0..N |-> IF d = 0 THEN {chain[1]} ELSE UNION {Children(n) : n \in g[d - 1]}]
  BY DEF Levels
<1>8. Levels = [d \in 0..N |-> IF d = 0 THEN {chain[1]} ELSE UNION {Children(n) : n \in Levels[d - 1]}]
  BY <1>6, <1>7
<1>9. ASSUME NEW d \in 0..N
      PROVE  (IF d = 0 THEN {chain[1]} ELSE UNION {Children(n) : n \in Levels[d - 1]}) \in SUBSET Pids
  BY <1>1, <1>2
<1>10. Levels \in [0..N -> SUBSET Pids]
  BY <1>8, <1>9
<1> QED
  BY <1>0, <1>8, <1>10

\* attachChildren only visits processes of allProcs.
LEMMA LevelsKnown ==
  ASSUME TypeOK, chain # <<>>, chain[1] \in known, NEW d \in 0..Cardinality(Pids)
  PROVE  Levels[d] \subseteq known
<1>1. \A n : Children(n) \subseteq known
  BY DEF Children, TypeOK, AuditTypeOK
<1>2. CASE d = 0
  BY <1>2, LevelsRecursion
<1>3. CASE d # 0
  <2>1. Levels[d] = UNION {Children(n) : n \in Levels[d - 1]}
    BY <1>3, LevelsRecursion
  <2> QED
    BY <1>1, <2>1
<1> QED
  BY <1>2, <1>3

\* The audit has climbed until the parent of the last one is not known.
Climbed ==
    /\ chain # <<>>
    /\ chain[1] \in known
    /\ procs[chain[1]].ppid \notin known

\* attachChildren visits no process at two depths.
LEMMA LevelsDisjoint ==
  ASSUME TypeOK, Climbed, NEW d \in 0..Cardinality(Pids), NEW e \in 0..Cardinality(Pids),
         NEW p \in Levels[d] \cap Levels[e]
  PROVE  d = e
<1> DEFINE N == Cardinality(Pids)
           Shared(k) == \E i \in 0..N : k < i /\ Levels[k] \cap Levels[i] # {}
           Bad == {k \in 0..N : Shared(k)}
<1>0. N \in Nat
  BY FS_CardinalityType, PidsAssumption
<1>1. ASSUME Bad # {} PROVE FALSE
  <2>0. Bad \in SUBSET Nat
    OBVIOUS
  <2>1. PICK k \in Bad : \A m \in Bad : k <= m
    <3> HIDE DEF Bad
    <3> QED
      BY <1>1, <2>0, LeastNumber
  <2>2. PICK i \in 0..N : k < i /\ Levels[k] \cap Levels[i] # {}
    BY <2>1
  <2>3. PICK c \in Levels[k] : c \in Levels[i]
    BY <2>2
  <2>4. k \in 0..N /\ i # 0
    BY <2>1, <2>2
  <2>5. PICK m \in Levels[i - 1] : c \in Children(m)
    <3>1. Levels[i] = UNION {Children(n) : n \in Levels[i - 1]}
      BY <2>4, LevelsRecursion DEF Climbed
    <3> QED
      BY <2>3, <3>1
  <2>6. i - 1 \in 0..N /\ m \in known /\ procs[c].ppid = m
    BY <1>0, <2>4, <2>5, LevelsKnown DEF Children, Climbed
  <2>7. CASE k = 0
    <3>1. c = chain[1]
      BY <2>3, <2>7, LevelsRecursion DEF Climbed
    <3> QED
      BY <2>6, <3>1 DEF Climbed
  <2>8. CASE k # 0
    <3>1. PICK n \in Levels[k - 1] : c \in Children(n)
      BY <2>3, <2>4, <2>8, LevelsRecursion DEF Climbed
    <3>2. m = n
      BY <2>6, <3>1 DEF Children
    <3>3. k - 1 \in 0..N /\ k - 1 < i - 1
      BY <1>0, <2>2, <2>4, <2>8
    <3>4. k - 1 \in Bad
      BY <2>5, <2>6, <3>1, <3>2, <3>3
    <3> QED
      BY <2>1, <2>4, <3>4
  <2> QED
    BY <2>7, <2>8
<1>2. ~ d < e /\ ~ e < d
  BY <1>1
<1> QED
  BY <1>2

\* total_nodes is the number of processes below and with the root.
LEMMA VisitsCounted ==
  ASSUME TypeOK, Climbed
  PROVE  Cardinality(Calls) = Cardinality({v[2] : v \in Calls})
<1> DEFINE N == Cardinality(Pids)
           S == {v[2] : v \in Calls}
           f == [v \in Calls |-> v[2]]
<1>0. N \in Nat
  BY FS_CardinalityType, PidsAssumption
<1>1. IsFiniteSet(Calls)
  <2>1. IsFiniteSet(0..N)
    BY <1>0, FS_Interval
  <2>2. IsFiniteSet((0..N) \X Pids)
    BY <2>1, FS_Product, PidsAssumption
  <2> QED
    BY <2>2, FS_Subset DEF Calls
<1>2. ASSUME NEW v \in Calls, NEW w \in Calls, v[2] = w[2] PROVE v = w
  <2>1. /\ v = <<v[1], v[2]>> /\ v[1] \in 0..N /\ v[2] \in Levels[v[1]]
        /\ w = <<w[1], w[2]>> /\ w[1] \in 0..N /\ w[2] \in Levels[w[1]]
    BY DEF Calls
  <2>2. v[1] = w[1]
    BY <1>2, <2>1, LevelsDisjoint
  <2> QED
    BY <1>2, <2>1, <2>2
<1>3. f \in Bijection(Calls, S)
  BY <1>2 DEF Bijection, Injection, IsInjective, Surjection
<1> QED
  BY <1>1, <1>3, FS_Bijection DEF ExistsBijection
-----------------------------------------------------------------------------
(* The ancestor loop, whatever happens to the PIDs.                        *)

\* No node names itself as its parent, PIDs used again or not.
SelfInv == \A c \in known : procs[c].ppid # c

\* The parents of what is on the chain are on it, or next; as long as the
\* loop has not come round, the chain is as long as it has members.  So the
\* loop ends at a process whose parent is not known, or never.
LoopInv ==
    /\ pc \in {"idle", "scan", "locate"} => chain = <<>>
    /\ pc = "climb" =>
          /\ curr \in known /\ Ancestors \subseteq known
          /\ \A n \in Ancestors : procs[n].ppid \in Ancestors \cup {curr}
          /\ curr \notin Ancestors => Len(chain) = Cardinality(Ancestors)
    /\ pc = "attach" => Climbed

\* A node just fetched is not its own parent.
LEMMA LearnSelf ==
  ASSUME TypeOK, KernelInv, SelfInv, NEW p \in live, Learn(p)
  PROVE  SelfInv'
<1>1. ppid[p] # p
  <2>1. CASE p \in Roots
    BY <2>1, PidsAssumption DEF KernelInv
  <2>2. CASE p \notin Roots
    BY <2>2 DEF KernelInv, TypeOK, KernelTypeOK
  <2> QED
    BY <2>1, <2>2
<1>2. p \in Pids
  BY DEF TypeOK, KernelTypeOK
<1> QED
  BY <1>1, <1>2 DEF Learn, Fetched, SelfInv, TypeOK, AuditTypeOK

\* Only fetching changes what is known.
LEMMA SelfStep ==
  ASSUME TypeOK, KernelInv, SelfInv, [Next]_vars
  PROVE  SelfInv'
<1>1. ASSUME NEW p \in todo, ReadEntry(p) PROVE SelfInv'
  <2>1. CASE p \in live
    BY <1>1, <2>1, LearnSelf DEF ReadEntry
  <2>2. CASE p \notin live
    BY <1>1, <2>2 DEF ReadEntry, SelfInv
  <2> QED
    BY <2>1, <2>2
<1>2. CASE Locate
  <2>1. CASE target \in live \ known
    BY <1>2, <2>1, LearnSelf DEF Locate
  <2>2. CASE target \notin live \ known
    BY <1>2, <2>2 DEF Locate, SelfInv
  <2> QED
    BY <2>1, <2>2
<1>3. CASE Climb
  <2> DEFINE parent == procs[curr].ppid
  <2>1. CASE parent \in (Pids \ {curr}) \cap (live \ known)
    BY <1>3, <2>1, LearnSelf DEF Climb
  <2>2. CASE parent \notin (Pids \ {curr}) \cap (live \ known)
    BY <1>3, <2>2 DEF Climb, SelfInv
  <2> QED
    BY <2>1, <2>2
<1>4. CASE Return
  BY <1>4 DEF Return, SelfInv
<1>5. CASE UNCHANGED <<procs, known>>
  BY <1>5 DEF SelfInv
<1> QED
  BY <1>1, <1>2, <1>3, <1>4, <1>5
  DEF Next, KernelStep, AuditStep, Fork, Exit, List, Scanned, Attach, vars, audit

\* The processes on the chain after one more turn of the loop.
LEMMA PrependRange ==
  ASSUME NEW p \in Pids, NEW s \in Seq(Pids), Len(s) <= Cardinality(Pids)
  PROVE  /\ Prepend(p, s) = <<p>> \o s
         /\ Prepend(p, s)[1] = p
         /\ Len(Prepend(p, s)) = Len(s) + 1
         /\ {Prepend(p, s)[i] : i \in DOMAIN Prepend(p, s)} = {s[i] : i \in DOMAIN s} \cup {p}
<1>0. Cardinality(Pids) \in Nat /\ Len(s) \in Nat
  BY FS_CardinalityType, PidsAssumption
<1>1. Prepend(p, s) = <<p>> \o s
  BY <1>0 DEF Prepend
<1> DEFINE t == <<p>> \o s
<1>2. t \in Seq(Pids) /\ t[1] = p /\ Len(t) = Len(s) + 1 /\ DOMAIN t = 1..(Len(s) + 1)
  OBVIOUS
<1>3. \A i \in DOMAIN s : i + 1 \in DOMAIN t /\ t[i + 1] = s[i]
  OBVIOUS
<1>4. \A i \in DOMAIN t : i = 1 \/ (i - 1 \in DOMAIN s /\ t[i] = s[i - 1])
  OBVIOUS
<1>5. 1 \in DOMAIN t
  BY <1>0, <1>2
<1> HIDE DEF t
<1>6. {t[i] : i \in DOMAIN t} = {s[i] : i \in DOMAIN s} \cup {p}
  BY <1>2, <1>3, <1>4, <1>5
<1> QED
  BY <1>1, <1>2, <1>6 DEF t

\* What one turn does to the chain's members, and to its length while the
\* loop has not come round.
LEMMA ClimbRange ==
  ASSUME TypeOK, LoopInv, Climb
  PROVE  /\ Ancestors' = Ancestors \cup {curr}
         /\ curr \notin Ancestors => /\ chain' = <<curr>> \o chain
                                     /\ chain'[1] = curr
                                     /\ Len(chain') = Cardinality(Ancestors')
<1>0. curr \in Pids /\ chain \in Seq(Pids) /\ IsFiniteSet(Ancestors) /\ Cardinality(Ancestors) <= Cardinality(Pids)
  <2>1. Ancestors \in SUBSET Pids
    BY DEF Ancestors, TypeOK, AuditTypeOK
  <2> QED
    BY <2>1, FS_Subset, PidsAssumption DEF TypeOK, AuditTypeOK
<1>1. chain' = Prepend(curr, chain)
  BY DEF Climb
<1>2. CASE Len(chain) <= Cardinality(Pids)
  <2>1. /\ chain' = <<curr>> \o chain /\ chain'[1] = curr /\ Len(chain') = Len(chain) + 1
        /\ {chain'[i] : i \in DOMAIN chain'} = Ancestors \cup {curr}
    <3>1. {Prepend(curr, chain)[i] : i \in DOMAIN Prepend(curr, chain)} = Ancestors \cup {curr}
      BY <1>0, <1>2, PrependRange DEF Ancestors
    <3> QED
      BY <1>0, <1>1, <1>2, <3>1, PrependRange
  <2>2. Ancestors' = Ancestors \cup {curr}
    BY <2>1 DEF Ancestors
  <2>3. curr \notin Ancestors => Len(chain') = Cardinality(Ancestors')
    <3>1. curr \notin Ancestors => Len(chain) = Cardinality(Ancestors)
      BY DEF LoopInv, Climb
    <3>2. curr \notin Ancestors => Cardinality(Ancestors \cup {curr}) = Cardinality(Ancestors) + 1
      BY <1>0, FS_AddElement
    <3> QED
      BY <2>1, <2>2, <3>1, <3>2
  <2> QED
    BY <2>1, <2>2, <2>3
<1>3. CASE ~ (Len(chain) <= Cardinality(Pids))
  <2>1. curr \in Ancestors
    BY <1>0, <1>3 DEF LoopInv, Climb
  <2>2. chain' = chain
    <3>1. Len(chain) \in Nat /\ Cardinality(Pids) \in Nat
      BY <1>0, FS_CardinalityType, PidsAssumption
    <3> QED
      BY <1>1, <1>3, <3>1 DEF Prepend
  <2> QED
    BY <2>1, <2>2 DEF Ancestors
<1> QED
  BY <1>2, <1>3

\* One turn of the loop keeps LoopInv.
LEMMA ClimbLoop ==
  ASSUME TypeOK, TypeOK', SelfInv, LoopInv, Climb
  PROVE  LoopInv'
<1> DEFINE parent == procs[curr].ppid
<1>1. curr \in known /\ Ancestors \subseteq known
  BY DEF LoopInv, Climb
<1>2. \A c \in known : c \in known' /\ procs'[c] = procs[c]
  <2>1. CASE parent \in (Pids \ {curr}) \cap (live \ known)
    BY <2>1 DEF Climb, Learn, TypeOK, AuditTypeOK
  <2>2. CASE parent \notin (Pids \ {curr}) \cap (live \ known)
    BY <2>2 DEF Climb
  <2> QED
    BY <2>1, <2>2
<1>3. parent # curr /\ parent \in Pids \cup {0}
  BY <1>1 DEF SelfInv, TypeOK, AuditTypeOK, Node
<1>4. curr \in Ancestors => parent \in Ancestors
  BY <1>3 DEF LoopInv, Climb
<1>5. CASE parent \in Pids \ {curr} /\ (parent \in known \/ parent \in live)
  <2>1. pc' = "climb" /\ curr' = parent
    BY <1>5 DEF Climb
  <2>2. parent \in known'
    <3>1. CASE parent \in known
      BY <3>1, <1>2
    <3>2. CASE parent \notin known
      BY <3>2, <1>5 DEF Climb, Learn
    <3> QED
      BY <3>1, <3>2
  <2>3. \A n \in Ancestors' : n \in known' /\ procs'[n].ppid \in Ancestors' \cup {curr'}
    BY <1>1, <1>2, <2>1, ClimbRange DEF LoopInv, Climb
  <2>4. curr' \notin Ancestors' => Len(chain') = Cardinality(Ancestors')
    BY <1>4, <2>1, ClimbRange
  <2> QED
    BY <2>1, <2>2, <2>3, <2>4 DEF LoopInv
<1>6. CASE ~ (parent \in Pids \ {curr} /\ (parent \in known \/ parent \in live))
  <2>1. pc' = "attach" /\ UNCHANGED <<procs, known>>
    BY <1>6 DEF Climb
  <2>2. parent \notin known
    BY <1>3, <1>6 DEF TypeOK, AuditTypeOK
  <2>3. curr \notin Ancestors
    BY <1>1, <1>4, <2>2
  <2>4. chain' = <<curr>> \o chain /\ chain'[1] = curr
    BY <2>3, ClimbRange
  <2>5. Climbed'
    BY <1>1, <2>1, <2>2, <2>4 DEF Climbed, TypeOK, AuditTypeOK
  <2> QED
    BY <2>1, <2>5 DEF LoopInv
<1> QED
  BY <1>5, <1>6

\* So does every other step.
LEMMA LoopStep ==
  ASSUME TypeOK, TypeOK', SelfInv, LoopInv, [Next]_vars
  PROVE  LoopInv'
<1> USE DEF TypeOK, AuditTypeOK
<1>1. CASE Climb
  BY <1>1, ClimbLoop
<1>2. CASE Locate
  <2>1. pc = "locate" /\ chain = <<>> /\ chain' = <<>> /\ pc' \in {"climb", "error"}
    BY <1>2 DEF Locate, LoopInv
  <2>2. Ancestors' = {} /\ Len(chain') = 0
    BY <2>1 DEF Ancestors
  <2>3. pc' = "climb" => curr' \in known'
    <3>1. CASE target \in live \ known
      BY <1>2, <3>1 DEF Locate, Learn
    <3>2. CASE target \notin live \ known
      BY <1>2, <3>2 DEF Locate
    <3> QED
      BY <3>1, <3>2
  <2> QED
    BY <2>1, <2>2, <2>3, FS_EmptySet DEF LoopInv
<1>3. ASSUME NEW p \in todo, ReadEntry(p) PROVE LoopInv'
  BY <1>3 DEF ReadEntry, LoopInv
<1>4. ASSUME NEW t \in Pids, List(t) PROVE LoopInv'
  BY <1>4 DEF List, LoopInv
<1>5. CASE Scanned
  BY <1>5 DEF Scanned, LoopInv
<1>6. CASE Attach
  BY <1>6 DEF Attach, LoopInv
<1>7. CASE Return
  BY <1>7 DEF Return, LoopInv
<1>8. CASE UNCHANGED audit
  BY <1>8 DEF audit, LoopInv, Ancestors, Climbed
<1> QED
  BY <1>1, <1>2, <1>3, <1>4, <1>5, <1>6, <1>7, <1>8
  DEF Next, KernelStep, AuditStep, Fork, Exit, vars

\* The loop's invariant is inductive.
LEMMA LoopInvariant == Spec => [](SelfInv /\ LoopInv)
<1>1. Init => SelfInv /\ LoopInv
  BY DEF Init, SelfInv, LoopInv
<1>2. AgeInv /\ AgeInv' /\ SelfInv /\ LoopInv /\ [Next]_vars => SelfInv' /\ LoopInv'
  BY SelfStep, LoopStep DEF AgeInv
<1> QED
  BY <1>1, <1>2, AgeInvariant, PTL DEF Spec

\* Whatever the process table does, PIDs given out again included, each
\* process of the tree is visited by one call of attachChildren, so its
\* recursion ends and total_nodes counts processes.
THEOREM EachVisitedOnce == Spec => []VisitedOnce
<1>1. Init => VisitedOnce
  BY DEF Init, VisitedOnce
<1>2. AgeInv /\ LoopInv /\ VisitedOnce /\ [Next]_vars => VisitedOnce'
  <2> SUFFICES ASSUME AgeInv, LoopInv, VisitedOnce, [Next]_vars PROVE VisitedOnce'
    OBVIOUS
  <2>1. CASE Attach
    BY <2>1, VisitsCounted DEF Attach, VisitedOnce, LoopInv, AgeInv
  <2>2. CASE pc' # "done"
    BY <2>2 DEF VisitedOnce
  <2>3. CASE pc' = pc /\ UNCHANGED <<tree, visits>>
    BY <2>3 DEF VisitedOnce
  <2> QED
    BY <2>1, <2>2, <2>3
    DEF Next, KernelStep, AuditStep, Fork, Exit, List, ReadEntry, Scanned, Locate, Climb,
        Return, vars, audit
<1> QED
  BY <1>1, <1>2, AgeInvariant, LoopInvariant, PTL DEF Spec
-----------------------------------------------------------------------------
(* What was listed.                                                        *)

\* Whoever is as old as a process that was listed, and still lives, was
\* listed too: what the late fetches add is younger than everything listed.
ListInv ==
    /\ pc # "scan" => todo = {}
    /\ pc \in {"scan", "locate"} => known = scanned
    /\ \A c \in scanned \cup todo : born[c] >= 1
    /\ \A c \in scanned \cup todo, p \in live : born[p] <= born[c] => p \in scanned \cup todo

\* No PID is younger than the count, the free ones included.
BirthsInv == \A p \in Pids : born[p] <= births

\* The chain leads from the target to its parent, and so on to curr.
SpineInv ==
    /\ pc \in {"climb", "attach"} =>
          \A i \in 1..(Len(chain) - 1) : procs[chain[i + 1]].ppid = chain[i]
    /\ pc = "climb" => IF chain = <<>> THEN curr = target
                       ELSE chain[Len(chain)] = target /\ procs[chain[1]].ppid = curr
    /\ pc = "attach" => chain # <<>> /\ chain[Len(chain)] = target

\* Nobody is fetched late on the way up from a target that was listed.
ListedInv ==
    pc \in {"climb", "attach"} /\ target \in scanned =>
        /\ known = scanned
        /\ pc = "climb" => curr \in scanned
        /\ Ancestors \subseteq scanned

\* Only a fork makes a process younger, and it counts it.
LEMMA BirthsStep ==
  ASSUME TypeOK, BirthsInv, [Next]_vars
  PROVE  BirthsInv'
<1>1. ASSUME NEW p \in Pids, NEW c \in Pids, Fork(p, c) PROVE BirthsInv'
  <2>1. /\ births \in Nat /\ births' = births + 1
        /\ \A q \in Pids : born[q] \in Nat /\ born'[q] \in {births + 1, born[q]}
    BY <1>1 DEF Fork, TypeOK, KernelTypeOK
  <2> QED
    BY <2>1 DEF BirthsInv
<1>2. CASE UNCHANGED <<born, births>>
  BY <1>2 DEF BirthsInv
<1> QED
  BY <1>1, <1>2 DEF Next, KernelStep, AuditStep, Exit, List, ReadEntry, Scanned, Locate, Climb,
     Attach, Return, vars, kernel

\* The steps that change what was listed, or who lives.
LEMMA ListStep ==
  ASSUME AgeInv, BirthsInv, ~ reused, ~ reused', ListInv, [Next]_vars
  PROVE  ListInv'
<1> USE PidsAssumption DEF AgeInv, TypeOK, AuditTypeOK, KernelTypeOK
<1>1. ASSUME NEW p \in Pids, NEW c \in Pids, Fork(p, c) PROVE ListInv'
  <2>1. UNCHANGED <<pc, todo, known, scanned>> /\ live' = live \cup {c}
    BY <1>1 DEF Fork, audit
  <2>2. pc = "idle" => scanned = {}
    BY DEF IdleInv
  <2>3. c \notin scanned \cup todo
    <3>1. pc = "idle" \/ born[c] = 0
      BY <1>1 DEF Fork
    <3>2. CASE pc = "idle"
      BY <2>2, <3>2 DEF ListInv
    <3>3. CASE born[c] = 0
      <4> HIDE DEF AgeInv, TypeOK, AuditTypeOK, KernelTypeOK
      <4> QED
        BY <3>3 DEF ListInv
    <3> QED
      BY <3>1, <3>2, <3>3
  <2>4. /\ born'[c] = births + 1
        /\ \A q \in Pids \ {c} : born'[q] = born[q]
        /\ \A q \in live : q # c /\ born[q] <= births
    BY <1>1 DEF Fork, KernelInv
  <2>5. \A q \in scanned \cup todo : q \in Pids /\ q # c
    BY <2>3
  <2>6. \A q \in scanned \cup todo : born[q] <= births
    BY <2>5 DEF BirthsInv
  <2>7. births \in Nat /\ \A q \in Pids : born[q] \in Nat /\ born[q] <= births
    BY DEF BirthsInv
  <2>8. \A q \in scanned \cup todo : born'[q] = born[q] /\ ~ born'[c] <= born'[q]
    <3> SUFFICES ASSUME NEW q \in scanned \cup todo PROVE born'[q] = born[q] /\ ~ born'[c] <= born'[q]
      OBVIOUS
    <3> HIDE DEF AgeInv, TypeOK, AuditTypeOK, KernelTypeOK
    <3>1. q \in Pids /\ q # c
      BY <2>5
    <3>2. born'[q] = born[q] /\ born[q] <= births /\ born[q] \in Nat
      BY <2>4, <2>7, <3>1
    <3>3. born'[c] = births + 1
      BY <2>4
    <3> QED
      BY <2>7, <3>2, <3>3
  <2>9. \A q \in live : born'[q] = born[q]
    BY <2>4
  <2> QED
    BY <2>1, <2>8, <2>9 DEF ListInv
<1>2. ASSUME NEW p \in Pids, Exit(p) PROVE ListInv'
  BY <1>2 DEF Exit, audit, ListInv
<1>3. ASSUME NEW t \in Pids, List(t) PROVE ListInv'
  <2>1. known = {} /\ scanned = {} /\ \A p \in live : 1 <= born[p]
    BY <1>3 DEF List, IdleInv, KernelInv
  <2>2. pc' = "scan" /\ todo' = live /\ UNCHANGED <<live, born, known, scanned>>
    BY <1>3 DEF List, kernel
  <2> QED
    BY <2>1, <2>2 DEF ListInv
<1>4. ASSUME NEW p \in todo, ReadEntry(p) PROVE ListInv'
  <2>1. CASE p \in live
    <3>1. /\ todo' = todo \ {p} /\ scanned' = scanned \cup {p} /\ known' = known \cup {p}
          /\ pc = "scan" /\ UNCHANGED <<pc, born, births, live>>
      BY <1>4, <2>1 DEF ReadEntry, Learn, kernel
    <3>2. scanned' \cup todo' = scanned \cup todo
      BY <3>1
    <3> QED
      BY <3>1, <3>2 DEF ListInv
  <2>2. CASE p \notin live
    BY <1>4, <2>2 DEF ReadEntry, kernel, ListInv
  <2> QED
    BY <2>1, <2>2
<1>5. CASE Scanned
  BY <1>5 DEF Scanned, kernel, ListInv
<1>6. CASE Locate
  BY <1>6 DEF Locate, kernel, ListInv
<1>7. CASE Climb
  BY <1>7 DEF Climb, kernel, ListInv
<1>8. CASE Attach
  BY <1>8 DEF Attach, kernel, ListInv
<1>9. CASE Return
  BY <1>9 DEF Return, ListInv
<1>10. CASE UNCHANGED vars
  BY <1>10 DEF vars, kernel, audit, ListInv
<1> QED
  BY <1>1, <1>2, <1>3, <1>4, <1>5, <1>6, <1>7, <1>8, <1>9, <1>10 DEF Next, KernelStep, AuditStep

\* A chain without repetitions is at most as long as there are PIDs.
LEMMA ChainFits ==
  ASSUME TypeOK, AgeInv, ChainInv
  PROVE  Len(chain) <= Cardinality(Pids)
<1>1. ASSUME NEW i \in DOMAIN chain, NEW j \in DOMAIN chain, i # j PROVE chain[i] # chain[j]
  <2>1. i \in Nat /\ j \in Nat /\ chain[i] \in Pids /\ chain[j] \in Pids
    BY DEF TypeOK, AuditTypeOK
  <2>2. procs[chain[i]].born \in Nat /\ procs[chain[j]].born \in Nat
    BY <2>1 DEF TypeOK, AuditTypeOK, Node
  <2>3. i < j \/ j < i
    BY <1>1, <2>1
  <2> QED
    BY <2>2, <2>3 DEF ChainInv
<1>2. chain \in Injection(1..Len(chain), Pids)
  <2>1. chain \in [1..Len(chain) -> Pids] /\ DOMAIN chain = 1..Len(chain)
    BY DEF TypeOK, AuditTypeOK
  <2> QED
    BY <1>1, <2>1 DEF Injection, IsInjective
<1>3. Len(chain) \in Nat
  BY DEF TypeOK, AuditTypeOK
<1>4. Cardinality(1..Len(chain)) = Len(chain)
  <2> DEFINE n == Len(chain)
  <2>1. n \in Nat
    BY <1>3
  <2> HIDE DEF n
  <2>2. Cardinality(1..n) = n
    BY <2>1, FS_Interval
  <2> QED
    BY <2>2 DEF n
<1>5. Cardinality(1..Len(chain)) <= Cardinality(Pids)
  <2> DEFINE S == 1..Len(chain)
  <2>1. chain \in Injection(S, Pids)
    BY <1>2
  <2> HIDE DEF S
  <2>2. Cardinality(S) <= Cardinality(Pids)
    BY <2>1, FS_Injection, PidsAssumption
  <2> QED
    BY <2>2 DEF S
<1> QED
  BY <1>4, <1>5

\* One turn of the loop leads on from the chain to the next parent.
LEMMA ClimbSpine ==
  ASSUME AgeInv, ChainInv, SpineInv, Climb
  PROVE  SpineInv'
<1> USE DEF AgeInv
<1>0. chain \in Seq(Pids) /\ curr \in Pids /\ Len(chain) \in Nat
  BY DEF TypeOK, AuditTypeOK
<1>1. chain' = <<curr>> \o chain
  BY <1>0, ChainFits, PrependRange DEF Climb
<1>2. Len(chain') = Len(chain) + 1 /\ chain' # <<>> /\ chain'[1] = curr
  BY <1>0, <1>1
<1>3. ASSUME NEW i \in 1..Len(chain) PROVE chain'[i + 1] = chain[i]
  BY <1>0, <1>1
<1>4. chain'[Len(chain')] = target
  <2>1. CASE chain = <<>>
    BY <1>2, <2>1 DEF SpineInv, Climb
  <2>2. CASE chain # <<>>
    <3>1. Len(chain) \in 1..Len(chain)
      BY <1>0, <2>2
    <3> QED
      BY <1>2, <1>3, <2>2, <3>1 DEF SpineInv, Climb
  <2> QED
    BY <2>1, <2>2
<1>5. \A c \in known : procs'[c] = procs[c]
  <2> DEFINE parent == procs[curr].ppid
  <2>1. CASE parent \in (Pids \ {curr}) \cap (live \ known)
    BY <2>1 DEF Climb, Learn, TypeOK, AuditTypeOK
  <2>2. CASE parent \notin (Pids \ {curr}) \cap (live \ known)
    BY <2>2 DEF Climb
  <2> QED
    BY <2>1, <2>2
<1>6. curr \in known /\ \A i \in 1..Len(chain) : chain[i] \in known
  <2>1. DOMAIN chain = 1..Len(chain)
    BY <1>0
  <2> QED
    BY <2>1 DEF ChainInv, Climb
<1>7. ASSUME NEW i \in 1..(Len(chain') - 1) PROVE procs'[chain'[i + 1]].ppid = chain'[i]
  <2>1. i \in 1..Len(chain) /\ chain'[i + 1] = chain[i] /\ procs'[chain[i]] = procs[chain[i]]
    BY <1>0, <1>2, <1>3, <1>5, <1>6
  <2>2. CASE i = 1
    <3>1. chain # <<>>
      BY <1>0, <2>1
    <3> QED
      BY <1>2, <2>1, <2>2, <3>1 DEF SpineInv, Climb
  <2>3. CASE i # 1
    <3>1. i - 1 \in 1..(Len(chain) - 1) /\ i - 1 + 1 = i /\ i - 1 \in 1..Len(chain)
      BY <1>0, <2>1, <2>3
    <3>2. procs[chain[i]].ppid = chain[i - 1]
      BY <3>1 DEF SpineInv, Climb
    <3>3. chain'[i] = chain[i - 1]
      BY <1>3, <3>1
    <3> QED
      BY <2>1, <3>2, <3>3
  <2> QED
    BY <2>2, <2>3
<1>8. pc' = "climb" => curr' = procs'[chain'[1]].ppid
  BY <1>2, <1>5, <1>6 DEF Climb
<1>9. target' = target /\ pc' \in {"climb", "attach"}
  BY DEF Climb
<1> QED
  BY <1>2, <1>4, <1>7, <1>8, <1>9 DEF SpineInv

\* So does every step of the audit keep it.
LEMMA SpineStep ==
  ASSUME AgeInv, ChainInv, SpineInv, [Next]_vars
  PROVE  SpineInv'
<1>1. CASE Climb
  BY <1>1, ClimbSpine
<1>2. CASE Locate
  <2>1. chain' = <<>> /\ pc' \in {"climb", "error"} /\ target' = target
    BY <1>2 DEF Locate, ChainInv
  <2>2. pc' = "climb" => curr' = target
    BY <1>2 DEF Locate
  <2>3. Len(chain') - 1 = -1
    BY <2>1
  <2>4. 1..(Len(chain') - 1) = {}
    BY <2>3
  <2> QED
    BY <2>1, <2>2, <2>4 DEF SpineInv
<1>3. CASE pc' \notin {"climb", "attach"}
  BY <1>3 DEF SpineInv
<1>4. CASE UNCHANGED audit
  BY <1>4 DEF audit, SpineInv
<1> QED
  BY <1>1, <1>2, <1>3, <1>4
  DEF Next, KernelStep, AuditStep, Fork, Exit, List, ReadEntry, Scanned, Attach, Return, vars

\* One turn of the loop, from a process that was listed, comes to another.
LEMMA ClimbListed ==
  ASSUME AgeInv, ~ reused, ListInv, ListedInv, Climb, target \in scanned
  PROVE  ListedInv'
<1> USE DEF AgeInv, TypeOK, AuditTypeOK, KernelTypeOK
<1> DEFINE parent == procs[curr].ppid
<1>1. known = scanned /\ curr \in scanned /\ Ancestors \subseteq scanned
  BY DEF ListedInv, Climb
<1>2. ASSUME parent \in live PROVE parent \in scanned
  <2>1. parent # 0
    BY <1>2, PidsAssumption
  <2>2. born[parent] < procs[curr].born /\ procs[curr].born = born[curr]
    BY <1>1, <2>1 DEF SnapshotInv
  <2>3. born[parent] <= born[curr]
    BY <1>2, <2>2
  <2>4. todo = {}
    BY DEF ListInv, Climb
  <2> QED
    BY <1>1, <1>2, <2>3, <2>4 DEF ListInv
<1>3. UNCHANGED <<procs, known, scanned, target>>
  BY <1>1, <1>2 DEF Climb
<1>4. pc' = "climb" => curr' \in scanned
  BY <1>1, <1>2 DEF Climb
<1>5. Ancestors' \subseteq scanned
  <2> SUFFICES ASSUME NEW i \in DOMAIN chain' PROVE chain'[i] \in scanned
    BY <1>3 DEF Ancestors
  <2>1. chain'[i] = curr \/ \E k \in DOMAIN chain : chain'[i] = chain[k]
    BY PrependAt DEF Climb
  <2> QED
    BY <1>1, <2>1 DEF Ancestors
<1> QED
  BY <1>1, <1>3, <1>4, <1>5 DEF ListedInv

\* Every step keeps to processes that were listed.
LEMMA ListedStep ==
  ASSUME AgeInv, ~ reused, ChainInv, ListInv, ListedInv, [Next]_vars
  PROVE  ListedInv'
<1>1. CASE Climb
  <2>1. scanned' = scanned /\ target' = target
    BY <1>1 DEF Climb
  <2>2. CASE target \in scanned
    BY <1>1, <2>2, ClimbListed
  <2>3. CASE target \notin scanned
    BY <2>1, <2>3 DEF ListedInv
  <2> QED
    BY <2>2, <2>3
<1>2. CASE Locate
  <2>1. chain' = <<>> /\ pc' \in {"climb", "error"} /\ target' = target /\ scanned' = scanned
    BY <1>2 DEF Locate, ChainInv
  <2>2. target \in scanned => known' = known /\ known = scanned /\ (pc' = "climb" => curr' = target)
    BY <1>2 DEF Locate, ListInv
  <2>3. Ancestors' = {}
    BY <2>1 DEF Ancestors
  <2> QED
    BY <2>1, <2>2, <2>3 DEF ListedInv
<1>3. CASE pc' \notin {"climb", "attach"}
  BY <1>3 DEF ListedInv
<1>4. CASE UNCHANGED audit
  BY <1>4 DEF audit, ListedInv, Ancestors
<1> QED
  BY <1>1, <1>2, <1>3, <1>4
  DEF Next, KernelStep, AuditStep, Fork, Exit, List, ReadEntry, Scanned, Attach, Return, vars

\* A member of the chain is a child that attachChildren does not filter out.
LEMMA SpineIsAttached ==
  ASSUME AgeInv, ChainInv, SpineInv, pc = "attach",
         NEW i \in 1..Len(chain), \A j \in 2..i : chain[j] \in scanned
  PROVE  i - 1 \in 0..Cardinality(Pids) /\ chain[i] \in Levels[i - 1]
<1> USE DEF AgeInv
<1> DEFINE N == Cardinality(Pids)
           Bad == {k \in 1..i : chain[k] \notin Levels[k - 1]}
<1>0. Len(chain) \in Nat /\ N \in Nat /\ Len(chain) <= N /\ chain # <<>>
  <2>1. chain \in Seq(Pids)
    BY DEF TypeOK, AuditTypeOK
  <2>2. N \in Nat
    BY FS_CardinalityType, PidsAssumption
  <2>3. Len(chain) <= N
    BY ChainFits
  <2>4. chain # <<>>
    BY DEF SpineInv
  <2> QED
    BY <2>1, <2>2, <2>3, <2>4
<1>1. ASSUME Bad # {} PROVE FALSE
  <2>0. Bad \in SUBSET Nat
    OBVIOUS
  <2>1. PICK k \in Bad : \A m \in Bad : k <= m
    <3> HIDE DEF Bad
    <3> QED
      BY <1>1, <2>0, LeastNumber
  <2>2. k \in 1..i /\ chain[k] \notin Levels[k - 1]
    BY <2>1
  <2>3. CASE k = 1
    BY <1>0, <2>2, <2>3, LevelsRecursion
  <2>4. CASE k # 1
    <3>1. k - 1 \in 1..i /\ k - 1 \in 1..(Len(chain) - 1) /\ k - 1 + 1 = k /\ k \in 2..i /\ k - 1 \in 0..N
          /\ k - 1 # 0 /\ k \in DOMAIN chain
      BY <1>0, <2>2, <2>4
    <3>2. k - 1 \notin Bad
      BY <2>1, <3>1
    <3>3. chain[k - 1] \in Levels[k - 1 - 1]
      BY <3>1, <3>2
    <3>4. procs[chain[k]].ppid = chain[k - 1] /\ chain[k] \in scanned /\ chain[k] \in Ancestors
      BY <3>1 DEF SpineInv, Ancestors
    <3>5. chain[k] \in Children(chain[k - 1])
      BY <3>4 DEF Children
    <3>6. Levels[k - 1] = UNION {Children(n) : n \in Levels[k - 1 - 1]}
      BY <1>0, <3>1, LevelsRecursion
    <3> QED
      BY <2>2, <3>3, <3>5, <3>6
  <2> QED
    BY <2>3, <2>4
<1>2. i \notin Bad
  BY <1>1
<1> QED
  BY <1>0, <1>2

\* What is attached is what the levels hold.
LEMMA LevelIsCalled ==
  ASSUME TypeOK, chain # <<>>, NEW d \in 0..Cardinality(Pids), NEW p \in Levels[d]
  PROVE  p \in {v[2] : v \in Calls}
<1>1. p \in Pids
  BY LevelsRecursion
<1>2. <<d, p>> \in Calls
  BY <1>1 DEF Calls
<1> QED
  BY <1>2

\* All that the audit says of a process table in which no PID was used again.
TraceInv == ChainInv /\ ListInv /\ SpineInv /\ ListedInv

\* Every step keeps it, unless it uses a PID again.
LEMMA TraceInvariant == Spec => [](AgeInv /\ (~ reused => TraceInv))
<1> DEFINE Inv == BirthsInv /\ (~ reused => TraceInv)
<1>1. Init => Inv
  BY PidsAssumption DEF Init, BirthsInv, TraceInv, ChainInv, ListInv, SpineInv, ListedInv
<1>2. AgeInv /\ AgeInv' /\ Inv /\ [Next]_vars => Inv'
  <2> SUFFICES ASSUME AgeInv, AgeInv', Inv, [Next]_vars, ~ reused' PROVE TraceInv'
    BY BirthsStep DEF AgeInv
  <2>1. CASE ~ reused
    BY <2>1, ChainStepInv, ListStep, SpineStep, ListedStep DEF TraceInv
  <2>2. CASE Return
    BY <2>2 DEF Return, TraceInv, ChainInv, SpineInv, ListedInv, ListInv
  <2> QED
    BY <2>1, <2>2, ReusedStep DEF AgeInv
<1> QED
  BY <1>1, <1>2, AgeInvariant, PTL DEF Spec

\* Whatever forks, exits and is re-parented while the table is read, a target
\* that was in the directory listing is in the tree it is asked for, unless a
\* PID was used again.
THEOREM TargetIsShown == Spec => []TargetShown
<1>1. Init => TargetShown
  BY DEF Init, TargetShown
<1>2. ASSUME AgeInv, AgeInv', ~ reused => TraceInv, TargetShown, [Next]_vars PROVE TargetShown'
  <2> SUFFICES ASSUME pc' = "done", target' \in scanned', ~ reused' PROVE target' \in tree'
    BY DEF TargetShown
  <2>1. CASE Attach
    <3>1. /\ pc = "attach" /\ UNCHANGED <<reused, target, scanned, chain>>
          /\ tree' = {v[2] : v \in Calls}
      BY <2>1 DEF Attach, kernel
    <3>2. ~ reused
      BY <3>1
    <3>3. chain # <<>> /\ chain[Len(chain)] = target
      BY <1>2, <3>1, <3>2 DEF TraceInv, SpineInv
    <3>4. chain \in Seq(Pids) /\ Len(chain) \in 1..Len(chain) /\ DOMAIN chain = 1..Len(chain)
      BY <1>2, <3>3 DEF AgeInv, TypeOK, AuditTypeOK
    <3>5. Ancestors \subseteq scanned
      BY <1>2, <3>1, <3>2 DEF TraceInv, ListedInv
    <3>6. \A j \in 2..Len(chain) : chain[j] \in scanned
      BY <3>4, <3>5 DEF Ancestors
    <3>7. Len(chain) - 1 \in 0..Cardinality(Pids) /\ target \in Levels[Len(chain) - 1]
      BY <1>2, <3>1, <3>2, <3>3, <3>4, <3>6, SpineIsAttached DEF TraceInv
    <3> QED
      BY <1>2, <3>1, <3>3, <3>7, LevelIsCalled DEF AgeInv
  <2>2. CASE UNCHANGED <<pc, target, scanned, tree, reused>>
    BY <1>2, <2>2 DEF TargetShown
  <2>3. CASE KernelStep
    <3>1. ~ reused
      BY <1>2, <2>3, ReusedStep DEF AgeInv, KernelStep, Fork, Exit, Return, audit
    <3>2. UNCHANGED <<pc, target, scanned, tree>>
      BY <2>3 DEF KernelStep, Fork, Exit, audit
    <3> QED
      BY <1>2, <3>1, <3>2 DEF TargetShown
  <2> QED
    BY <1>2, <2>1, <2>2, <2>3
    DEF Next, AuditStep, List, ReadEntry, Scanned, Locate, Climb, Return, vars, audit, kernel
<1> QED
  BY <1>1, <1>2, TraceInvariant, PTL DEF Spec
-----------------------------------------------------------------------------
(* Lineages.                                                               *)

\* A set that has, of each process in it that is known, the parent.
Closed(C) == \A c \in C \cap known : procs[c].ppid \in C

\* The parents of n, up to a number of generations.
Up(n) ==
    LET up[d \in 0..Cardinality(Pids)] ==
            IF d = 0 THEN {n}
            ELSE up[d - 1] \cup {procs[c].ppid : c \in up[d - 1] \cap known}
    IN  up

\* Each generation follows from the one before.
LEMMA UpRecursion ==
  ASSUME TypeOK, NEW n \in Pids \cup {0}
  PROVE  /\ Up(n)[0] = {n}
         /\ \A d \in 0..Cardinality(Pids) :
               d # 0 => Up(n)[d] = Up(n)[d - 1] \cup {procs[c].ppid : c \in Up(n)[d - 1] \cap known}
<1> DEFINE N == Cardinality(Pids)
           D == SUBSET (Pids \cup {0})
           a == {n}
           F == [X \in D |-> X \cup {procs[c].ppid : c \in X \cap known}]
<1>0. N \in Nat
  BY FS_CardinalityType, PidsAssumption
<1>1. \A c \in known : procs[c].ppid \in Pids \cup {0}
  BY DEF TypeOK, AuditTypeOK, Node
<1>2. a \in D /\ F \in [D -> D]
  BY <1>1
<1>3. PICK f \in [0..N -> D] : \A d \in 0..N : f[d] = IF d = 0 THEN a ELSE F[f[d - 1]]
  <2>1. \E f : Iterates(f, F, a, D, N)
    <3> HIDE DEF N, F, a, D
    <3> QED
      BY <1>0, <1>2, IteratesExist
  <2> QED
    BY <2>1 DEF Iterates
<1>4. \A d \in 0..N : d # 0 => F[f[d - 1]] = f[d - 1] \cup {procs[c].ppid : c \in f[d - 1] \cap known}
  <2>1. ASSUME NEW d \in 0..N, d # 0 PROVE f[d - 1] \in D
    <3> HIDE DEF N, F, D
    <3>1. d - 1 \in 0..N
      BY <1>0, <2>1
    <3> QED
      BY <3>1, <1>3
  <2> QED
    BY <2>1
<1>5. f = [d \in 0..N |-> IF d = 0 THEN {n}
                          ELSE f[d - 1] \cup {procs[c].ppid : c \in f[d - 1] \cap known}]
  <2>1. f = [d \in 0..N |-> f[d]]
    BY <1>3
  <2>2. \A d \in 0..N : f[d] = IF d = 0 THEN {n}
                               ELSE f[d - 1] \cup {procs[c].ppid : c \in f[d - 1] \cap known}
    BY <1>3, <1>4
  <2> QED
    BY <2>1, <2>2
<1>6. Up(n) = CHOOSE g : g = [d \in 0..N |-> IF d = 0 THEN {n}
                             ELSE g[d - 1] \cup {procs[c].ppid : c \in g[d - 1] \cap known}]
  BY DEF Up
<1>7. Up(n) = [d \in 0..N |-> IF d = 0 THEN {n}
                 ELSE Up(n)[d - 1] \cup {procs[c].ppid : c \in Up(n)[d - 1] \cap known}]
  BY <1>5, <1>6
<1> QED
  BY <1>0, <1>7

\* The generations do not leave a closed set.
LEMMA UpWithin ==
  ASSUME TypeOK, NEW C, Closed(C), NEW n \in (Pids \cup {0}) \cap C, NEW e \in 0..Cardinality(Pids)
  PROVE  Up(n)[e] \subseteq C
<1> DEFINE N == Cardinality(Pids)
           Bad == {d \in 0..N : ~ (Up(n)[d] \subseteq C)}
<1>0. N \in Nat
  BY FS_CardinalityType, PidsAssumption
<1>1. ASSUME Bad # {} PROVE FALSE
  <2>0. Bad \in SUBSET Nat
    OBVIOUS
  <2>1. PICK d \in Bad : \A m \in Bad : d <= m
    <3> HIDE DEF Bad
    <3> QED
      BY <1>1, <2>0, LeastNumber
  <2>2. d \in 0..N /\ ~ (Up(n)[d] \subseteq C)
    BY <2>1
  <2>3. CASE d = 0
    BY <2>2, <2>3, UpRecursion
  <2>4. CASE d # 0
    <3>1. d - 1 \in 0..N /\ d - 1 \notin Bad
      BY <1>0, <2>1, <2>2, <2>4
    <3>2. Up(n)[d - 1] \subseteq C
      BY <3>1
    <3>3. Up(n)[d] = Up(n)[d - 1] \cup {procs[c].ppid : c \in Up(n)[d - 1] \cap known}
      BY <2>2, <2>4, UpRecursion
    <3> QED
      BY <2>2, <3>2, <3>3 DEF Closed
  <2> QED
    BY <2>3, <2>4
<1> QED
  BY <1>1

\* As many generations as there are PIDs are all there are.
LEMMA UpEnds ==
  ASSUME TypeOK, NEW n \in Pids \cup {0}
  PROVE  Closed(Up(n)[Cardinality(Pids)])
<1> DEFINE N == Cardinality(Pids)
           All == Pids \cup {0}
           Bad == {d \in 0..N : ~ Closed(Up(n)[d]) /\ Cardinality(Up(n)[d]) < d + 1}
<1>0. N \in Nat /\ N \in 0..N
  BY FS_CardinalityType, PidsAssumption
<1>1. Closed(All)
  BY DEF Closed, TypeOK, AuditTypeOK, Node
<1>2. IsFiniteSet(All) /\ Cardinality(All) = N + 1
  BY FS_AddElement, PidsAssumption
<1>3. ASSUME NEW d \in 0..N
      PROVE  Up(n)[d] \in SUBSET All /\ IsFiniteSet(Up(n)[d]) /\ Cardinality(Up(n)[d]) \in Nat
  <2>1. Up(n)[d] \in SUBSET All
    BY <1>1, UpWithin
  <2> QED
    BY <1>2, <2>1, FS_Subset, FS_CardinalityType
<1>4. ASSUME Bad # {} PROVE FALSE
  <2>0. Bad \in SUBSET Nat
    OBVIOUS
  <2>1. PICK d \in Bad : \A m \in Bad : d <= m
    <3> HIDE DEF Bad
    <3> QED
      BY <1>4, <2>0, LeastNumber
  <2>2. d \in 0..N /\ ~ Closed(Up(n)[d]) /\ Cardinality(Up(n)[d]) < d + 1
    BY <2>1
  <2>3. CASE d = 0
    <3>1. Cardinality({n}) = 1
      BY FS_Singleton
    <3> QED
      BY <2>2, <2>3, <3>1, UpRecursion
  <2>4. CASE d # 0
    <3>1. d - 1 \in 0..N /\ d - 1 \notin Bad
      BY <1>0, <2>1, <2>2, <2>4
    <3>2. Up(n)[d] = Up(n)[d - 1] \cup {procs[c].ppid : c \in Up(n)[d - 1] \cap known}
      BY <2>2, <2>4, UpRecursion
    <3>3. ~ Closed(Up(n)[d - 1])
      <4>1. Closed(Up(n)[d - 1]) => Up(n)[d] = Up(n)[d - 1]
        BY <3>2 DEF Closed
      <4> QED
        BY <2>2, <4>1
    <3>4. Cardinality(Up(n)[d - 1]) >= d
      <4>1. ~ (Cardinality(Up(n)[d - 1]) < d - 1 + 1)
        BY <3>1, <3>3
      <4>2. Cardinality(Up(n)[d - 1]) \in Nat
        BY <1>3, <3>1
      <4> QED
        BY <2>2, <4>1, <4>2
    <3>5. Up(n)[d - 1] # Up(n)[d]
      BY <3>2, <3>3 DEF Closed
    <3>6. /\ Cardinality(Up(n)[d - 1]) <= Cardinality(Up(n)[d])
          /\ Cardinality(Up(n)[d - 1]) # Cardinality(Up(n)[d])
      <4>1. Up(n)[d - 1] \in SUBSET (Up(n)[d]) /\ IsFiniteSet(Up(n)[d])
        BY <1>3, <2>2, <3>2
      <4> QED
        BY <3>5, <4>1, FS_Subset
    <3>7. Cardinality(Up(n)[d - 1]) \in Nat /\ Cardinality(Up(n)[d]) \in Nat
      BY <1>3, <2>2, <3>1
    <3> QED
      BY <2>2, <3>4, <3>6, <3>7
  <2> QED
    BY <2>3, <2>4
<1>5. Closed(Up(n)[N]) \/ ~ (Cardinality(Up(n)[N]) < N + 1)
  BY <1>0, <1>4
<1>6. CASE ~ (Cardinality(Up(n)[N]) < N + 1)
  <2>1. Up(n)[N] \in SUBSET All /\ Cardinality(Up(n)[N]) \in Nat
    BY <1>0, <1>3
  <2>2. Cardinality(Up(n)[N]) <= Cardinality(All)
    BY <1>2, <2>1, FS_Subset
  <2>3. Cardinality(Up(n)[N]) = Cardinality(All)
    BY <1>0, <1>2, <1>6, <2>1, <2>2
  <2>4. Up(n)[N] = All
    BY <1>2, <2>1, <2>3, FS_Subset
  <2> QED
    BY <1>1, <2>4
<1> QED
  BY <1>5, <1>6

\* The lineage of a process is the least closed set it is in.
LEMMA LineageLeast ==
  ASSUME TypeOK, NEW n \in Pids \cup {0}
  PROVE  /\ n \in Lineage(n)
         /\ Closed(Lineage(n))
         /\ \A C : n \in C /\ Closed(C) => Lineage(n) \subseteq C
<1> DEFINE N == Cardinality(Pids)
<1>0. N \in Nat /\ N \in 0..N /\ 0 \in 0..N
  BY FS_CardinalityType, PidsAssumption
<1>1. Lineage(n) = Up(n)[N]
  BY DEF Lineage, Up
<1>2. \A C : n \in C /\ Closed(C) => Lineage(n) \subseteq C
  BY <1>0, <1>1, UpWithin
<1>3. Closed(Lineage(n))
  BY <1>1, UpEnds
<1>4. n \in Lineage(n)
  <2> DEFINE Bad == {d \in 0..N : n \notin Up(n)[d]}
  <2>1. ASSUME Bad # {} PROVE FALSE
    <3>0. Bad \in SUBSET Nat
      OBVIOUS
    <3>1. PICK d \in Bad : \A m \in Bad : d <= m
      <4> HIDE DEF Bad
      <4> QED
        BY <2>1, <3>0, LeastNumber
    <3>2. d \in 0..N /\ n \notin Up(n)[d]
      BY <3>1
    <3>3. d # 0
      BY <3>2, UpRecursion
    <3>4. d - 1 \in 0..N /\ d - 1 \notin Bad
      BY <1>0, <3>1, <3>2, <3>3
    <3> QED
      BY <3>2, <3>3, <3>4, UpRecursion
  <2> QED
    BY <1>0, <1>1, <2>1
<1> QED
  BY <1>2, <1>3, <1>4

\* The lineage of a known process is its parent's, and itself.
LEMMA LineageStep ==
  ASSUME TypeOK, NEW n \in known
  PROVE  Lineage(n) = {n} \cup Lineage(procs[n].ppid)
<1> DEFINE p == procs[n].ppid
<1>0. n \in Pids \cup {0} /\ p \in Pids \cup {0}
  BY DEF TypeOK, AuditTypeOK, Node
<1>1. p \in Lineage(n)
  BY <1>0, LineageLeast DEF Closed
<1>2. Lineage(p) \subseteq Lineage(n)
  BY <1>0, <1>1, LineageLeast
<1>3. Closed({n} \cup Lineage(p))
  BY <1>0, LineageLeast DEF Closed
<1>4. Lineage(n) \subseteq {n} \cup Lineage(p)
  BY <1>0, <1>3, LineageLeast
<1>5. n \in Lineage(n)
  BY <1>0, LineageLeast
<1> QED
  BY <1>2, <1>4, <1>5

\* Who is not known has no lineage but itself.
LEMMA LineageEnds ==
  ASSUME TypeOK, NEW n \in Pids \cup {0}, n \notin known
  PROVE  Lineage(n) = {n}
<1>1. Closed({n})
  BY DEF Closed
<1> QED
  BY <1>1, LineageLeast
-----------------------------------------------------------------------------
(* The tree.                                                               *)

\* The recursion of attachChildren ends before its depth is cut.
LEMMA LastLevelEmpty ==
  ASSUME TypeOK, Climbed
  PROVE  Levels[Cardinality(Pids)] = {}
<1> DEFINE N == Cardinality(Pids)
           f == [d \in 0..N |-> CHOOSE p \in Pids : p \in Levels[d]]
           Bad == {k \in 0..N : Levels[N - k] = {}}
<1>0. N \in Nat /\ N \in 0..N
  BY FS_CardinalityType, PidsAssumption
<1>1. SUFFICES ASSUME Levels[N] # {} PROVE FALSE
  OBVIOUS
<1>2. ASSUME Bad # {} PROVE FALSE
  <2>0. Bad \in SUBSET Nat
    OBVIOUS
  <2>1. PICK k \in Bad : \A m \in Bad : k <= m
    <3> HIDE DEF Bad
    <3> QED
      BY <1>2, <2>0, LeastNumber
  <2>2. k \in 0..N /\ Levels[N - k] = {}
    BY <2>1
  <2>3. k # 0
    BY <1>0, <1>1, <2>2
  <2>4. k - 1 \in 0..N /\ k - 1 \notin Bad
    BY <1>0, <2>1, <2>2, <2>3
  <2>5. Levels[N - (k - 1)] # {}
    BY <2>4
  <2>6. N - (k - 1) \in 0..N /\ N - (k - 1) # 0 /\ N - (k - 1) - 1 = N - k
    BY <1>0, <2>2, <2>3
  <2>7. Levels[N - (k - 1)] = UNION {Children(n) : n \in Levels[N - k]}
    BY <2>6, LevelsRecursion DEF Climbed
  <2> QED
    BY <2>2, <2>5, <2>7
<1>3. ASSUME NEW d \in 0..N PROVE f[d] \in Pids /\ f[d] \in Levels[d]
  <2>1. N - d \in 0..N /\ N - (N - d) = d
    BY <1>0
  <2>2. Levels[d] # {}
    BY <1>2, <2>1
  <2>3. Levels[d] \subseteq Pids
    BY LevelsRecursion DEF Climbed
  <2> QED
    BY <2>2, <2>3
<1>4. f \in Injection(0..N, Pids)
  <2> HIDE DEF f
  <2>1. \A d, e \in 0..N : f[d] = f[e] => d = e
    BY <1>3, LevelsDisjoint
  <2>2. f \in [0..N -> Pids]
    BY <1>3 DEF f
  <2> QED
    BY <2>1, <2>2 DEF Injection, IsInjective
<1>5. Cardinality(0..N) = N + 1
  BY <1>0, FS_Interval
<1> QED
  BY <1>0, <1>4, <1>5, FS_Injection, PidsAssumption

\* Nothing in the lineage of a process is younger than it.
LEMMA LineageOlder ==
  ASSUME AgeInv, ~ reused, NEW n \in known, NEW m \in Lineage(n) \cap known
  PROVE  procs[m].born <= procs[n].born
<1> USE DEF AgeInv, TypeOK, AuditTypeOK
<1> DEFINE C == {x \in Pids \cup {0} : x \in known => procs[x].born <= procs[n].born}
<1>0. \A x \in known : procs[x].born \in Nat /\ procs[x].ppid \in Pids \cup {0}
  BY DEF Node
<1>1. \A x \in known : procs[x].ppid \in known => procs[procs[x].ppid].born < procs[x].born
  BY PidsAssumption DEF SnapshotInv
<1>2. Closed(C)
  <2> SUFFICES ASSUME NEW c \in C \cap known PROVE procs[c].ppid \in C
    BY DEF Closed
  <2>1. c \in known /\ procs[c].born <= procs[n].born
    OBVIOUS
  <2>2. procs[c].ppid \in Pids \cup {0}
    BY <1>0, <2>1
  <2>3. procs[c].ppid \in known => procs[procs[c].ppid].born <= procs[n].born
    BY <1>0, <1>1, <2>1
  <2> QED
    BY <2>2, <2>3
<1>3. n \in C
  BY <1>0
<1>4. Lineage(n) \subseteq C
  BY <1>2, <1>3, LineageLeast
<1> QED
  BY <1>4

\* Init has no parent.
LEMMA InitIsFirst ==
  ASSUME AgeInv, ~ reused, 1 \in known
  PROVE  procs[1].ppid = 0
<1>1. procs[1].born = 1
  BY PidsAssumption DEF AgeInv, KernelInv, SnapshotInv
<1>2. procs[1].ppid \in Pids \cup {0}
  BY DEF AgeInv, TypeOK, AuditTypeOK, Node
<1>3. CASE procs[1].ppid # 0
  <2>1. born[procs[1].ppid] >= 1 /\ born[procs[1].ppid] < 1
    BY <1>1, <1>3 DEF AgeInv, SnapshotInv
  <2>2. born[procs[1].ppid] \in Nat
    BY <1>2, <1>3 DEF AgeInv, TypeOK, KernelTypeOK
  <2> QED
    BY <2>1, <2>2
<1> QED
  BY <1>3

\* What a child of a wanted process adds is wanted.
LEMMA ChildWanted ==
  ASSUME AgeInv, ~ reused, TraceInv, Climbed, pc = "attach",
         NEW m \in Wanted, NEW n \in Children(m)
  PROVE  n \in Wanted
<1> USE DEF AgeInv
<1>0. /\ n \in scanned /\ n \in known /\ procs[n].ppid = m
      /\ target = 1 \/ m = target \/ m \notin Ancestors \/ n \in Ancestors
  BY DEF Children, TypeOK, AuditTypeOK
<1>1. Lineage(n) = {n} \cup Lineage(m)
  BY <1>0, LineageStep
<1>2. m \in Lineage(m)
  BY LineageLeast DEF Wanted, TypeOK, AuditTypeOK
<1>3. ASSUME target = 1, m \in Ancestors PROVE m = target
  <2>0. chain \in Seq(Pids) /\ Len(chain) \in Nat /\ Len(chain) # 0 /\ DOMAIN chain = 1..Len(chain)
    BY DEF TypeOK, AuditTypeOK, Climbed
  <2>1. chain[Len(chain)] = target
    BY DEF TraceInv, SpineInv
  <2>2. CASE Len(chain) = 1
    BY <1>3, <2>0, <2>1, <2>2 DEF Ancestors
  <2>3. CASE Len(chain) # 1
    <3>1. Len(chain) - 1 \in 1..(Len(chain) - 1) /\ Len(chain) - 1 + 1 = Len(chain)
          /\ Len(chain) - 1 \in DOMAIN chain /\ Len(chain) \in DOMAIN chain
      BY <2>0, <2>3
    <3>2. procs[target].ppid = chain[Len(chain) - 1]
      BY <2>1, <3>1 DEF TraceInv, SpineInv
    <3>3. target \in known
      BY <2>1, <3>1 DEF TraceInv, ChainInv
    <3>4. chain[Len(chain) - 1] \in Pids
      BY <2>0, <3>1
    <3> QED
      BY <1>3, <3>2, <3>3, <3>4, InitIsFirst, PidsAssumption
  <2> QED
    BY <2>2, <2>3
<1>4. target \in Lineage(n) \/ n \in Ancestors
  BY <1>0, <1>1, <1>2, <1>3 DEF Wanted
<1> QED
  BY <1>0, <1>1, <1>4 DEF Wanted

\* What is attached is wanted.
LEMMA LevelsWanted ==
  ASSUME AgeInv, ~ reused, TraceInv, Climbed, pc = "attach",
         NEW e \in 0..Cardinality(Pids)
  PROVE  Levels[e] \subseteq Wanted
<1> USE DEF AgeInv
<1> DEFINE N == Cardinality(Pids)
           Bad == {d \in 0..N : ~ (Levels[d] \subseteq Wanted)}
<1>0. N \in Nat
  BY FS_CardinalityType, PidsAssumption
<1>1. ASSUME Bad # {} PROVE FALSE
  <2>0. Bad \in SUBSET Nat
    OBVIOUS
  <2>1. PICK d \in Bad : \A m \in Bad : d <= m
    <3> HIDE DEF Bad
    <3> QED
      BY <1>1, <2>0, LeastNumber
  <2>2. d \in 0..N /\ ~ (Levels[d] \subseteq Wanted)
    BY <2>1
  <2>3. CASE d = 0
    <3>1. chain[1] \in known /\ chain[1] \in Pids /\ chain[1] \in Ancestors
      BY DEF Climbed, TypeOK, AuditTypeOK, Ancestors
    <3>2. chain[1] \in Wanted
      BY <3>1, LineageLeast DEF Wanted
    <3> QED
      BY <2>2, <2>3, <3>2, LevelsRecursion DEF Climbed
  <2>4. CASE d # 0
    <3>1. d - 1 \in 0..N /\ d - 1 \notin Bad
      BY <1>0, <2>1, <2>2, <2>4
    <3>2. Levels[d - 1] \subseteq Wanted
      BY <3>1
    <3>3. Levels[d] = UNION {Children(n) : n \in Levels[d - 1]}
      BY <2>2, <2>4, LevelsRecursion DEF Climbed
    <3> QED
      BY <2>2, <3>2, <3>3, ChildWanted
  <2> QED
    BY <2>3, <2>4
<1> QED
  BY <1>1

\* A member of the chain that descends from its first one is attached.
LEMMA AncestorAttached ==
  ASSUME AgeInv, ~ reused, TraceInv, Climbed, pc = "attach", known = scanned,
         NEW i \in 1..Len(chain), chain[1] \in Lineage(chain[i])
  PROVE  i - 1 \in 0..Cardinality(Pids) /\ chain[i] \in Levels[i - 1]
<1> USE DEF AgeInv
<1>0. /\ chain \in Seq(Pids) /\ Len(chain) \in Nat /\ DOMAIN chain = 1..Len(chain)
      /\ \A k \in 1..Len(chain) : chain[k] \in known /\ chain[k] \in Pids /\ procs[chain[k]].born \in Nat
  BY DEF TypeOK, AuditTypeOK, TraceInv, ChainInv, Node
<1> DEFINE Bad == {k \in 0..Len(chain) : k < i /\ ~ (chain[1] \in Lineage(chain[i - k]))}
<1>1. ASSUME NEW k \in 2..Len(chain), chain[1] \in Lineage(chain[k])
      PROVE  chain[k] \in scanned /\ chain[1] \in Lineage(chain[k - 1])
  <2>1. k \in 1..Len(chain) /\ k - 1 \in 1..(Len(chain) - 1) /\ k - 1 + 1 = k /\ 1 \in 1..Len(chain) /\ 1 < k
    BY <1>0
  <2>2. chain[k] # chain[1]
    BY <1>0, <2>1 DEF TraceInv, ChainInv
  <2>3. chain[k] \in scanned
    BY <1>0, <1>1, <2>1, <2>2, LineageEnds
  <2>4. procs[chain[k]].ppid = chain[k - 1]
    BY <2>1 DEF TraceInv, SpineInv
  <2> QED
    BY <1>1, <2>2, <2>3, <2>4, LineageStep
<1>2. ASSUME Bad # {} PROVE FALSE
  <2>0. Bad \in SUBSET Nat
    OBVIOUS
  <2>1. PICK k \in Bad : \A m \in Bad : k <= m
    <3> HIDE DEF Bad
    <3> QED
      BY <1>2, <2>0, LeastNumber
  <2>2. k \in 0..Len(chain) /\ k < i /\ ~ (chain[1] \in Lineage(chain[i - k]))
    BY <2>1
  <2>3. k # 0
    BY <1>0, <2>2
  <2>4. k - 1 \in 0..Len(chain) /\ k - 1 < i /\ k - 1 \notin Bad
    <3>1. k - 1 \in 0..Len(chain) /\ k - 1 < i /\ ~ k <= k - 1
      BY <1>0, <2>2, <2>3
    <3> HIDE DEF Bad
    <3> QED
      BY <2>1, <3>1
  <2>5. chain[1] \in Lineage(chain[i - (k - 1)])
    BY <2>4
  <2>6. i - (k - 1) \in 2..Len(chain) /\ i - (k - 1) - 1 = i - k
    BY <1>0, <2>2, <2>3
  <2> QED
    BY <1>1, <2>2, <2>5, <2>6
<1>3. ASSUME NEW j \in 2..i PROVE chain[j] \in scanned
  <2>1. i - j \in 0..Len(chain) /\ i - j < i /\ i - (i - j) = j /\ j \in 2..Len(chain)
    BY <1>0
  <2>2. chain[1] \in Lineage(chain[j])
    BY <1>2, <2>1
  <2> QED
    BY <1>1, <2>1, <2>2
<1> QED
  BY <1>3, SpineIsAttached DEF TraceInv

\* The processes that are attached somewhere.
Attached == UNION {Levels[d] : d \in 0..Cardinality(Pids)}

\* A child of an attached process is attached.
LEMMA ChildAttached ==
  ASSUME TypeOK, Climbed, NEW m \in Attached, NEW n \in Children(m)
  PROVE  n \in Attached
<1> DEFINE N == Cardinality(Pids)
<1>0. N \in Nat
  BY FS_CardinalityType, PidsAssumption
<1>1. PICK d \in 0..N : m \in Levels[d]
  BY DEF Attached
<1>2. d # N
  BY <1>1, LastLevelEmpty
<1>3. d + 1 \in 0..N /\ d + 1 # 0 /\ d + 1 - 1 = d
  BY <1>0, <1>2
<1>4. Levels[d + 1] = UNION {Children(x) : x \in Levels[d + 1 - 1]}
  BY <1>3, LevelsRecursion DEF Climbed
<1>5. n \in Levels[d + 1]
  BY <1>1, <1>3, <1>4
<1> QED
  BY <1>3, <1>5 DEF Attached

\* What is wanted is attached.
LEMMA WantedAttached ==
  ASSUME AgeInv, ~ reused, TraceInv, Climbed, pc = "attach", known = scanned
  PROVE  Wanted \subseteq Attached
<1> USE DEF AgeInv
<1> DEFINE Bad == {procs[n].born : n \in Wanted \ Attached}
<1>0. /\ chain \in Seq(Pids) /\ Len(chain) \in Nat /\ DOMAIN chain = 1..Len(chain) /\ Len(chain) \in 1..Len(chain)
      /\ \A k \in known : k \in Pids /\ procs[k].born \in Nat
  BY DEF TypeOK, AuditTypeOK, Climbed, Node
<1>1. ASSUME NEW n \in Wanted, n \in Ancestors PROVE n \in Attached
  <2>1. PICK i \in 1..Len(chain) : n = chain[i]
    BY <1>0, <1>1 DEF Ancestors
  <2>2. i - 1 \in 0..Cardinality(Pids) /\ n \in Levels[i - 1]
    BY <2>1, AncestorAttached DEF Wanted
  <2> QED
    BY <2>2 DEF Attached
<1>2. ASSUME Bad # {} PROVE FALSE
  <2>0. Bad \in SUBSET Nat
    BY <1>0 DEF Wanted
  <2>1. PICK b \in Bad : \A m \in Bad : b <= m
    <3> HIDE DEF Bad
    <3> QED
      BY <1>2, <2>0, LeastNumber
  <2>2. PICK n \in Wanted \ Attached : b = procs[n].born
    BY <2>1
  <2>3. n \in known /\ n \notin Ancestors /\ target \in Lineage(n) /\ chain[1] \in Lineage(n)
    BY <1>1, <2>2 DEF Wanted
  <2> DEFINE m == procs[n].ppid
  <2>4. target \in Ancestors /\ target \in known /\ chain[Len(chain)] = target
    BY <1>0 DEF TraceInv, SpineInv, ChainInv, Ancestors
  <2>5. chain[1] \in Ancestors
    BY <1>0 DEF Ancestors
  <2>6. n \in scanned
    BY <1>0, <2>3, <2>4, LineageEnds
  <2>7. target \in Lineage(m) /\ chain[1] \in Lineage(m)
    BY <2>3, <2>4, <2>5, <2>6, LineageStep
  <2>8. m \in Pids \cup {0}
    BY <2>3 DEF TypeOK, AuditTypeOK, Node
  <2>9. m \in known
    <3>1. CASE m \in scanned
      BY <3>1 DEF TypeOK, AuditTypeOK
    <3>2. CASE m \notin scanned
      BY <2>4, <2>7, <2>8, <3>2, LineageEnds
    <3> QED
      BY <3>1, <3>2
  <2>10. m \in Wanted
    BY <2>7, <2>9 DEF Wanted
  <2>11. procs[m].born < procs[n].born
    BY <2>3, <2>9, PidsAssumption DEF SnapshotInv, TypeOK, AuditTypeOK
  <2>12. m \in Attached
    <3>1. m \notin Attached => procs[m].born \in Bad
      BY <2>10
    <3>2. procs[m].born \in Nat /\ procs[n].born \in Nat
      BY <1>0, <2>3, <2>9
    <3> QED
      BY <2>1, <2>2, <2>11, <3>1, <3>2
  <2>13. m = target \/ m \notin Ancestors
    <3> SUFFICES ASSUME m \in Ancestors, m # target PROVE FALSE
      OBVIOUS
    <3>1. PICK i \in 1..Len(chain) : m = chain[i]
      BY <1>0 DEF Ancestors
    <3>2. i < Len(chain)
      BY <1>0, <2>4, <3>1
    <3>3. procs[m].born < procs[target].born
      BY <1>0, <2>4, <3>1, <3>2 DEF TraceInv, ChainInv
    <3>4. procs[target].born <= procs[m].born
      BY <2>4, <2>7, <2>9, LineageOlder
    <3>5. procs[m].born \in Nat /\ procs[target].born \in Nat
      BY <1>0, <2>4, <2>9
    <3> QED
      BY <3>3, <3>4, <3>5
  <2>14. n \in Children(m)
    BY <2>6, <2>13 DEF Children
  <2> QED
    BY <2>2, <2>12, <2>14, ChildAttached
<1>3. Wanted \ Attached = {}
  BY <1>2
<1> QED
  BY <1>3

\* Whatever forks, exits and is re-parented while the table is read, unless a
\* PID is used again, the tree of a target that was listed is the chain down to
\* it and all that the audit has met below it, the processes fetched late
\* included: no sibling of an ancestor, and nobody left out.  The tree of any
\* target has nobody else.
THEOREM TreeHoldsLineage == Spec => []TreeIsLineage
<1>1. Init => TreeIsLineage
  BY DEF Init, TreeIsLineage
<1>2. ASSUME AgeInv, AgeInv', ~ reused => TraceInv, LoopInv, TreeIsLineage, [Next]_vars
      PROVE  TreeIsLineage'
  <2> SUFFICES ASSUME pc' = "done", ~ reused' PROVE TreeIsLineage'
    BY DEF TreeIsLineage
  <2>1. CASE Attach
    <3>1. /\ pc = "attach" /\ UNCHANGED <<reused, target, scanned, chain, known, procs>>
          /\ tree' = {v[2] : v \in Calls}
      BY <2>1 DEF Attach, kernel
    <3>2. TraceInv /\ Climbed /\ ~ reused
      BY <1>2, <3>1 DEF LoopInv
    <3>3. tree' = Attached
      <4>1. ASSUME NEW v \in Calls PROVE v[2] \in Attached
        BY DEF Calls, Attached
      <4>2. ASSUME NEW p \in Attached PROVE p \in {v[2] : v \in Calls}
        BY <1>2, <3>2, LevelIsCalled DEF AgeInv, Attached, Climbed
      <4> QED
        BY <3>1, <4>1, <4>2
    <3>4. Attached \subseteq Wanted
      BY <1>2, <3>1, <3>2, LevelsWanted DEF Attached
    <3>5. target \in scanned => Attached = Wanted
      <4>1. target \in scanned => known = scanned
        BY <3>1, <3>2 DEF TraceInv, ListedInv
      <4> QED
        BY <1>2, <3>1, <3>2, <3>4, <4>1, WantedAttached
    <3>6. Wanted' = Wanted
      BY <3>1 DEF Wanted, Ancestors, Lineage
    <3> QED
      BY <3>1, <3>3, <3>4, <3>5, <3>6 DEF TreeIsLineage
  <2>2. CASE UNCHANGED <<pc, target, scanned, tree, reused, chain, known, procs>>
    <3>1. Wanted' = Wanted
      BY <2>2 DEF Wanted, Ancestors, Lineage
    <3> QED
      BY <1>2, <2>2, <3>1 DEF TreeIsLineage
  <2>3. CASE KernelStep
    <3>1. ~ reused
      BY <1>2, <2>3, ReusedStep DEF AgeInv, KernelStep, Fork, Exit, Return, audit
    <3>2. UNCHANGED <<pc, target, scanned, tree, chain, known, procs>>
      BY <2>3 DEF KernelStep, Fork, Exit, audit
    <3>3. Wanted' = Wanted
      BY <3>2 DEF Wanted, Ancestors, Lineage
    <3> QED
      BY <1>2, <3>1, <3>2, <3>3 DEF TreeIsLineage
  <2> QED
    BY <1>2, <2>1, <2>2, <2>3
    DEF Next, AuditStep, List, ReadEntry, Scanned, Locate, Climb, Return, vars, audit, kernel
<1> QED
  BY <1>1, <1>2, TraceInvariant, LoopInvariant, PTL DEF Spec
-----------------------------------------------------------------------------
(* The end of an audit.                                                    *)

\* How many steps an audit still has, at most.
Remaining ==
    CASE pc = "idle" -> 0
      [] pc \in {"done", "error"} -> 1
      [] pc = "attach" -> 2
      [] pc = "climb" -> 2 + (Cardinality(Pids) - Len(chain))
      [] pc = "locate" -> 3 + Cardinality(Pids)
      [] pc = "scan" -> 4 + Cardinality(Pids) + Cardinality(todo)

\* There are finitely many PIDs, and so of any names.
LEMMA PidsCounted == Cardinality(Pids) \in Nat /\ \A S \in SUBSET Pids : IsFiniteSet(S) /\ Cardinality(S) \in Nat
BY PidsAssumption, FS_CardinalityType, FS_Subset

\* While the loop runs there is a process for it that is not on the chain.
LEMMA ClimbLeavesOne ==
  ASSUME TypeOK, AgeInv, ChainInv, pc = "climb"
  PROVE  Len(chain) < Cardinality(Pids)
<1>1. Ancestors \subseteq Pids \ {curr} /\ curr \in Pids
  <2> SUFFICES ASSUME NEW i \in DOMAIN chain PROVE chain[i] \in Pids \ {curr}
    BY DEF Ancestors, TypeOK, AuditTypeOK
  <2>1. chain[i] \in Pids /\ procs[curr].born < procs[chain[i]].born /\ procs[curr].born \in Nat
    BY DEF TypeOK, AuditTypeOK, Node, ChainInv
  <2> QED
    BY <2>1
<1>2. ASSUME NEW i \in DOMAIN chain, NEW j \in DOMAIN chain, i # j PROVE chain[i] # chain[j]
  <2>1. i \in Nat /\ j \in Nat /\ chain[i] \in Pids /\ chain[j] \in Pids
    BY DEF TypeOK, AuditTypeOK
  <2>2. procs[chain[i]].born \in Nat /\ procs[chain[j]].born \in Nat
    BY <2>1 DEF TypeOK, AuditTypeOK, Node
  <2>3. i < j \/ j < i
    BY <1>2, <2>1
  <2> QED
    BY <2>2, <2>3 DEF ChainInv
<1>3. chain \in Injection(1..Len(chain), Pids \ {curr})
  <2>1. chain \in [1..Len(chain) -> Pids \ {curr}] /\ DOMAIN chain = 1..Len(chain)
    BY <1>1 DEF TypeOK, AuditTypeOK, Ancestors
  <2> QED
    BY <1>2, <2>1 DEF Injection, IsInjective
<1> DEFINE n == Len(chain)
           others == Pids \ {curr}
<1>4. n \in Nat
  BY DEF TypeOK, AuditTypeOK
<1>5. IsFiniteSet(others) /\ Cardinality(others) = Cardinality(Pids) - 1
  BY <1>1, PidsAssumption, FS_RemoveElement
<1>6. chain \in Injection(1..n, others)
  BY <1>3
<1> HIDE DEF n, others
<1>7. Cardinality(1..n) = n
  BY <1>4, FS_Interval
<1>8. Cardinality(1..n) <= Cardinality(others)
  BY <1>5, <1>6, FS_Injection
<1> QED
  BY <1>4, <1>5, <1>7, <1>8, PidsCounted DEF n

\* The same as a state predicate that a step can be said to keep.
RoomLeft == ~ reused /\ pc = "climb" => Len(chain) < Cardinality(Pids)

\* Each step of the audit is one step less.
LEMMA AuditShortens ==
  ASSUME TypeOK, TypeOK', RoomLeft, RoomLeft', AuditStep, ~ reused'
  PROVE  Remaining' < Remaining /\ Remaining' \in Nat
<1> DEFINE N == Cardinality(Pids)
<1>0. N \in Nat
  BY PidsCounted
<1>1. ASSUME NEW p \in todo, ReadEntry(p) PROVE Remaining' < Remaining /\ Remaining' \in Nat
  <2>1. pc = "scan" /\ pc' = "scan" /\ todo' = todo \ {p}
    BY <1>1 DEF ReadEntry
  <2>2. IsFiniteSet(todo)
    BY PidsCounted DEF TypeOK, AuditTypeOK
  <2>3. Cardinality(todo') = Cardinality(todo) - 1 /\ Cardinality(todo) \in Nat /\ Cardinality(todo') \in Nat
    <3>1. Cardinality(todo \ {p}) = Cardinality(todo) - 1
      BY <1>1, <2>2, FS_RemoveElement
    <3>2. Cardinality(todo) \in Nat /\ Cardinality(todo \ {p}) \in Nat
      BY PidsCounted DEF TypeOK, AuditTypeOK
    <3> QED
      BY <2>1, <3>1, <3>2
  <2>4. Remaining = 4 + N + Cardinality(todo) /\ Remaining' = 4 + N + Cardinality(todo')
    BY <2>1 DEF Remaining
  <2> QED
    BY <1>0, <2>3, <2>4
<1>2. CASE Scanned
  <2>1. pc = "scan" /\ pc' = "locate" /\ todo = {}
    BY <1>2 DEF Scanned
  <2>2. Remaining = 4 + N + 0 /\ Remaining' = 3 + N
    BY <2>1, FS_EmptySet DEF Remaining
  <2> QED
    BY <1>0, <2>2
<1>3. CASE Locate
  <2>1. pc = "locate" /\ pc' \in {"climb", "error"} /\ Len(chain') \in Nat
    BY <1>3 DEF Locate, TypeOK, AuditTypeOK
  <2>2. Remaining = 3 + N
    BY <2>1 DEF Remaining
  <2>3. CASE pc' = "error"
    <3>1. Remaining' = 1
      BY <2>3 DEF Remaining
    <3> QED
      BY <1>0, <2>2, <3>1
  <2>4. CASE pc' = "climb"
    <3>1. Len(chain') < N
      BY <1>3, <2>4 DEF RoomLeft
    <3>2. Remaining' = 2 + (N - Len(chain'))
      BY <2>4 DEF Remaining
    <3> QED
      BY <1>0, <2>1, <2>2, <3>1, <3>2
  <2> QED
    BY <2>1, <2>3, <2>4
<1>4. CASE Climb
  <2>1. pc = "climb" /\ pc' \in {"climb", "attach"} /\ chain' = Prepend(curr, chain) /\ ~ reused
    BY <1>4 DEF Climb, kernel
  <2>2. Len(chain) < N /\ Len(chain) \in Nat /\ curr \in Pids /\ chain \in Seq(Pids)
    BY <2>1 DEF RoomLeft, TypeOK, AuditTypeOK
  <2>3. Len(chain') = Len(chain) + 1
    <3>1. Len(chain) <= Cardinality(Pids)
      BY <1>0, <2>2
    <3> QED
      BY <2>1, <2>2, <3>1, PrependRange
  <2>4. Remaining = 2 + (N - Len(chain))
    BY <2>1 DEF Remaining
  <2>5. CASE pc' = "attach"
    <3>1. Remaining' = 2
      BY <2>5 DEF Remaining
    <3> QED
      BY <1>0, <2>2, <2>4, <3>1
  <2>6. CASE pc' = "climb"
    <3>1. Len(chain') < N
      BY <1>4, <2>6 DEF RoomLeft
    <3>2. Remaining' = 2 + (N - Len(chain'))
      BY <2>6 DEF Remaining
    <3> QED
      BY <1>0, <2>2, <2>3, <2>4, <3>1, <3>2
  <2> QED
    BY <2>1, <2>5, <2>6
<1>5. CASE Attach
  BY <1>5 DEF Attach, Remaining
<1>6. CASE Return
  BY <1>6 DEF Return, Remaining
<1> QED
  BY <1>1, <1>2, <1>3, <1>4, <1>5, <1>6 DEF AuditStep

\* The kernel's steps are none of the audit's.
LEMMA KernelLeaves ==
  ASSUME TypeOK, RoomLeft, KernelStep \/ UNCHANGED vars
  PROVE  Remaining' = Remaining
<1>1. UNCHANGED audit
  BY DEF KernelStep, Fork, Exit, vars
<1> QED
  BY <1>1 DEF Remaining, audit

\* Unless a PID is used again meanwhile, every step of an audit leaves fewer to
\* make and none of the kernel's leaves more, so that the audit ends after as
\* many steps as there were names and are PIDs, and four, however the process
\* table changes under it (tree.go:36-113).
THEOREM AuditGetsOn ==
    Spec => [][pc # "idle" /\ ~ reused' =>
                 /\ Remaining \in Nat
                 /\ Remaining' <= Remaining
                 /\ AuditStep => Remaining' < Remaining]_vars
<1>1. AgeInv /\ (~ reused => TraceInv) => TypeOK /\ RoomLeft
  BY ClimbLeavesOne DEF AgeInv, TraceInv, RoomLeft
<1>2. TypeOK /\ TypeOK' /\ AgeInv /\ RoomLeft /\ RoomLeft' /\ [Next]_vars =>
        [pc # "idle" /\ ~ reused' =>
           /\ Remaining \in Nat
           /\ Remaining' <= Remaining
           /\ AuditStep => Remaining' < Remaining]_vars
  <2> SUFFICES ASSUME TypeOK, TypeOK', AgeInv, RoomLeft, RoomLeft', [Next]_vars, pc # "idle", ~ reused'
               PROVE  /\ Remaining \in Nat
                      /\ Remaining' <= Remaining
                      /\ AuditStep => Remaining' < Remaining
    OBVIOUS
  <2>1. Remaining \in Nat
    <3>1. pc = "climb" => Len(chain) < Cardinality(Pids)
      <4>1. ~ reused \/ Return
        BY ReusedStep DEF AgeInv
      <4> QED
        BY <4>1 DEF RoomLeft, Return
    <3>2. Cardinality(Pids) \in Nat /\ Cardinality(todo) \in Nat
      BY PidsCounted DEF TypeOK, AuditTypeOK
    <3>3. pc \in {"idle", "scan", "locate", "climb", "attach", "done", "error"} /\ Len(chain) \in Nat
      BY DEF TypeOK, AuditTypeOK
    <3> QED
      BY <3>1, <3>2, <3>3 DEF Remaining
  <2>2. CASE AuditStep
    <3>1. Remaining' < Remaining /\ Remaining' \in Nat
      BY <2>2, AuditShortens
    <3> QED
      BY <2>1, <3>1
  <2>3. CASE ~ AuditStep
    <3>1. KernelStep \/ UNCHANGED vars
      BY <2>3 DEF Next, List
    <3>2. Remaining' = Remaining
      BY <3>1, KernelLeaves
    <3> QED
      BY <2>1, <2>3, <3>2
  <2> QED
    BY <2>2, <2>3
<1> QED
  BY <1>1, <1>2, TraceInvariant, PTL DEF Spec
=============================================================================
