------------------------ MODULE SystemdOverrideProofs ------------------------
(***************************************************************************)
(* Theorems about SystemdOverride, for any directives and any number of    *)
(* appliers.  That a directive the unit sets securely stays secure is not  *)
(* inductive: an applier may still write a plan it made long ago.  OwnInv  *)
(* adds that neither the file nor any plan has a line for such a one.      *)
(***************************************************************************)
EXTENDS SystemdOverride, TLAPS

\* The unit alone decides about d, and decides well.
Covered(d) == IsSecure(d, base[d]) /\ hand[d] = "unset"

FileLeavesAlone == \A d \in Directives : Covered(d) => file[d] = "unset"

PlansLeaveAlone == \A a \in Appliers : \A d \in plan[a] : ~ Covered(d)

OwnInv == TypeOK /\ FileLeavesAlone /\ PlansLeaveAlone
-----------------------------------------------------------------------------
(* Lemmas about the configuration sources.                                  *)

\* Joining what two sources say gives something a source can say.
LEMMA JoinType ==
    ASSUME NEW v \in Said, NEW w \in Said
    PROVE  Join(v, w) \in Said
BY DEF Join, Said

\* A source that is silent about a directive leaves the verdict to the unit,
\* so a directive the unit covers is not among those audited as insecure.
LEMMA CoveredIsSecure ==
    ASSUME TypeOK, FileLeavesAlone
    PROVE  /\ \A d \in Directives : Covered(d) => IsSecure(d, Parsed(file)[d])
           /\ \A d \in Insecure(file) : d \in Directives /\ ~ Covered(d)
<1>1. ASSUME NEW d \in Directives, Covered(d)
      PROVE  IsSecure(d, Parsed(file)[d])
  <2>1. file[d] = "unset"
    BY <1>1 DEF FileLeavesAlone
  <2>2. Parsed(file)[d] = base[d]
    BY <2>1 DEF Parsed, Join
  <2> QED
    BY <1>1, <2>2 DEF Covered
<1> QED
  BY <1>1 DEF Insecure

\* A write puts lines of its own plan and lines the file had, no others.
LEMMA OverwriteKeeps ==
    ASSUME NEW f \in [Directives -> Said], NEW S \in SUBSET Directives
    PROVE  /\ Overwrite(f, S) \in [Directives -> Said]
           /\ \A d \in Directives \ S : f[d] = "unset" => Overwrite(f, S)[d] = "unset"
<1> DEFINE rest(d) == IF d \in Tail(f, Cardinality(S)) THEN f[d] ELSE "unset"
<1>1. ASSUME NEW d \in Directives
      PROVE  /\ Snippet(S)[d] \in Said
             /\ d \notin S => Snippet(S)[d] = "unset"
             /\ rest(d) \in Said
             /\ f[d] = "unset" => rest(d) = "unset"
  BY <1>1 DEF Snippet, Line, Said
<1>2. ASSUME NEW d \in Directives
      PROVE  Join(Snippet(S)[d], rest(d)) \in Said
  <2> HIDE DEF rest
  <2> QED
    BY <1>1, <1>2, JoinType
<1>3. Overwrite(f, S) = [d \in Directives |-> Join(Snippet(S)[d], rest(d))]
  BY DEF Overwrite
<1>4. ASSUME NEW d \in Directives \ S, f[d] = "unset"
      PROVE  Join(Snippet(S)[d], rest(d)) = "unset"
  <2> HIDE DEF rest
  <2> QED
    BY <1>1, <1>4 DEF Join
<1> HIDE DEF rest
<1> QED
  BY <1>2, <1>3, <1>4

\* What a write that stops early has written is a part of the plan.
LEMMA PrefixIsPart ==
    ASSUME NEW S, NEW P \in Prefixes(S)
    PROVE  P \subseteq S
BY DEF Prefixes
-----------------------------------------------------------------------------
\* Init gives the invariant: there is no plan yet, and the file is the
\* administrator's.
LEMMA OwnInit == Init => OwnInv
<1> SUFFICES ASSUME Init PROVE OwnInv
  OBVIOUS
<1>1. TypeOK
  BY DEF Init, TypeOK, ByHand, Said
<1>2. FileLeavesAlone
  BY DEF Init, FileLeavesAlone, Covered
<1>3. PlansLeaveAlone
  BY DEF Init, PlansLeaveAlone
<1> QED
  BY <1>1, <1>2, <1>3 DEF OwnInv

\* What is covered depends on the unit and the administrator, who do not act.
LEMMA CoveredStays ==
    ASSUME UNCHANGED <<base, hand>>
    PROVE  \A d : Covered(d)' <=> Covered(d)
BY DEF Covered, IsSecure

\* Auditing: the new plan leaves the covered directives alone.
LEMMA OwnAudit ==
    ASSUME OwnInv, NEW a \in Appliers, Audit(a)
    PROVE  OwnInv'
<1> USE DEF OwnInv
<1>1. \A d \in Insecure(file) : d \in Directives /\ ~ Covered(d)
  BY CoveredIsSecure
<1>2. TypeOK'
  <2> DEFINE next == IF Insecure(file) = {} THEN "refused" ELSE "planned"
  <2>1. /\ UNCHANGED <<located, base, hand, file>>
        /\ pc' = [pc EXCEPT ![a] = next]
        /\ plan' = [plan EXCEPT ![a] = Insecure(file)]
    BY DEF Audit
  <2>2. plan' \in [Appliers -> SUBSET Directives]
    BY <1>1, <2>1 DEF TypeOK
  <2>3. next \in {"planned", "refused"} /\ (next = "planned" => Insecure(file) # {})
    OBVIOUS
  <2> HIDE DEF next
  <2>4. pc' \in [Appliers -> {"idle", "planned", "dir", "open", "done", "refused", "error"}]
    BY <2>1, <2>3 DEF TypeOK
  <2>5. ASSUME NEW b \in Appliers, pc'[b] \in {"planned", "dir", "open", "done"}
        PROVE  plan'[b] # {}
    <3>1. CASE b = a
      BY <2>1, <2>3, <2>5, <3>1 DEF TypeOK
    <3>2. CASE b # a
      BY <2>1, <2>5, <3>2 DEF TypeOK
    <3> QED
      BY <3>1, <3>2
  <2> QED
    BY <2>1, <2>2, <2>4, <2>5 DEF TypeOK
<1>3. FileLeavesAlone'
  BY CoveredStays DEF Audit, FileLeavesAlone
<1>4. PlansLeaveAlone'
  <2>1. \A d : Covered(d)' <=> Covered(d)
    BY CoveredStays DEF Audit
  <2>2. \A b \in Appliers : plan'[b] = IF b = a THEN Insecure(file) ELSE plan[b]
    BY DEF Audit, TypeOK
  <2> QED
    BY <1>1, <2>1, <2>2 DEF PlansLeaveAlone
<1> QED
  BY <1>2, <1>3, <1>4

\* An open or a write: the file is emptied, or given lines of a part of the
\* applier's plan, which has no line for a covered directive.
LEMMA OwnFileStep ==
    ASSUME OwnInv, NEW a \in Appliers, Open(a) \/ Write(a)
    PROVE  OwnInv'
<1> USE DEF OwnInv
<1>1. /\ UNCHANGED <<located, base, hand, plan>>
      /\ pc[a] \in {"dir", "open"}
      /\ \E r \in {"open", "done", "error"} : pc' = [pc EXCEPT ![a] = r]
  BY DEF Open, Write
<1>2. \/ file' \in {file, Blank}
      \/ \E S \in SUBSET plan[a] : file' = Overwrite(file, S)
  <2>1. CASE Open(a)
    BY <2>1 DEF Open
  <2>2. CASE Write(a)
    <3>1. \A S \in Prefixes(plan[a]) : S \in SUBSET plan[a]
      BY PrefixIsPart
    <3> QED
      BY <2>2, <3>1 DEF Write
  <2> QED
    BY <2>1, <2>2
<1>3. /\ file' \in [Directives -> Said]
      /\ \A d \in Directives \ plan[a] : file[d] = "unset" => file'[d] = "unset"
  <2>1. CASE file' = file
    BY <2>1 DEF TypeOK
  <2>2. CASE file' = Blank
    BY <2>2 DEF Blank, Said
  <2>3. CASE \E S \in SUBSET plan[a] : file' = Overwrite(file, S)
    <3>1. PICK S \in SUBSET plan[a] : file' = Overwrite(file, S)
      BY <2>3
    <3>2. file \in [Directives -> Said] /\ S \in SUBSET Directives
      BY DEF TypeOK
    <3> QED
      BY <3>1, <3>2, OverwriteKeeps
  <2> QED
    BY <1>2, <2>1, <2>2, <2>3
<1>4. \A d : Covered(d)' <=> Covered(d)
  BY <1>1, CoveredStays
<1>5. TypeOK'
  <2>1. PICK r \in {"open", "done", "error"} : pc' = [pc EXCEPT ![a] = r]
    BY <1>1
  <2>2. pc' \in [Appliers -> {"idle", "planned", "dir", "open", "done", "refused", "error"}]
    BY <2>1 DEF TypeOK
  <2>3. plan[a] # {}
    BY <1>1 DEF TypeOK
  <2>4. ASSUME NEW b \in Appliers, pc'[b] \in {"planned", "dir", "open", "done"}
        PROVE  plan[b] # {}
    BY <2>1, <2>3, <2>4 DEF TypeOK
  <2> QED
    BY <1>1, <1>3, <2>2, <2>4 DEF TypeOK
<1>6. FileLeavesAlone'
  BY <1>3, <1>4 DEF FileLeavesAlone, PlansLeaveAlone
<1>7. PlansLeaveAlone'
  BY <1>1, <1>4 DEF PlansLeaveAlone
<1> QED
  BY <1>5, <1>6, <1>7

\* The steps that touch neither the file nor, but to drop it, the plan.
LEMMA OwnControlStep ==
    ASSUME OwnInv, NEW a \in Appliers, MakeDir(a) \/ Kill(a) \/ Answer(a)
    PROVE  OwnInv'
<1> USE DEF OwnInv
<1>1. UNCHANGED <<located, base, hand, file>>
  BY DEF MakeDir, Kill, Answer
<1>2. \/ /\ pc[a] = "planned"
         /\ plan' = plan
         /\ \E r \in {"dir", "error"} : pc' = [pc EXCEPT ![a] = r]
      \/ /\ plan' = [plan EXCEPT ![a] = {}]
         /\ pc' = [pc EXCEPT ![a] = "idle"]
  BY DEF MakeDir, Kill, Answer
<1>3. \A d : Covered(d)' <=> Covered(d)
  BY <1>1, CoveredStays
<1>4. TypeOK'
  BY <1>1, <1>2 DEF TypeOK
<1>5. FileLeavesAlone'
  BY <1>1, <1>3 DEF FileLeavesAlone
<1>6. PlansLeaveAlone'
  BY <1>2, <1>3 DEF PlansLeaveAlone, TypeOK
<1> QED
  BY <1>4, <1>5, <1>6

\* The inductive invariant of every behaviour.
LEMMA OwnInvariant == Spec => []OwnInv
<1>1. Init => OwnInv
  BY OwnInit
<1>2. OwnInv /\ [Next]_vars => OwnInv'
  <2> SUFFICES ASSUME OwnInv, [Next]_vars PROVE OwnInv'
    OBVIOUS
  <2>1. CASE UNCHANGED vars
    BY <2>1 DEF vars, OwnInv, TypeOK, FileLeavesAlone, PlansLeaveAlone, Covered, IsSecure
  <2>2. CASE Next
    <3>1. PICK a \in Appliers : Audit(a) \/ MakeDir(a) \/ Open(a) \/ Write(a) \/ Kill(a) \/ Answer(a)
      BY <2>2 DEF Next
    <3> QED
      BY <3>1, OwnAudit, OwnFileStep, OwnControlStep
  <2> QED
    BY <2>1, <2>2
<1> QED
  BY <1>1, <1>2, PTL DEF Spec

\* Every variable keeps its type, and nobody gets as far as the directory
\* with a snippet that has no line.
THEOREM OverrideTypeCorrect == Spec => []TypeOK
<1>1. OwnInv => TypeOK
  BY DEF OwnInv
<1> QED
  BY <1>1, OwnInvariant, PTL

\* Whatever appliers overlap, fail or are killed, the audit goes on judging a
\* directive secure that the unit sets securely and no administrator's
\* override.conf touches.
THEOREM UnitSettingsSurvive == Spec => []UnitSecureStaysSecure
<1>1. OwnInv => UnitSecureStaysSecure
  BY CoveredIsSecure DEF OwnInv, UnitSecureStaysSecure, Covered
<1> QED
  BY <1>1, OwnInvariant, PTL
-----------------------------------------------------------------------------
(***************************************************************************)
(* The other property is about one step, and fails from a file that still  *)
(* holds an administrator's lines.  Opening truncates, so as long as any   *)
(* applier has the file open there are none, whoever wrote in between.     *)
(***************************************************************************)
Ours == {"unset", "doubled", "several"}

OpenInv == (\E a \in Appliers : pc[a] = "open") => \A d \in Directives : file[d] \in Ours

\* A line of nspect's joined with one of nspect's is one of nspect's, and
\* what was asked for is there.
LEMMA OverwriteIsOurs ==
    ASSUME NEW S \in SUBSET Directives, NEW f, \A d \in Directives : f[d] \in Ours
    PROVE  /\ \A d \in Directives : Overwrite(f, S)[d] \in Ours
           /\ \A d \in S : Overwrite(f, S)[d] # "unset"
<1>1. ASSUME NEW d \in Directives
      PROVE  \E w \in Ours : Overwrite(f, S)[d] = Join(IF d \in S THEN "doubled" ELSE "unset", w)
  <2>1. Snippet(S)[d] = IF d \in S THEN "doubled" ELSE "unset"
    BY DEF Snippet, Line
  <2>2. (IF d \in Tail(f, Cardinality(S)) THEN f[d] ELSE "unset") \in Ours
    BY DEF Ours
  <2> QED
    BY <2>1, <2>2 DEF Overwrite
<1>2. \A w \in Ours : Join("unset", w) \in Ours /\ Join("doubled", w) \in Ours \ {"unset"}
  BY DEF Join, Ours
<1> QED
  BY <1>1, <1>2

LEMMA OpenStep == OwnInv /\ OpenInv /\ [Next]_vars => OpenInv'
<1> SUFFICES ASSUME OwnInv, OpenInv, [Next]_vars PROVE OpenInv'
  OBVIOUS
<1> USE DEF OwnInv, TypeOK
<1>1. CASE UNCHANGED vars
  BY <1>1 DEF vars, OpenInv
<1>2. ASSUME NEW a \in Appliers, Audit(a) \/ MakeDir(a) \/ Kill(a) \/ Answer(a)
      PROVE  OpenInv'
  <2>1. UNCHANGED file /\ \A b \in Appliers : pc'[b] = "open" => pc[b] = "open"
    BY <1>2 DEF Audit, MakeDir, Kill, Answer
  <2> QED
    BY <2>1 DEF OpenInv
<1>3. ASSUME NEW a \in Appliers, Open(a)
      PROVE  OpenInv'
  <2>1. CASE file' = Blank
    BY <2>1 DEF OpenInv, Blank, Ours
  <2>2. CASE UNCHANGED file /\ pc' = [pc EXCEPT ![a] = "error"]
    BY <2>2 DEF OpenInv
  <2> QED
    BY <1>3, <2>1, <2>2 DEF Open
<1>4. ASSUME NEW a \in Appliers, Write(a)
      PROVE  OpenInv'
  <2>1. \A d \in Directives : file[d] \in Ours
    BY <1>4 DEF Write, OpenInv
  <2>2. PICK S \in SUBSET Directives : file' = Overwrite(file, S)
    BY <1>4, PrefixIsPart DEF Write
  <2> QED
    BY <2>1, <2>2, OverwriteIsOurs DEF OpenInv
<1> QED
  BY <1>1, <1>2, <1>3, <1>4 DEF Next

\* "Systemd override successfully written" is true whenever it is said,
\* although other appliers truncate and write between an applier's own open
\* and write (remediation.go:163-178).
THEOREM SuccessIsTrue == Spec => SuccessMeansWritten
<1>1. Init => OpenInv
  BY DEF Init, OpenInv
<1>2. OwnInv /\ OpenInv /\ [Next]_vars =>
          [\A a \in Appliers :
                pc[a] = "open" /\ pc'[a] = "done" =>
                    /\ \A d \in plan[a] : file'[d] # "unset"
                    /\ \A d \in Directives : file'[d] \notin {"good", "off"}]_vars
  <2> SUFFICES ASSUME OwnInv, OpenInv, Next, NEW a \in Appliers, pc[a] = "open", pc'[a] = "done"
               PROVE  /\ \A d \in plan[a] : file'[d] # "unset"
                      /\ \A d \in Directives : file'[d] \notin {"good", "off"}
    OBVIOUS
  <2> USE DEF OwnInv, TypeOK
  <2>1. file' = Overwrite(file, plan[a])
    BY DEF Next, Audit, MakeDir, Open, Write, Kill, Answer
  <2>2. \A d \in Directives : file[d] \in Ours
    BY DEF OpenInv
  <2>3. plan[a] \in SUBSET Directives
    OBVIOUS
  <2> QED
    BY <2>1, <2>2, <2>3, OverwriteIsOurs DEF Ours
<1> QED
  BY <1>1, <1>2, OpenStep, OwnInvariant, PTL DEF Spec, SuccessMeansWritten
=============================================================================
