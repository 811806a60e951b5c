-------------------------- MODULE SeccompFetchProofs --------------------------
(***************************************************************************)
(* Theorems about SeccompFetch, for any number of audits and signals.      *)
(* HoldInv ties the tracer to the audit that is inside, and says that once *)
(* wait4 has returned the process stays shown to it or dies.  QuietInv     *)
(* follows the SIGSTOP of an attach until the stop it causes is shown.     *)
(***************************************************************************)
EXTENDS SeccompFetch, TLAPS

\* After wait4 the process is stopped for the audit, or gone.
StoppedAfterWait ==
    \A a \in Audits : pc[a] \in {"len", "data", "detach"} => mode \in {"trap", "dead"}

\* Only a traced process is ever shown to anybody.
ShownIsTraced == mode = "trap" => tracer # Nobody

HoldInv == TypeOK /\ TracedWhileInside /\ StoppedAfterWait /\ ShownIsTraced
-----------------------------------------------------------------------------
\* What the end of an attempt does to the audit's own variables.
LEMMA AttemptOverEffect ==
    ASSUME TypeOK, NEW a \in Audits, NEW success \in BOOLEAN, AttemptOver(a, success)
    PROVE  /\ \E r \in {"attach", "done"} : pc' = [pc EXCEPT ![a] = r]
           /\ goal' \in [Audits -> {"filter", "flags"}]
           /\ attempt' \in [Audits -> 1..2]
           /\ read' \in [Audits -> SUBSET {"filter", "flags"}]
<1>1. CASE ~ success /\ attempt[a] = 1
  BY <1>1 DEF AttemptOver, TypeOK
<1>2. CASE ~ (~ success /\ attempt[a] = 1)
  <2>1. \E r \in {"attach", "done"} : pc' = [pc EXCEPT ![a] = r]
    BY <1>2 DEF AttemptOver
  <2>2. /\ goal' = [goal EXCEPT ![a] = "flags"]
        /\ attempt' = [attempt EXCEPT ![a] = 1]
        /\ read' = IF success THEN [read EXCEPT ![a] = @ \cup {goal[a]}] ELSE read
    BY <1>2 DEF AttemptOver
  <2>3. goal' \in [Audits -> {"filter", "flags"}] /\ attempt' \in [Audits -> 1..2]
    BY <2>2 DEF TypeOK
  <2>4. read' \in [Audits -> SUBSET {"filter", "flags"}]
    <3>1. CASE success
      <4>1. read[a] \cup {goal[a]} \in SUBSET {"filter", "flags"}
        BY DEF TypeOK
      <4> QED
        BY <2>2, <3>1, <4>1 DEF TypeOK
    <3>2. CASE ~ success
      BY <2>2, <3>2 DEF TypeOK
    <3> QED
      BY <3>1, <3>2
  <2> QED
    BY <2>1, <2>3, <2>4
<1> QED
  BY <1>1, <1>2

\* Nothing is traced at the start.
LEMMA HoldInit == Init => HoldInv
<1> SUFFICES ASSUME Init PROVE HoldInv
  OBVIOUS
<1>1. TypeOK
  <2>1. /\ mode \in {"run", "trap", "stopped", "dead"}
        /\ shown \in {"SIGSTOP", "other", "group"}
        /\ tracer \in Audits \cup {Nobody}
        /\ sent \in 0..MaxSignals
    BY FetchAssumption DEF Init
  <2>2. sigstop \in BOOLEAN /\ queued \in BOOLEAN /\ lost \in BOOLEAN /\ filtered \in BOOLEAN
    BY DEF Init
  <2>3. /\ pc \in [Audits -> Inside \cup {"start", "attach", "done", "killed"}]
        /\ goal \in [Audits -> {"filter", "flags"}]
        /\ attempt \in [Audits -> 1..2]
        /\ ok \in [Audits -> BOOLEAN]
        /\ read \in [Audits -> SUBSET {"filter", "flags"}]
    BY DEF Init
  <2> QED
    BY <2>1, <2>2, <2>3 DEF TypeOK
<1>2. TracedWhileInside
  BY FetchAssumption DEF Init, TracedWhileInside, Inside
<1>3. StoppedAfterWait /\ ShownIsTraced
  BY DEF Init, StoppedAfterWait, ShownIsTraced
<1> QED
  BY <1>1, <1>2, <1>3 DEF HoldInv

\* The process runs into a stop only while it is not shown; an audit then
\* waits for it, if there is one.
LEMMA HoldProcess ==
    ASSUME HoldInv, Signal \/ TakeSigstop \/ TakeOther \/ Die
    PROVE  HoldInv'
<1> USE DEF HoldInv
<1>1. CASE Signal
  BY <1>1, FetchAssumption DEF Signal, audit, TypeOK, TracedWhileInside, StoppedAfterWait, ShownIsTraced
<1>2. CASE TakeSigstop
  BY <1>2 DEF TakeSigstop, Take, audit, TypeOK, TracedWhileInside, StoppedAfterWait, ShownIsTraced
<1>3. CASE TakeOther
  BY <1>3 DEF TakeOther, Take, audit, TypeOK, TracedWhileInside, StoppedAfterWait, ShownIsTraced
<1>4. CASE Die
  BY <1>4 DEF Die, audit, TypeOK, TracedWhileInside, StoppedAfterWait, ShownIsTraced
<1> QED
  BY <1>1, <1>2, <1>3, <1>4

\* An audit gets inside by attaching to a process nobody traces.
LEMMA HoldEnter ==
    ASSUME HoldInv, NEW a \in Audits, Start(a) \/ Attach(a) \/ AttachFails(a) \/ Wait(a)
    PROVE  HoldInv'
<1> USE DEF HoldInv
<1>1. CASE Start(a)
  BY <1>1 DEF Start, process, TypeOK, TracedWhileInside, StoppedAfterWait, ShownIsTraced, Inside
<1>2. CASE Attach(a)
  BY <1>2, FetchAssumption DEF Attach, TypeOK, TracedWhileInside, StoppedAfterWait, ShownIsTraced, Inside
<1>3. CASE AttachFails(a)
  <2>1. PICK r \in {"attach", "done"} : pc' = [pc EXCEPT ![a] = r]
    BY <1>3, AttemptOverEffect DEF AttachFails
  <2>2. TypeOK'
    BY <1>3, <2>1, AttemptOverEffect DEF AttachFails, process, TypeOK
  <2> QED
    BY <1>3, <2>1, <2>2 DEF AttachFails, process, TypeOK, TracedWhileInside, StoppedAfterWait,
                            ShownIsTraced, Inside
<1>4. CASE Wait(a)
  BY <1>4 DEF Wait, process, TypeOK, TracedWhileInside, StoppedAfterWait, ShownIsTraced, Inside
<1> QED
  BY <1>1, <1>2, <1>3, <1>4

\* It asks without leaving, and leaves by detaching or by being killed.
LEMMA HoldLeave ==
    ASSUME HoldInv, NEW a \in Audits, Ask(a) \/ AskData(a) \/ Detach(a) \/ Kill(a)
    PROVE  HoldInv'
<1> USE DEF HoldInv
<1>1. CASE Ask(a)
  BY <1>1 DEF Ask, Answered, process, TypeOK, TracedWhileInside, StoppedAfterWait, ShownIsTraced, Inside
<1>2. CASE AskData(a)
  BY <1>2 DEF AskData, Answered, process, TypeOK, TracedWhileInside, StoppedAfterWait, ShownIsTraced, Inside
<1>3. CASE Detach(a)
  <2>1. /\ pc[a] = "detach"
        /\ ok[a] \in BOOLEAN
        /\ AttemptOver(a, ok[a])
    BY <1>3 DEF Detach, TypeOK
  <2>2. PICK r \in {"attach", "done"} : pc' = [pc EXCEPT ![a] = r]
    BY <2>1, AttemptOverEffect
  <2>3. /\ goal' \in [Audits -> {"filter", "flags"}]
        /\ attempt' \in [Audits -> 1..2]
        /\ read' \in [Audits -> SUBSET {"filter", "flags"}]
    BY <2>1, AttemptOverEffect
  <2>4. /\ mode' \in {"run", "trap", "stopped", "dead"}
        /\ tracer' \in Audits \cup {Nobody}
        /\ UNCHANGED <<shown, sigstop, queued, sent, filtered, ok>>
    BY <1>3 DEF Detach, TypeOK
  <2>5. CASE mode = "dead"
    <3>1. UNCHANGED <<mode, lost, tracer>>
      BY <1>3, <2>5 DEF Detach
    <3> QED
      BY <2>1, <2>2, <2>3, <2>4, <2>5, <3>1
      DEF TypeOK, TracedWhileInside, StoppedAfterWait, ShownIsTraced, Inside
  <2>6. CASE mode # "dead"
    <3>1. mode = "trap" /\ tracer = a
      BY <2>1, <2>6 DEF TracedWhileInside, StoppedAfterWait, Inside
    <3>2. /\ mode' \in {"run", "stopped"}
          /\ tracer' = Nobody
      BY <1>3, <3>1 DEF Detach
    <3>3. \A b \in Audits : pc'[b] \notin Inside
      BY <2>1, <2>2, <2>6, <3>1 DEF TracedWhileInside, Inside, TypeOK
    <3>4. TypeOK'
      BY <1>3, <2>2, <2>3, <2>4 DEF Detach, TypeOK
    <3>5. TracedWhileInside'
      BY <3>2, <3>3, FetchAssumption DEF TracedWhileInside
    <3>6. StoppedAfterWait' /\ ShownIsTraced'
      BY <3>2, <3>3 DEF StoppedAfterWait, ShownIsTraced, Inside
    <3> QED
      BY <3>4, <3>5, <3>6
  <2> QED
    BY <2>5, <2>6
<1>4. CASE Kill(a)
  <2>1. TypeOK'
    BY <1>4 DEF Kill, TypeOK, Inside
  <2>2. TracedWhileInside'
    BY <1>4, FetchAssumption DEF Kill, TypeOK, TracedWhileInside, Inside
  <2>3. StoppedAfterWait' /\ ShownIsTraced'
    BY <1>4 DEF Kill, TypeOK, TracedWhileInside, StoppedAfterWait, ShownIsTraced, Inside
  <2> QED
    BY <2>1, <2>2, <2>3
<1> QED
  BY <1>1, <1>2, <1>3, <1>4

\* The inductive invariant of every behaviour.
LEMMA HoldInvariant == Spec => []HoldInv
<1>1. Init => HoldInv
  BY HoldInit
<1>2. HoldInv /\ [Next]_vars => HoldInv'
  <2> SUFFICES ASSUME HoldInv, [Next]_vars PROVE HoldInv'
    OBVIOUS
  <2>1. CASE UNCHANGED vars
    BY <2>1 DEF vars, process, audit, HoldInv, TypeOK, TracedWhileInside, StoppedAfterWait, ShownIsTraced
  <2>2. CASE Signal \/ TakeSigstop \/ TakeOther \/ Die
    BY <2>2, HoldProcess
  <2>3. CASE \E a \in Audits : AuditStep(a) \/ Kill(a)
    BY <2>3, HoldEnter, HoldLeave DEF AuditStep
  <2> QED
    BY <2>1, <2>2, <2>3 DEF Next
<1> QED
  BY <1>1, <1>2, PTL DEF Spec

\* Every variable keeps its type; no audit makes a third attempt.
THEOREM FetchTypeCorrect == Spec => []TypeOK
<1>1. HoldInv => TypeOK
  BY DEF HoldInv
<1> QED
  BY <1>1, HoldInvariant, PTL

\* Whatever fails and whoever is killed, a living process is traced by an
\* audit exactly while that audit is between its attach and its detach.
THEOREM NeverLeftTraced == Spec => []TracedWhileInside
<1>1. HoldInv => TracedWhileInside
  BY DEF HoldInv
<1> QED
  BY <1>1, HoldInvariant, PTL

\* No detach is refused because the process is still running.
THEOREM DetachNeverRefused == Spec => []DetachWorks
<1>1. HoldInv => DetachWorks
  BY DEF HoldInv, TracedWhileInside, StoppedAfterWait, DetachWorks, Inside
<1> QED
  BY <1>1, HoldInvariant, PTL
-----------------------------------------------------------------------------
\* With no other signal about, and unless an audit is killed, a SIGSTOP is
\* queued only while its sender still waits for the stop.
QuietInv ==
    /\ sent = 0 /\ queued = FALSE /\ lost = FALSE /\ shown # "other"
    /\ (\A a \in Audits : pc[a] # "killed") /\ mode # "dead" =>
          /\ mode # "stopped"
          /\ mode = "trap" => shown = "SIGSTOP" /\ sigstop = FALSE
          /\ sigstop => tracer # Nobody

\* A signal that was sent stays counted.
LEMMA SentCounts == ASSUME HoldInv, [Next]_vars, sent' = 0 PROVE sent = 0 /\ ~ Signal
<1>1. sent \in Nat
  BY FetchAssumption DEF HoldInv, TypeOK
<1>2. CASE Signal
  <2>1. sent' = sent + 1
    BY <1>2 DEF Signal
  <2> QED
    BY <1>1, <2>1
<1>3. CASE ~ Signal
  BY <1>3 DEF Next, TakeSigstop, TakeOther, Die, AuditStep, Start, Attach, AttachFails,
     Wait, Ask, AskData, Detach, Kill, process, vars
<1> QED
  BY <1>2, <1>3

\* The process's own steps: only a queued SIGSTOP can be taken.
LEMMA QuietProcess ==
    ASSUME HoldInv, QuietInv, TakeSigstop \/ TakeOther \/ Die
    PROVE  QuietInv'
<1>2. CASE TakeSigstop
  BY <1>2 DEF TakeSigstop, Take, audit, QuietInv
<1>3. CASE TakeOther
  BY <1>3 DEF TakeOther, QuietInv
<1>4. CASE Die
  BY <1>4 DEF Die, audit, QuietInv
<1> QED
  BY <1>2, <1>3, <1>4

\* An audit's steps; a killed one takes none.
LEMMA QuietAudit ==
    ASSUME HoldInv, QuietInv, NEW a \in Audits, AuditStep(a)
    PROVE  QuietInv'
<1> USE DEF HoldInv
<1>1. /\ pc[a] # "killed"
      /\ \E r : pc' = [pc EXCEPT ![a] = r]
  <2>1. CASE Detach(a)
    <3>1. ok[a] \in BOOLEAN /\ AttemptOver(a, ok[a])
      BY <2>1 DEF Detach, TypeOK
    <3> QED
      BY <2>1, <3>1, AttemptOverEffect DEF Detach
  <2>2. CASE AttachFails(a)
    BY <2>2, AttemptOverEffect DEF AttachFails
  <2>3. CASE Start(a) \/ Attach(a) \/ Wait(a) \/ Ask(a) \/ AskData(a)
    BY <2>3 DEF Start, Attach, Wait, Ask, AskData
  <2> QED
    BY <2>1, <2>2, <2>3 DEF AuditStep
<1>2. (\A b \in Audits : pc'[b] # "killed") => \A b \in Audits : pc[b] # "killed"
  BY <1>1 DEF TypeOK
<1>3. CASE UNCHANGED process
  BY <1>2, <1>3 DEF process, QuietInv
<1>4. CASE Attach(a)
  BY <1>2, <1>4, FetchAssumption DEF Attach, QuietInv, ShownIsTraced, TypeOK
<1>5. CASE Detach(a) /\ mode # "dead"
  <2>1. mode = "trap" /\ tracer = a
    BY <1>5 DEF Detach, TracedWhileInside, StoppedAfterWait, Inside
  <2>2. /\ mode' = IF shown = "group" THEN "stopped" ELSE "run"
        /\ lost' = (lost \/ shown = "other")
        /\ UNCHANGED <<shown, sigstop, queued, sent>>
    BY <1>5, <2>1 DEF Detach
  <2>3. lost' = FALSE
    BY <2>2 DEF QuietInv
  <2> QED
    BY <1>2, <1>5, <2>1, <2>2, <2>3 DEF QuietInv
<1>6. CASE Detach(a) /\ mode = "dead"
  BY <1>6 DEF Detach, QuietInv
<1> QED
  BY <1>3, <1>4, <1>5, <1>6 DEF AuditStep, Start, AttachFails, Wait, Ask, AskData

\* Killing an audit ends what the invariant promises.
LEMMA QuietKill ==
    ASSUME HoldInv, QuietInv, NEW a \in Audits, Kill(a)
    PROVE  QuietInv'
BY DEF Kill, HoldInv, TypeOK, QuietInv

\* Until somebody else signals the process, the audits that end by
\* themselves leave it running, with nothing queued and nothing lost.
THEOREM LeavesRunning == Spec => []LeftRunningUnsignalled
<1> DEFINE Inv == sent = 0 => QuietInv
<1>1. Init => Inv
  BY DEF Init, QuietInv
<1>2. HoldInv /\ Inv /\ [Next]_vars => Inv'
  <2> SUFFICES ASSUME HoldInv, Inv, [Next]_vars, sent' = 0 PROVE QuietInv'
    OBVIOUS
  <2>0. QuietInv /\ ~ Signal
    BY SentCounts
  <2>1. CASE UNCHANGED vars
    BY <2>0, <2>1 DEF vars, process, audit, QuietInv
  <2>2. CASE TakeSigstop \/ TakeOther \/ Die
    BY <2>0, <2>2, QuietProcess
  <2>3. CASE \E a \in Audits : AuditStep(a) \/ Kill(a)
    BY <2>0, <2>3, QuietAudit, QuietKill
  <2> QED
    BY <2>0, <2>1, <2>2, <2>3 DEF Next
<1>3. HoldInv /\ Inv => LeftRunningUnsignalled
  <2> SUFFICES ASSUME HoldInv, QuietInv, mode # "dead",
                      \A a \in Audits : pc[a] \in {"start", "done"}
               PROVE  mode = "run" /\ ~ sigstop /\ ~ lost
    BY DEF LeftRunningUnsignalled, LeftRunning
  <2>1. tracer = Nobody
    BY DEF HoldInv, TypeOK, TracedWhileInside, Inside
  <2>2. mode = "run" /\ ~ sigstop
    BY <2>1 DEF HoldInv, TypeOK, ShownIsTraced, QuietInv
  <2> QED
    BY <2>2 DEF QuietInv
<1> QED
  BY <1>1, <1>2, <1>3, HoldInvariant, PTL DEF Spec
-----------------------------------------------------------------------------
(***************************************************************************)
(* An audit that nobody else's overlaps.  While the process lives none of  *)
(* its attempts at the filter fails, so it has it when it goes on to the   *)
(* flags.                                                                  *)
(***************************************************************************)
Lone(a) ==
    /\ \A b \in Audits \ {a} : pc[b] = "start"
    /\ filtered
    /\ mode # "dead"

Progress(a) ==
    /\ pc[a] = "start" => goal[a] = "filter"
    /\ goal[a] = "flags" \/ pc[a] = "done" => "filter" \in read[a]
    /\ pc[a] = "detach" /\ goal[a] = "filter" => ok[a]

LoneInv == \A a \in Privileged : Lone(a) => Progress(a)

\* Once alone, always been alone: nothing goes back to the start, to life, or
\* gets a filter.
LEMMA LoneBefore ==
    ASSUME HoldInv, [Next]_vars, NEW a \in Audits, Lone(a)'
    PROVE  Lone(a)
<1> USE DEF HoldInv
<1>1. filtered' = filtered /\ (mode = "dead" => mode' = "dead")
  BY DEF Next, AuditStep, Signal, TakeSigstop, TakeOther, Take, Die, Start, Attach, AttachFails,
         Wait, Ask, AskData, Detach, Kill, process, audit, vars, TracedWhileInside, TypeOK
<1>2. ASSUME NEW b \in Audits, pc'[b] = "start"
      PROVE  pc[b] = "start"
  <2>1. CASE UNCHANGED pc
    BY <1>2, <2>1
  <2>2. CASE \E c \in Audits, r \in Inside \cup {"attach", "done", "killed"} : pc' = [pc EXCEPT ![c] = r]
    BY <1>2, <2>2 DEF TypeOK, Inside
  <2>3. ASSUME NEW c \in Audits, Detach(c) \/ AttachFails(c)
        PROVE  \E r \in {"attach", "done"} : pc' = [pc EXCEPT ![c] = r]
    <3>1. ok[c] \in BOOLEAN
      BY DEF TypeOK
    <3> QED
      BY <2>3, <3>1, AttemptOverEffect DEF Detach, AttachFails
  <2>4. ASSUME NEW c \in Audits, Start(c) \/ Attach(c) \/ Wait(c) \/ Ask(c) \/ AskData(c) \/ Kill(c)
        PROVE  \E r \in Inside \cup {"attach", "done", "killed"} : pc' = [pc EXCEPT ![c] = r]
    BY <2>4 DEF Start, Attach, Wait, Ask, AskData, Kill, Inside
  <2>5. CASE Signal \/ TakeSigstop \/ TakeOther \/ Die \/ UNCHANGED vars
    BY <2>1, <2>5 DEF Signal, TakeSigstop, TakeOther, Die, audit, vars
  <2> QED
    BY <2>2, <2>3, <2>4, <2>5 DEF Next, AuditStep
<1> QED
  BY <1>1, <1>2 DEF Lone

\* Nobody holds the process against an audit that is alone, and its questions
\* find the process shown to it.
LEMMA LoneSucceeds ==
    ASSUME HoldInv, NEW a \in Privileged, Lone(a)
    PROVE  /\ pc[a] = "attach" => tracer = Nobody
           /\ pc[a] \in {"len", "data"} => Answered(a)
<1>1. a \in Audits
  BY FetchAssumption
<1>2. pc[a] = "attach" => \A b \in Audits : pc[b] \notin Inside
  BY <1>1 DEF Lone, Inside
<1>3. pc[a] \in {"len", "data"} => tracer = a /\ mode = "trap"
  BY <1>1 DEF Lone, HoldInv, TracedWhileInside, StoppedAfterWait, Inside
<1> QED
  BY <1>1, <1>2, <1>3 DEF Lone, HoldInv, TypeOK, TracedWhileInside, Answered

LEMMA LoneAudit ==
    ASSUME HoldInv, NEW a \in Privileged, Lone(a), Progress(a), AuditStep(a)
    PROVE  Progress(a)'
<1> USE DEF HoldInv
<1>1. a \in Audits /\ ok[a] \in BOOLEAN /\ goal[a] \in {"filter", "flags"}
  BY FetchAssumption DEF TypeOK
<1>2. CASE Start(a)
  BY <1>1, <1>2 DEF Start, Lone, Progress, TypeOK, Inside
<1>3. CASE Attach(a) \/ Wait(a)
  BY <1>1, <1>3 DEF Attach, Wait, Progress, TypeOK, Inside
<1>4. CASE AttachFails(a)
  BY <1>4, LoneSucceeds DEF AttachFails, Lone
<1>5. CASE Ask(a)
  <2>1. Answered(a)
    BY <1>5, LoneSucceeds DEF Ask
  <2> QED
    BY <1>1, <1>5, <2>1 DEF Ask, Progress, TypeOK, Inside
<1>6. CASE AskData(a)
  <2>1. Answered(a)
    BY <1>6, LoneSucceeds DEF AskData
  <2> QED
    BY <1>1, <1>6, <2>1 DEF AskData, Progress, TypeOK, Inside
<1>7. CASE Detach(a)
  <2>1. AttemptOver(a, ok[a]) /\ pc[a] = "detach"
    BY <1>7 DEF Detach
  <2>2. \E r \in {"attach", "done"} : pc'[a] = r
    BY <1>1, <2>1, AttemptOverEffect DEF TypeOK
  <2>3. CASE goal[a] = "filter"
    <3>1. ok[a] /\ read' = [read EXCEPT ![a] = @ \cup {"filter"}]
      BY <2>1, <2>3 DEF Progress, AttemptOver
    <3> QED
      BY <1>1, <2>2, <3>1 DEF TypeOK, Progress
  <2>4. CASE goal[a] = "flags"
    <3>1. "filter" \in read[a] /\ read' \in {read, [read EXCEPT ![a] = @ \cup {"flags"}]}
      BY <2>1, <2>4 DEF Progress, AttemptOver
    <3>2. "filter" \in read'[a]
      BY <1>1, <3>1 DEF TypeOK
    <3> QED
      BY <2>2, <3>2 DEF Progress
  <2> QED
    BY <1>1, <2>3, <2>4
<1> QED
  BY <1>2, <1>3, <1>4, <1>5, <1>6, <1>7 DEF AuditStep

LEMMA LoneStep == HoldInv /\ LoneInv /\ [Next]_vars => LoneInv'
<1> SUFFICES ASSUME HoldInv, LoneInv, [Next]_vars, NEW a \in Privileged, Lone(a)'
             PROVE  Progress(a)'
  BY DEF LoneInv
<1>1. a \in Audits
  BY FetchAssumption
<1>2. Lone(a) /\ Progress(a)
  BY <1>1, LoneBefore DEF LoneInv
<1>3. CASE AuditStep(a)
  BY <1>2, <1>3, LoneAudit
<1>4. CASE Kill(a)
  BY <1>1, <1>2, <1>4 DEF Kill, HoldInv, TypeOK, Progress, Inside
<1>5. CASE Signal \/ TakeSigstop \/ TakeOther \/ Die \/ UNCHANGED vars
  BY <1>2, <1>5 DEF Signal, TakeSigstop, TakeOther, Die, audit, vars, Progress
<1>6. CASE \E b \in Audits \ {a} : AuditStep(b) \/ Kill(b)
  <2>1. PICK b \in Audits \ {a} : Start(b)
    BY <1>2, <1>6 DEF Lone, AuditStep, Attach, AttachFails, Wait, Ask, AskData, Detach, Kill, Inside
  <2>2. pc[b] = "start" /\ filtered
    BY <1>2 DEF Lone
  <2>3. pc'[b] = "attach"
    BY <2>1, <2>2 DEF Start, HoldInv, TypeOK
  <2> QED
    BY <2>3 DEF Lone
<1> QED
  BY <1>3, <1>4, <1>5, <1>6 DEF Next

\* Whatever signals the process gets, a privileged audit that is alone with it
\* reads its filter (seccomp.go:330-398).
THEOREM LoneAuditSucceeds == Spec => []LoneAuditReads
<1>1. Init => LoneInv
  BY FetchAssumption DEF Init, LoneInv, Progress, Inside
<1>2. LoneInv => LoneAuditReads
  BY DEF LoneInv, Lone, Progress, LoneAuditReads
<1> QED
  BY <1>1, <1>2, LoneStep, HoldInvariant, PTL DEF Spec
-----------------------------------------------------------------------------
(* The end of an audit.                                                     *)

\* The stop for which an audit waits has been shown, or its signal is queued.
StopComes ==
    \A a \in Audits : pc[a] = "wait" => mode \in {"trap", "dead"} \/ (mode = "run" /\ sigstop)

\* Other steps than an audit's own do not take the signal from it.
LEMMA StopStep == HoldInv /\ StopComes /\ [Next]_vars => StopComes'
<1> SUFFICES ASSUME HoldInv, StopComes, [Next]_vars, NEW a \in Audits, pc'[a] = "wait"
             PROVE  mode' \in {"trap", "dead"} \/ (mode' = "run" /\ sigstop')
  BY DEF StopComes
<1> USE DEF HoldInv, TypeOK
<1>1. CASE UNCHANGED vars
  BY <1>1 DEF vars, process, audit, StopComes
<1>2. CASE Signal \/ TakeSigstop \/ TakeOther \/ Die
  <2>1. pc[a] = "wait"
    BY <1>2 DEF Signal, TakeSigstop, TakeOther, Die, audit
  <2>2. mode # "dead" => tracer = a /\ a # Nobody
    BY <2>1, FetchAssumption DEF TracedWhileInside, Inside
  <2> QED
    BY <1>2, <2>1, <2>2 DEF Signal, TakeSigstop, TakeOther, Take, Die, StopComes
<1>3. CASE Attach(a)
  BY <1>3, FetchAssumption DEF Attach, ShownIsTraced
<1>4. ASSUME NEW b \in Audits, AuditStep(b) \/ Kill(b), ~ Attach(a)
      PROVE  mode' \in {"trap", "dead"} \/ (mode' = "run" /\ sigstop')
  <2>1. pc[a] = "wait" /\ a # b
    <3>1. ASSUME NEW r, r # "wait" \/ b # a, pc' = [pc EXCEPT ![b] = r]
          PROVE  pc[a] = "wait" /\ a # b
      BY <3>1
    <3>2. CASE Start(b)
      <4>1. \E r \in {"attach", "done"} : pc' = [pc EXCEPT ![b] = r]
        BY <3>2 DEF Start
      <4> QED
        BY <3>1, <4>1
    <3>3. CASE Attach(b)
      <4>1. b # a
        BY <1>4, <3>3
      <4>2. pc' = [pc EXCEPT ![b] = "wait"]
        BY <3>3 DEF Attach
      <4> QED
        BY <3>1, <4>1, <4>2
    <3>4. CASE AttachFails(b) \/ Detach(b)
      <4>1. \E success \in BOOLEAN : AttemptOver(b, success)
        BY <3>4 DEF AttachFails, Detach
      <4>2. \E r \in {"attach", "done"} : pc' = [pc EXCEPT ![b] = r]
        BY <4>1, AttemptOverEffect
      <4> QED
        BY <3>1, <4>2
    <3>5. CASE Wait(b) \/ Ask(b) \/ AskData(b) \/ Kill(b)
      <4>1. \E r \in {"len", "data", "detach", "killed"} : pc' = [pc EXCEPT ![b] = r]
        BY <3>5 DEF Wait, Ask, AskData, Kill
      <4> QED
        BY <3>1, <4>1
    <3> QED
      BY <1>4, <3>2, <3>3, <3>4, <3>5 DEF AuditStep
  <2>2. mode # "dead" => tracer = a /\ tracer # b /\ tracer # Nobody
    BY <2>1, FetchAssumption DEF TracedWhileInside, Inside
  <2>3. UNCHANGED <<mode, sigstop>>
    <3>1. CASE mode = "dead"
      BY <1>4, <3>1 DEF AuditStep, Start, Attach, AttachFails, Wait, Ask, AskData, Detach, Kill, process
    <3>2. CASE mode # "dead"
      BY <1>4, <2>2, <3>2 DEF AuditStep, Start, Attach, AttachFails, Wait, Ask, AskData, Detach, Kill, process
    <3> QED
      BY <3>1, <3>2
  <2> QED
    BY <2>1, <2>3 DEF StopComes
<1> QED
  BY <1>1, <1>2, <1>3, <1>4 DEF Next

\* An audit is never left waiting: wait4 returns at once, or the process has a
\* SIGSTOP to take that makes it return, whoever else attaches, signals or dies
\* (seccomp.go:373, 433).
THEOREM WaitedForStopComes == Spec => []StopComes
<1>1. Init => StopComes
  BY DEF Init, StopComes
<1> QED
  BY <1>1, StopStep, HoldInvariant, PTL DEF Spec

\* How many of its own steps an attempt still has.
StepsFrom(place) ==
    CASE place = "attach" -> 5
      [] place = "wait" -> 4
      [] place = "len" -> 3
      [] place = "data" -> 2
      [] place = "detach" -> 1

\* How many an audit has: two attempts at the filter, two at the flags.
Remaining(a) ==
    IF pc[a] = "start" THEN 21
    ELSE IF pc[a] \in {"done", "killed"} THEN 0
    ELSE StepsFrom(pc[a]) + (IF attempt[a] = 1 THEN 5 ELSE 0) + (IF goal[a] = "filter" THEN 10 ELSE 0)

LEMMA RemainingBound ==
  ASSUME HoldInv, NEW a \in Audits
  PROVE  /\ Remaining(a) \in 0..21
         /\ pc[a] \in Inside \cup {"attach"} =>
               Remaining(a) \in Nat /\ Remaining(a) > (IF attempt[a] = 1 THEN 5 ELSE 0) + (IF goal[a] = "filter" THEN 10 ELSE 0)
<1>1. pc[a] \in Inside \cup {"start", "attach", "done", "killed"}
  BY DEF HoldInv, TypeOK
<1> QED
  BY <1>1 DEF Remaining, StepsFrom, Inside

\* The end of an attempt: the second begins, or the flags, or nothing.
LEMMA AttemptShortens ==
  ASSUME HoldInv, NEW a \in Audits, NEW success \in BOOLEAN, AttemptOver(a, success),
         pc[a] \in Inside \cup {"attach"}
  PROVE  Remaining(a)' \in Nat /\ Remaining(a)' < Remaining(a)
<1> DEFINE before == (IF attempt[a] = 1 THEN 5 ELSE 0) + (IF goal[a] = "filter" THEN 10 ELSE 0)
<1>1. Remaining(a) \in Nat /\ Remaining(a) > before
  BY RemainingBound
<1>2. goal[a] \in {"filter", "flags"} /\ attempt[a] \in 1..2
  BY DEF HoldInv, TypeOK
<1>3. CASE ~ success /\ attempt[a] = 1
  <2>1. attempt'[a] = 2 /\ pc'[a] = "attach" /\ goal'[a] = goal[a]
    BY <1>3 DEF AttemptOver, HoldInv, TypeOK
  <2>2. Remaining(a)' = 5 + (IF goal[a] = "filter" THEN 10 ELSE 0)
    BY <2>1 DEF Remaining, StepsFrom
  <2> QED
    BY <1>1, <1>3, <2>2
<1>4. CASE ~ (~ success /\ attempt[a] = 1)
  <2>1. attempt'[a] = 1 /\ goal'[a] = "flags" /\ pc'[a] = IF goal[a] = "filter" THEN "attach" ELSE "done"
    BY <1>4 DEF AttemptOver, HoldInv, TypeOK
  <2>2. Remaining(a)' = IF goal[a] = "filter" THEN 10 ELSE 0
    BY <2>1 DEF Remaining, StepsFrom
  <2>3. before >= (IF goal[a] = "filter" THEN 10 ELSE 0)
    BY <1>2
  <2> QED
    BY <1>1, <1>2, <2>2, <2>3
<1> QED
  BY <1>3, <1>4

\* Each step brings an audit nearer to its end.
LEMMA StepShortens ==
  ASSUME HoldInv, NEW a \in Audits, AuditStep(a)
  PROVE  Remaining(a)' \in Nat /\ Remaining(a)' < Remaining(a)
<1> USE DEF HoldInv, TypeOK
<1>1. CASE Start(a)
  <2>1. pc[a] = "start" /\ pc'[a] \in {"attach", "done"} /\ UNCHANGED <<goal, attempt>>
    BY <1>1 DEF Start
  <2>2. attempt'[a] \in 1..2 /\ goal'[a] \in {"filter", "flags"}
    BY <2>1
  <2> QED
    BY <2>1, <2>2 DEF Remaining, StepsFrom
<1>2. CASE AttachFails(a)
  BY <1>2, AttemptShortens DEF AttachFails
<1>3. CASE Detach(a)
  BY <1>3, AttemptShortens DEF Detach, Inside
<1>4. CASE Attach(a) \/ Wait(a) \/ Ask(a) \/ AskData(a)
  <2>1. /\ UNCHANGED <<goal, attempt>>
        /\ \/ pc[a] = "attach" /\ pc'[a] = "wait"
           \/ pc[a] = "wait" /\ pc'[a] = "len"
           \/ pc[a] = "len" /\ pc'[a] \in {"data", "detach"}
           \/ pc[a] = "data" /\ pc'[a] = "detach"
    BY <1>4 DEF Attach, Wait, Ask, AskData
  <2>2. attempt[a] \in 1..2 /\ goal[a] \in {"filter", "flags"} /\ attempt'[a] = attempt[a] /\ goal'[a] = goal[a]
    BY <2>1
  <2> QED
    BY <2>1, <2>2 DEF Remaining, StepsFrom
<1> QED
  BY <1>1, <1>2, <1>3, <1>4 DEF AuditStep

\* The steps of others leave it where it is.
LEMMA OthersLeave ==
  ASSUME HoldInv, NEW a \in Audits, [Next]_vars, ~ AuditStep(a)
  PROVE  Remaining(a)' <= Remaining(a)
<1> USE DEF HoldInv, TypeOK
<1>0. Remaining(a) \in 0..21
  BY RemainingBound
<1>1. CASE Kill(a)
  <2>1. pc'[a] = "killed"
    BY <1>1 DEF Kill
  <2> QED
    BY <1>0, <2>1 DEF Remaining
<1>2. ASSUME pc'[a] = pc[a], goal'[a] = goal[a], attempt'[a] = attempt[a]
      PROVE  Remaining(a)' <= Remaining(a)
  <2>1. Remaining(a)' = Remaining(a)
    BY <1>2 DEF Remaining
  <2> QED
    BY <1>0, <2>1
<1>3. CASE UNCHANGED audit
  BY <1>2, <1>3 DEF audit
<1>4. ASSUME NEW b \in Audits, b # a, AuditStep(b) \/ Kill(b)
      PROVE  pc'[a] = pc[a] /\ goal'[a] = goal[a] /\ attempt'[a] = attempt[a]
  <2>1. CASE \E success \in BOOLEAN : AttemptOver(b, success)
    BY <1>4, <2>1 DEF AttemptOver
  <2>2. CASE Start(b) \/ Attach(b) \/ Wait(b) \/ Ask(b) \/ AskData(b) \/ Kill(b)
    BY <1>4, <2>2 DEF Start, Attach, Wait, Ask, AskData, Kill
  <2>3. CASE AttachFails(b) \/ Detach(b)
    BY <2>1, <2>3 DEF AttachFails, Detach
  <2> QED
    BY <1>4, <2>2, <2>3 DEF AuditStep
<1> QED
  BY <1>1, <1>2, <1>3, <1>4 DEF Next, Signal, TakeSigstop, TakeOther, Die, vars

\* An audit makes at most 21 steps, the second attempts included, whatever the
\* kernel answers and whoever interferes: no retry begins anew, and nothing that
\* others do adds to what is left (seccomp.go:267-287, 330-344, 400-406).
THEOREM AuditsShorten ==
    Spec => [][\A a \in Audits : /\ Remaining(a) \in 0..21
                                 /\ Remaining(a)' <= Remaining(a)
                                 /\ AuditStep(a) => Remaining(a)' < Remaining(a)]_vars
<1>1. HoldInv /\ [Next]_vars =>
        [\A a \in Audits : /\ Remaining(a) \in 0..21
                           /\ Remaining(a)' <= Remaining(a)
                           /\ AuditStep(a) => Remaining(a)' < Remaining(a)]_vars
  <2> SUFFICES ASSUME HoldInv, [Next]_vars, NEW a \in Audits
               PROVE  /\ Remaining(a) \in 0..21
                      /\ Remaining(a)' <= Remaining(a)
                      /\ AuditStep(a) => Remaining(a)' < Remaining(a)
    OBVIOUS
  <2>1. Remaining(a) \in 0..21
    BY RemainingBound
  <2>2. CASE AuditStep(a)
    BY <2>1, <2>2, StepShortens
  <2>3. CASE ~ AuditStep(a)
    BY <2>1, <2>3, OthersLeave
  <2> QED
    BY <2>2, <2>3
<1> QED
  BY <1>1, HoldInvariant, PTL DEF Spec
=============================================================================
