----------------------------- MODULE SeccompFetch -----------------------------
(***************************************************************************)
(* How AuditSeccomp of pkg/auditor/seccomp.go takes the seccomp filter and *)
(* its flags from a process: it attaches with ptrace, waits for the stop,  *)
(* asks, and detaches; a failed attempt is made once more.  Several audits *)
(* of one process may run at once, in goroutines of the web console or in  *)
(* commands of their own, and the process gets signals from others.        *)
(*                                                                         *)
(* The kernel's side is external and follows ptrace(2): an attach queues a *)
(* SIGSTOP, a stop shows one signal to the tracer, a detach with data 0    *)
(* throws that signal away, the death of the tracer delivers it.  The      *)
(* process is not put in a stopped state by anybody else and is not in an  *)
(* uninterruptible sleep for good.  setns(2) is left out: it refuses a     *)
(* process of several threads, which every Go program is, and its result   *)
(* is not looked at.  What the filter says is left out as well.            *)
(***************************************************************************)
EXTENDS Naturals

CONSTANTS
    Audits,      \* concurrent calls of AuditSeccomp for one process
    Nobody,      \* stands for no tracer
    Privileged,  \* the audits that may read filters (CAP_SYS_ADMIN)
    MaxSignals   \* bound on the signals others send to the process

ASSUME FetchAssumption ==
    /\ Nobody \notin Audits
    /\ Privileged \subseteq Audits
    /\ MaxSignals \in Nat

VARIABLES
    mode,      \* process: "run", "trap" (shown to the tracer), "stopped", "dead"
    shown,     \* process: the signal shown: "SIGSTOP", "other"; "group": none
    tracer,    \* process: the audit that is attached
    sigstop,   \* process: is a SIGSTOP queued?
    queued,    \* process: is another signal queued?
    sent,      \* process: how many of those were sent
    lost,      \* process: was one of those thrown away?
    filtered,  \* process: is "Seccomp: 2" in its status?
    pc,        \* audit: where it is
    goal,      \* audit: what it is fetching
    attempt,   \* audit: 1, or 2 after a failed attempt
    ok,        \* audit: does the current attempt end without an error?
    read       \* audit: what it has fetched

process == <<mode, shown, tracer, sigstop, queued, sent, lost, filtered>>
audit   == <<pc, goal, attempt, ok, read>>
vars    == <<process, audit>>

\* Where an audit has attached and not yet detached.
Inside == {"wait", "len", "data", "detach"}

TypeOK ==
    /\ mode \in {"run", "trap", "stopped", "dead"}
    /\ shown \in {"SIGSTOP", "other", "group"}
    /\ tracer \in Audits \cup {Nobody}
    /\ sigstop \in BOOLEAN
    /\ queued \in BOOLEAN
    /\ sent \in 0..MaxSignals
    /\ lost \in BOOLEAN
    /\ filtered \in BOOLEAN
    /\ pc \in [Audits -> Inside \cup {"start", "attach", "done", "killed"}]
    /\ goal \in [Audits -> {"filter", "flags"}]
    /\ attempt \in [Audits -> 1..2]
    /\ ok \in [Audits -> BOOLEAN]
    /\ read \in [Audits -> SUBSET {"filter", "flags"}]

Init ==
    /\ mode = "run"
    /\ shown = "group"
    /\ tracer = Nobody
    /\ sigstop = FALSE
    /\ queued = FALSE
    /\ sent = 0
    /\ lost = FALSE
    /\ filtered \in BOOLEAN
    /\ pc = [a \in Audits |-> "start"]
    /\ goal = [a \in Audits |-> "filter"]
    /\ attempt = [a \in Audits |-> 1]
    /\ ok = [a \in Audits |-> FALSE]
    /\ read = [a \in Audits |-> {}]
-----------------------------------------------------------------------------
(* The process and those who signal it.                                     *)

Signal ==
    /\ mode # "dead"
    /\ sent < MaxSignals
    /\ ~ queued
    /\ queued' = TRUE
    /\ sent' = sent + 1
    /\ UNCHANGED <<mode, shown, tracer, sigstop, lost, filtered, audit>>

\* A traced process shows its next signal to the tracer; any other takes it.
Take(signal) ==
    IF tracer # Nobody
    THEN mode' = "trap" /\ shown' = signal
    ELSE /\ mode' = IF signal = "SIGSTOP" THEN "stopped" ELSE "run"
         /\ UNCHANGED shown

TakeSigstop ==
    /\ mode = "run"
    /\ sigstop
    /\ sigstop' = FALSE
    /\ Take("SIGSTOP")
    /\ UNCHANGED <<tracer, queued, sent, lost, filtered, audit>>

TakeOther ==
    /\ mode = "run"
    /\ queued
    /\ queued' = FALSE
    /\ Take("other")
    /\ UNCHANGED <<tracer, sigstop, sent, lost, filtered, audit>>

\* SIGKILL reaches it in any state.
Die ==
    /\ mode # "dead"
    /\ mode' = "dead"
    /\ tracer' = Nobody
    /\ UNCHANGED <<shown, sigstop, queued, sent, lost, filtered, audit>>
-----------------------------------------------------------------------------
(* An audit.                                                                *)

\* A process without a filter of its own is not traced.
Start(a) ==
    /\ pc[a] = "start"
    /\ pc' = [pc EXCEPT ![a] = IF filtered THEN "attach" ELSE "done"]
    /\ UNCHANGED <<process, goal, attempt, ok, read>>

\* Wrong variant: one attempt too many.
Mut_AttemptOverThrice(a, success) ==
    /\ read' = IF success THEN [read EXCEPT ![a] = @ \cup {goal[a]}] ELSE read
    /\ IF ~ success /\ attempt[a] <= 2
       THEN /\ attempt' = [attempt EXCEPT ![a] = @ + 1]
            /\ pc' = [pc EXCEPT ![a] = "attach"]
            /\ UNCHANGED goal
       ELSE /\ attempt' = [attempt EXCEPT ![a] = 1]
            /\ goal' = [goal EXCEPT ![a] = "flags"]
            /\ pc' = [pc EXCEPT ![a] = IF goal[a] = "filter" THEN "attach" ELSE "done"]

\* Wrong variant: it is made again until it succeeds.
Mut_AttemptOverForever(a, success) ==
    /\ UNCHANGED attempt
    /\ IF success
       THEN /\ read' = [read EXCEPT ![a] = @ \cup {goal[a]}]
            /\ goal' = [goal EXCEPT ![a] = "flags"]
            /\ pc' = [pc EXCEPT ![a] = IF goal[a] = "filter" THEN "attach" ELSE "done"]
       ELSE /\ pc' = [pc EXCEPT ![a] = "attach"]
            /\ UNCHANGED <<goal, read>>

\* The attempt is over: fetchSeccompFilter and fetchSeccompMetadata make a
\* second one after an error; after the filter come the flags.
AttemptOver(a, success) ==
    /\ read' = IF success THEN [read EXCEPT ![a] = @ \cup {goal[a]}] ELSE read
    /\ IF ~ success /\ attempt[a] = 1
       THEN /\ attempt' = [attempt EXCEPT ![a] = 2]
            /\ pc' = [pc EXCEPT ![a] = "attach"]
            /\ UNCHANGED goal
       ELSE /\ attempt' = [attempt EXCEPT ![a] = 1]
            /\ goal' = [goal EXCEPT ![a] = "flags"]
            /\ pc' = [pc EXCEPT ![a] = IF goal[a] = "filter" THEN "attach" ELSE "done"]

\* PTRACE_ATTACH: one tracer at a time.  A stopped process is shown at once.
Attach(a) ==
    /\ pc[a] = "attach"
    /\ mode # "dead"
    /\ tracer = Nobody
    /\ tracer' = a
    /\ sigstop' = TRUE
    /\ mode' = IF mode = "stopped" THEN "trap" ELSE mode
    /\ shown' = "group"
    /\ pc' = [pc EXCEPT ![a] = "wait"]
    /\ UNCHANGED <<queued, sent, lost, filtered, goal, attempt, ok, read>>

\* EPERM for a process that is traced or that the caller may not trace, ESRCH
\* for one that is gone.  A second attempt enters the process's user namespace
\* first, which may give an unprivileged caller the right.
AttachFails(a) ==
    /\ pc[a] = "attach"
    /\ mode = "dead" \/ tracer # Nobody \/ a \notin Privileged
    /\ AttemptOver(a, FALSE)
    /\ UNCHANGED <<process, ok>>

\* Wrong variant: the process is asked before it has stopped.
Mut_WaitNot(a) ==
    /\ pc[a] = "wait"
    /\ pc' = [pc EXCEPT ![a] = "len"]
    /\ UNCHANGED <<process, goal, attempt, ok, read>>

\* wait4 returns the stop, whatever its signal, or the end of the process.
Wait(a) ==
    /\ pc[a] = "wait"
    /\ mode \in {"trap", "dead"}
    /\ pc' = [pc EXCEPT ![a] = "len"]
    /\ UNCHANGED <<process, goal, attempt, ok, read>>

\* The kernel answers its tracer, about a process that is shown to it.
Answered(a) == a \in Privileged /\ tracer = a /\ mode = "trap"

\* What PTRACE_SECCOMP_GET_METADATA then returns: the bytes it has copied.
MetadataCopied == 16

\* Wrong variant: an error returns at once, nothing detaches.
Mut_AskLeavesAttached(a) ==
    /\ pc[a] = "len"
    /\ IF Answered(a)
       THEN /\ pc' = [pc EXCEPT ![a] = IF goal[a] = "filter" THEN "data" ELSE "detach"]
            /\ ok' = [ok EXCEPT ![a] = goal[a] = "flags" /\ MetadataCopied = 0]
            /\ UNCHANGED <<process, goal, attempt, read>>
       ELSE AttemptOver(a, FALSE) /\ UNCHANGED <<process, ok>>

\* The length of the filter; or the flags, whose answer is not used unless
\* the kernel returned 0.
Ask(a) ==
    /\ pc[a] = "len"
    /\ pc' = [pc EXCEPT ![a] = IF Answered(a) /\ goal[a] = "filter" THEN "data" ELSE "detach"]
    /\ ok' = [ok EXCEPT ![a] = Answered(a) /\ goal[a] = "flags" /\ MetadataCopied = 0]
    /\ UNCHANGED <<process, goal, attempt, read>>

\* The instructions.
AskData(a) ==
    /\ pc[a] = "data"
    /\ pc' = [pc EXCEPT ![a] = "detach"]
    /\ ok' = [ok EXCEPT ![a] = Answered(a)]
    /\ UNCHANGED <<process, goal, attempt, read>>

\* Wrong variant: the detach passes on a SIGSTOP.
Mut_DetachStops(a) ==
    /\ pc[a] = "detach"
    /\ IF tracer = a /\ mode = "trap"
       THEN mode' = "stopped" /\ tracer' = Nobody
       ELSE UNCHANGED <<mode, tracer>>
    /\ AttemptOver(a, ok[a])
    /\ UNCHANGED <<shown, sigstop, queued, sent, lost, filtered, ok>>

\* The deferred PTRACE_DETACH, with no signal to pass on; it fails unless
\* the process is stopped for its tracer.
Detach(a) ==
    /\ pc[a] = "detach"
    /\ IF tracer = a /\ mode = "trap"
       THEN /\ mode' = IF shown = "group" THEN "stopped" ELSE "run"
            /\ lost' = (lost \/ shown = "other")
            /\ tracer' = Nobody
       ELSE UNCHANGED <<mode, lost, tracer>>
    /\ AttemptOver(a, ok[a])
    /\ UNCHANGED <<shown, sigstop, queued, sent, filtered, ok>>

\* nspect is killed: the kernel detaches it and delivers the signal shown.
Kill(a) ==
    /\ pc[a] \in Inside \cup {"attach"}
    /\ pc' = [pc EXCEPT ![a] = "killed"]
    /\ IF tracer = a
       THEN /\ tracer' = Nobody
            /\ mode' = IF mode = "trap" /\ shown # "other" THEN "stopped"
                       ELSE IF mode = "trap" THEN "run" ELSE mode
       ELSE UNCHANGED <<mode, tracer>>
    /\ UNCHANGED <<shown, sigstop, queued, sent, lost, filtered, goal, attempt, ok, read>>
-----------------------------------------------------------------------------
AuditStep(a) ==
    \/ Start(a)
    \/ Attach(a)
    \/ AttachFails(a)
    \/ Wait(a)
    \/ Ask(a)
    \/ AskData(a)
    \/ Detach(a)

Next ==
    \/ Signal
    \/ TakeSigstop
    \/ TakeOther
    \/ Die
    \/ \E a \in Audits : AuditStep(a) \/ Kill(a)

\* Audits run on, and the kernel stops a process that is running.
Spec ==
    /\ Init
    /\ [][Next]_vars
    /\ \A a \in Audits : WF_vars(AuditStep(a))
    /\ WF_vars(TakeSigstop \/ TakeOther)
-----------------------------------------------------------------------------
(* Properties.                                                              *)

\* A process that lives is traced by an audit exactly while that audit is
\* between its attach and its detach, also when a call in between failed:
\* none leaves it traced, and none believes it is when it is not.
TracedWhileInside ==
    mode # "dead" => \A a \in Audits : tracer = a <=> pc[a] \in Inside

\* A detach is not refused: it finds the process stopped for it, or gone.
DetachWorks ==
    \A a \in Audits : pc[a] = "detach" => mode = "dead" \/ (tracer = a /\ mode = "trap")

\* The audits that ended by themselves leave the process running, with no
\* signal of theirs on the way to it and none of the others' kept from it:
\* "fetchSeccompFilter uses ptrace(PTRACE_SECCOMP_GET_FILTER) to safely
\* extract BPF instructions".
LeftRunning ==
    (\A a \in Audits : pc[a] \in {"start", "done"}) =>
        \/ mode = "dead"
        \/ mode = "run" /\ ~ sigstop /\ ~ lost

\* They do, however they overlap and fail, unless somebody else has signalled
\* the process.
LeftRunningUnsignalled == sent = 0 => LeftRunning

\* A privileged audit that nobody else's overlaps reads the filter of a
\* filtered process that lives, whatever signals the process gets.  (It never
\* reads the flags: see MetadataCopied.)
LoneAuditReads ==
    \A a \in Privileged :
        /\ pc[a] = "done"
        /\ \A b \in Audits \ {a} : pc[b] = "start"
        /\ filtered
        => mode = "dead" \/ "filter" \in read[a]

\* Every audit ends, be it with an error: the stop it waits for comes.
AuditsEnd == \A a \in Audits : <>(pc[a] \in {"done", "killed"})
=============================================================================
