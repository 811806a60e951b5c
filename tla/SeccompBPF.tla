------------------------------ MODULE SeccompBPF ------------------------------
(***************************************************************************)
(* AuditSeccomp of pkg/auditor/seccomp.go: what it makes of the seccomp    *)
(* filters of a process, and analyzeSeccompBPF in particular, which reads  *)
(* the policy of one filter off its program without running it.  The       *)
(* process installs filters meanwhile.  How a program is fetched with      *)
(* ptrace is in SeccompFetch.                                              *)
(*                                                                         *)
(* A program is a sequence of instructions, numbered from 1; jumps are     *)
(* relative and go forward only, as the kernel demands, and every path     *)
(* ends in a return.  The arguments of a call are one word.                *)
(***************************************************************************)
EXTENDS Naturals, Sequences, FiniteSets

CONSTANTS
    Filters,     \* the programs that a process may install, by machine and place
    MaxFilters,  \* bound on how many it installs
    Machines,    \* the GOARCH nspect may be built for
    Arches,      \* the words by which the kernel names architectures
    AuditArch,   \* that of a machine
    Numbers,     \* numbers of system calls, beside those that are looked for
    Args,        \* the values of an argument
    None         \* nothing read

VARIABLES
    machine,  \* GOARCH, and the architecture of the process
    strict,   \* is the process in strict mode?
    stack,    \* its filters, in the order of their installation
    pc,       \* what AuditSeccomp does next
    details,  \* its result so far
    fetched   \* which filter was analyzed, 0 if none

vars == <<machine, strict, stack, pc, details, fetched>>

(***************************************************************************)
(* What the kernel does.                                                   *)
(***************************************************************************)
\* The actions from the strictest on; the last two let the call proceed.
Actions  == <<"KILL_PROCESS", "KILL_THREAD", "TRAP", "ERRNO", "USER_NOTIF", "TRACE", "LOG", "ALLOW">>
Proceeds == {"LOG", "ALLOW"}

Call(nr, arch, arg) == [nr |-> nr, arch |-> arch, arg |-> arg]

\* What the instruction at i returns, if from has what those behind it return for
\* a value of the accumulator.
Execute(ins, i, acc, call, from) ==
    CASE ins.op = "ret" -> ins.action
      [] ins.op = "ld" -> from[i + 1][call[ins.word]]
      [] ins.op = "ja" -> from[i + 1 + ins.k][acc]
      [] ins.op = "jeq" -> from[i + 1 + (IF acc = ins.k THEN ins.jt ELSE ins.jf)][acc]
      [] ins.op = "jge" -> from[i + 1 + (IF acc >= ins.k THEN ins.jt ELSE ins.jf)][acc]

RunFrom(prog, call) ==
    LET from[i \in DOMAIN prog] == [acc \in Nat |-> Execute(prog[i], i, acc, call, from)]
    IN  from

Run(prog, call) == RunFrom(prog, call)[1][0]

\* The strictest of what the filters return.
Effective(filters, call) ==
    LET returned == {Run(filters[i], call) : i \in DOMAIN filters}
    IN  Actions[CHOOSE i \in DOMAIN Actions :
                  /\ Actions[i] \in returned
                  /\ \A j \in 1 .. i - 1 : Actions[j] \notin returned]
-----------------------------------------------------------------------------
(* analyzeSeccompBPF.                                                       *)

\* The numbers of the calls that it looks for.
targetHighRiskSyscalls(arch) ==
    IF arch = "arm64"
    THEN {97, 435, 280, 117, 104, 282, 219, 265, 271, 142, 40, 41, 425, 105, 273, 241, 51, 116}
    ELSE {272, 435, 321, 101, 246, 323, 250, 304, 311, 169, 165, 217, 425, 175, 313, 298, 161, 103}

Rets(prog)       == {i \in DOMAIN prog : prog[i].op = "ret"}
Conditions(prog) == {i \in DOMAIN prog : prog[i].op \in {"jeq", "jge"}}
Loads(prog)      == {i \in DOMAIN prog : prog[i].op = "ld"}

First(S) == CHOOSE i \in S : \A j \in S : i <= j
Last(S)  == CHOOSE i \in S : \A j \in S : j <= i

\* jumpTargets; a branch of length 0 is no jump.
JumpTargets(prog) ==
    {i + 1 + prog[i].k : i \in {j \in DOMAIN prog : prog[j].op = "ja"}}
    \cup {i + 1 + prog[i].jt : i \in {j \in Conditions(prog) : prog[j].jt > 0}}
    \cup {i + 1 + prog[i].jf : i \in {j \in Conditions(prog) : prog[j].jf > 0}}

\* Wrong variant: the last return, whatever leads to it.
Mut_DefaultRet(prog) == prog[Last(Rets(prog))].action

\* The last return that no jump leads to, or else the last return.
DefaultRet(prog) ==
    LET untargeted == Rets(prog) \ JumpTargets(prog)
    IN  prog[Last(IF untargeted # {} THEN untargeted ELSE Rets(prog))].action

\* resolveJumpAction: ten steps at most, along the true branch of a condition.
Steps  == 10
Custom == "Custom Filter Logic"

Follow(ins, i, next) ==
    CASE ins.op = "ret" -> ins.action
      [] ins.op = "ja" -> next[i + 1 + ins.k]
      [] ins.op \in {"jeq", "jge"} -> next[i + 1 + ins.jt]
      [] ins.op = "ld" -> next[i + 1]

ResolveFrom(prog) ==
    LET from[n \in 0 .. Steps] ==
          [i \in Nat \ {0} |->
             IF n = Steps \/ i > Len(prog) THEN Custom ELSE Follow(prog[i], i, from[n + 1])]
    IN  from

ResolveJumpAction(prog, start) == ResolveFrom(prog)[0][start]

\* The first comparison with nr, whatever was loaded, is taken for its rule.
Rules(prog, nr) == {i \in Conditions(prog) : prog[i].op = "jeq" /\ prog[i].k = nr}
RuleOf(prog, nr) == First(Rules(prog, nr))

\* Wrong variant: the branch of the calls that are not meant is followed.
Mut_CheckSyscallInBPF(prog, nr) ==
    IF Rules(prog, nr) = {} THEN [evaluated |-> FALSE, action |-> DefaultRet(prog)]
    ELSE LET i == RuleOf(prog, nr)
         IN  [evaluated |-> TRUE, action |-> ResolveJumpAction(prog, i + 1 + prog[i].jf)]

CheckSyscallInBPF(prog, nr) ==
    IF Rules(prog, nr) = {} THEN [evaluated |-> FALSE, action |-> DefaultRet(prog)]
    ELSE LET i == RuleOf(prog, nr)
         IN  [evaluated |-> TRUE, action |-> ResolveJumpAction(prog, i + 1 + prog[i].jt)]

\* Wrong variant: a call with a rule of its own is taken for blocked.
Mut_Blocked(audited) ==
    {nr \in DOMAIN audited : audited[nr].evaluated \/ audited[nr].action # "ALLOW"}

\* Status: whatever is not known to be allowed counts as blocked.
Blocked(audited) == {nr \in DOMAIN audited : audited[nr].action # "ALLOW"}

PolicyOf(prog) == IF DefaultRet(prog) = "ALLOW" THEN "Default-Allow" ELSE "Default-Deny"

Fingerprint(policy, audited) ==
    CASE policy = "Default-Allow" -> "Blacklist"
      [] policy = "Default-Deny" /\ Cardinality(Blocked(audited)) >= 7 -> "Hardened"
      [] OTHER -> "Whitelist"

\* Wrong variant: the first instruction is passed over.
Mut_LoadsArch(prog) == \E i \in Loads(prog) : i > 1 /\ prog[i].word = "arch"

\* hasArchCheck: that the word is loaded is all that is looked at.
LoadsArch(prog) == \E i \in Loads(prog) : prog[i].word = "arch"

AnalyzeSeccompBPF(prog, arch, result) ==
    LET audited == [nr \in targetHighRiskSyscalls(arch) |-> CheckSyscallInBPF(prog, nr)]
    IN  [result EXCEPT !.policy = PolicyOf(prog),
                       !.fingerprint = Fingerprint(PolicyOf(prog), audited),
                       !.audited = audited,
                       !.archBypassRisk = ~LoadsArch(prog),
                       !.argInspection = \E i \in Loads(prog) : prog[i].word = "arg"]
-----------------------------------------------------------------------------
(* The programs that there are.                                             *)

Instructions ==
    [op : {"ret"}, action : {Actions[i] : i \in DOMAIN Actions}]
    \cup [op : {"ld"}, word : {"nr", "arch", "arg"}]
    \cup [op : {"ja"}, k : Nat]
    \cup [op : {"jeq", "jge"}, k : Nat, jt : Nat, jf : Nat]

Yes(prog, i) == i + 1 + prog[i].jt
No(prog, i)  == i + 1 + prog[i].jf

\* What the kernel demands before it installs a program.
WellFormed(prog) ==
    /\ prog \in Seq(Instructions) /\ prog # <<>>
    /\ prog[Len(prog)].op = "ret"
    /\ \A i \in DOMAIN prog : prog[i].op = "ja" => i + 1 + prog[i].k <= Len(prog)
    /\ \A i \in Conditions(prog) : Yes(prog, i) <= Len(prog) /\ No(prog, i) <= Len(prog)

\* What a condition looks at: the architecture, if it is equality with the word of
\* one, and else what was loaded last.
IsArchTest(prog, i)  == prog[i].op = "jeq" /\ prog[i].k \in Arches
LoadedLast(prog, i)  == prog[Last({j \in Loads(prog) : j < i})].word
Compared(prog, i)    == IF IsArchTest(prog, i) THEN "arch" ELSE LoadedLast(prog, i)
Tests(prog, word)    == {i \in Conditions(prog) : Compared(prog, i) = word}

\* Where the calls of an architecture go: to the branch of the first comparison
\* that they meet, or behind the last.
Entry(prog, arch) ==
    LET tests == Tests(prog, "arch")
        met   == {i \in tests : prog[i].k = arch}
    IN  IF tests = {} THEN 1
        ELSE IF met # {} THEN Yes(prog, First(met)) ELSE No(prog, Last(tests))
Entries(prog) == UNION {{Yes(prog, i), No(prog, i)} : i \in Tests(prog, "arch")}

\* The comparisons of the number that are for the calls of an architecture: those
\* from its entry to the next, unless it is let through or refused right there.
NumberTests(prog, arch) ==
    LET start == Entry(prog, arch)
    IN  {t \in Tests(prog, "nr") :
           start \in Loads(prog) /\ start < t /\ \A e \in Entries(prog) : ~(start < e /\ e <= t)}

\* Are all rules for the calls of one architecture?
OneArch(prog, arch) == NumberTests(prog, arch) = Tests(prog, "nr")

\* Is the program over at i, or one jump later, and with what?
Ends(prog, i) ==
    \/ i \in Rets(prog)
    \/ prog[i].op = "ja" /\ i + 1 + prog[i].k \in Rets(prog)
Outcome(prog, i) == prog[IF prog[i].op = "ja" THEN i + 1 + prog[i].k ELSE i].action

\* Does the branch of i to j go on with the next of the tests, perhaps by loading
\* the number again, and end the program if there is none?
GoesOn(prog, tests, i, j) ==
    LET later == {t \in tests : t > i}
    IN  IF later = {} THEN Ends(prog, j)
        ELSE \/ j = First(later)
             \/ j + 1 = First(later) /\ j \in Loads(prog) /\ prog[j].word = "nr"

\* What is done with the calls of an architecture that no rule is about.
Default(prog, arch) == Outcome(prog, No(prog, Last(NumberTests(prog, arch))))

\* Every condition jumps when it holds and falls through when it does not: the
\* form of a program in which the default is what all the rules fall through to.
FallsThrough(prog) == \A i \in Conditions(prog) : prog[i].jt > 0 /\ prog[i].jf = 0

\* First of all the architecture is compared, with one word or with several, or
\* not at all.  The calls of the machine come to its rules, or to a return.
ChecksArch(prog, m) ==
    /\ 1 \in Loads(prog) /\ prog[1].word \in {"nr", "arch"}
    /\ \A i \in Loads(prog) : prog[i].word = "arch" => i = 1
    /\ prog[1].word = "nr" => Tests(prog, "arch") = {}
    /\ \A i \in Tests(prog, "arch") :
          LET later == {j \in Tests(prog, "arch") : j > i}
          IN  prog[i].op = "jeq" /\ (later # {} => No(prog, i) = First(later))
    /\ LET e == Entry(prog, AuditArch[m])
       IN  e \in Rets(prog) \/ (e \in Loads(prog) /\ prog[e].word = "nr")
    /\ Entries(prog) \subseteq Rets(prog) \cup Loads(prog) \cup Tests(prog, "arch")

NumbersOf(m) == Numbers \cup targetHighRiskSyscalls(m)

\* The rules for the calls of the machine are one behind the other, each for the
\* calls of one number or, behind comparisons that all must hold, for some of
\* them.  A comparison with a number beyond all others is that of x32.
ListsRules(prog, m) ==
    LET tests == NumberTests(prog, AuditArch[m]) IN
    /\ Tests(prog, "nr") # {}
    /\ \A i \in tests :
          /\ GoesOn(prog, tests, i, No(prog, i))
          /\ prog[i].op = "jge" => \A nr \in NumbersOf(m) : nr < prog[i].k
    /\ \A i \in {t \in tests : prog[t].op = "jeq"} \cup Tests(prog, "arg") :
          \/ Ends(prog, Yes(prog, i))
          \/ prog[i].jt = 0 /\ i + 1 \in Loads(prog) /\ prog[i + 1].word = "arg"
    /\ \E arg \in Args : \A i \in Tests(prog, "arg") : prog[i].op = "jeq" /\ prog[i].k = arg

\* Nothing is there that is not reached; arguments are loaded by rules only, and
\* where all rules fall through to a default, none jumps to it.
WithoutWaste(prog, m) ==
    /\ \A i \in Loads(prog) : i + 1 \in Tests(prog, prog[i].word)
    /\ \A i \in Loads(prog) : prog[i].word = "arg" => i - 1 \in Conditions(prog) /\ prog[i - 1].jt = 0
    /\ \A i \in DOMAIN prog : i > 1 /\ prog[i - 1].op \in {"ret", "ja"} => i \in JumpTargets(prog)
    /\ FallsThrough(prog) /\ OneArch(prog, AuditArch[m])
         => No(prog, Last(Tests(prog, "nr"))) \in Rets(prog) \ JumpTargets(prog)

\* What the compilers of rules, such as libseccomp, and the authors of macros
\* write.  Calls have small numbers, architectures large ones.
ASSUME FiltersAssumption ==
    /\ MaxFilters \in Nat \ {0} /\ None \notin {"Strict", "Filter"}
    /\ Numbers \subseteq Nat /\ Args \subseteq Nat /\ Arches \subseteq Nat
    /\ \A m \in Machines :
          /\ AuditArch[m] \in Arches /\ Arches \cap NumbersOf(m) = {}
          /\ \A i \in 1 .. MaxFilters : \A prog \in Filters[m][i] :
                /\ WellFormed(prog) /\ ChecksArch(prog, m)
                /\ ListsRules(prog, m) /\ WithoutWaste(prog, m)
-----------------------------------------------------------------------------
(* AuditSeccomp.                                                            *)

Empty == [nr \in {} |-> None]

NotRead ==
    [mode |-> None, count |-> 0, policy |-> None, fingerprint |-> None, audited |-> Empty,
     archBypassRisk |-> FALSE, argInspection |-> FALSE]

Verdicts == [evaluated : BOOLEAN,
             action : {Actions[i] : i \in DOMAIN Actions} \cup {Custom}]

TypeOK ==
    /\ machine \in Machines
    /\ strict \in BOOLEAN
    /\ Len(stack) <= MaxFilters /\ (strict => stack = <<>>)
    /\ pc \in {"status", "filter", "done"}
    /\ fetched \in 0 .. Len(stack)
    /\ details.mode \in {None, "Disabled", "Strict", "Filter"}
    /\ details.count \in 0 .. MaxFilters
    /\ details.mode \in {"Strict", "Filter"} => details.count >= 1
    /\ details.policy \in {None, "Default-Allow", "Default-Deny"}
    /\ details.fingerprint \in {None, "Strict", "Blacklist", "Hardened", "Whitelist"}
    /\ details.audited \in {Empty} \cup [targetHighRiskSyscalls(machine) -> Verdicts]
    /\ details.archBypassRisk \in BOOLEAN /\ details.argInspection \in BOOLEAN

Init ==
    /\ machine \in Machines
    /\ strict = FALSE
    /\ stack = <<>>
    /\ pc = "status"
    /\ details = NotRead
    /\ fetched = 0

\* The process adds a filter; it can never take one away.
Install ==
    /\ ~strict /\ Len(stack) < MaxFilters
    /\ \E prog \in Filters[machine][Len(stack) + 1] : stack' = Append(stack, prog)
    /\ UNCHANGED <<machine, strict, pc, details, fetched>>

EnterStrict ==
    /\ stack = <<>>
    /\ strict' = TRUE
    /\ UNCHANGED <<machine, stack, pc, details, fetched>>

\* Without Seccomp_filters in the status, before Linux 5.9, one is assumed.
CountedFilters == {Len(stack), 1}

Mut_ReadStatus ==
    /\ pc = "status" /\ ~strict /\ stack # <<>>
    /\ \E count \in {Len(stack), 0} :
          details' = [details EXCEPT !.mode = "Filter", !.count = count]
    /\ pc' = "filter"
    /\ UNCHANGED <<machine, strict, stack, fetched>>

ReadStatus ==
    /\ pc = "status" /\ ~strict /\ stack # <<>>
    /\ \E count \in CountedFilters :
          details' = [details EXCEPT !.mode = "Filter", !.count = count]
    /\ pc' = "filter"
    /\ UNCHANGED <<machine, strict, stack, fetched>>

\* In the other modes there is no program to read, and the audit is over.
ReadStatusOnly ==
    /\ pc = "status" /\ stack = <<>>
    /\ details' =
         IF strict
         THEN [details EXCEPT !.mode = "Strict", !.count = 1, !.policy = "Default-Deny",
                              !.fingerprint = "Strict"]
         ELSE [details EXCEPT !.mode = "Disabled"]
    /\ pc' = "done"
    /\ UNCHANGED <<machine, strict, stack, fetched>>

\* The filter number 0: the newest for ptrace(2), the oldest for Linux.
FetchFilter ==
    /\ pc = "filter"
    /\ \E i \in {1, Len(stack)} :
          /\ details' = AnalyzeSeccompBPF(stack[i], machine, details)
          /\ fetched' = i
    /\ pc' = "done"
    /\ UNCHANGED <<machine, strict, stack>>

\* Without the privileges, or when the process is traced by another.
FetchFilterFails ==
    /\ pc = "filter"
    /\ pc' = "done"
    /\ UNCHANGED <<machine, strict, stack, details, fetched>>

\* The next audit of the process.
Again ==
    /\ pc = "done"
    /\ pc' = "status"
    /\ details' = NotRead
    /\ fetched' = 0
    /\ UNCHANGED <<machine, strict, stack>>

Next ==
    \/ Install
    \/ EnterStrict
    \/ ReadStatus \/ ReadStatusOnly \/ FetchFilter \/ FetchFilterFails
    \/ Again

Spec == Init /\ [][Next]_vars

(***************************************************************************)
(* Properties.                                                             *)
(***************************************************************************)
Native(nr, arg) == Call(nr, AuditArch[machine], arg)

AllNumbers == NumbersOf(machine)

Returns(prog) == {prog[i].action : i \in Rets(prog)}

\* Is the rule that is taken for that of nr one for the calls of the machine?
IsOwnRule(prog, nr) == RuleOf(prog, nr) \in NumberTests(prog, AuditArch[machine])

\* The policy reported for a program whose rules fall through to their default,
\* and are for the calls of the machine only, is what the kernel does with a call
\* that has no rule.  It is not for programs that jump to the default, nor for a
\* default of LOG, which lets calls proceed (seccomp.go:636-683).
PolicyRight ==
    fetched # 0 =>
        LET prog == stack[fetched] IN
        /\ FallsThrough(prog) /\ OneArch(prog, AuditArch[machine])
        /\ "LOG" \notin Returns(prog)
        => \A nr \in {n \in AllNumbers : Rules(prog, n) = {}}, arg \in Args :
              details.policy = "Default-Allow"
                  <=> Run(prog, Native(nr, arg)) \in Proceeds

\* The action reported for a call with a rule is what the program returns for the
\* call with some argument, whatever else the program does with the calls of other
\* architectures; unless what was found first is a rule for those, or a comparison
\* of something else, with the same number, or is beyond ten steps
\* (seccomp.go:727-761).
ReportedActionOccurs ==
    fetched # 0 =>
        LET prog == stack[fetched] IN
        \A nr \in DOMAIN details.audited :
            LET verdict == details.audited[nr] IN
            verdict.evaluated /\ verdict.action # Custom /\ IsOwnRule(prog, nr)
            => \E arg \in Args : Run(prog, Native(nr, arg)) = verdict.action

\* A call reported as blocked is refused by the process's filters together, those
\* installed since included, when the filter looks at no argument and logs
\* nothing, and either has a rule for the call of the machine, or has rules for
\* that only and falls through to its default (seccomp.go:685-712).
BlockedHolds ==
    fetched # 0 =>
        LET prog == stack[fetched] IN
        ~details.argInspection /\ "LOG" \notin Returns(prog) =>
            \A nr \in Blocked(details.audited), arg \in Args :
                (IF details.audited[nr].evaluated THEN IsOwnRule(prog, nr)
                 ELSE FallsThrough(prog) /\ OneArch(prog, AuditArch[machine]))
                => Effective(stack, Native(nr, arg)) \notin Proceeds

\* The bypass that is reported is there: the calls of every other architecture get
\* what the rules say of this machine's calls with the same numbers, which are
\* other calls.  That no bypass is reported says only that the architecture is
\* loaded, not that the calls of another are refused (seccomp.go:611-634).
ArchRiskNamed ==
    fetched # 0 /\ details.archBypassRisk =>
        \A nr \in AllNumbers, arg \in Args, arch \in Arches :
            Run(stack[fetched], Call(nr, arch, arg)) = Run(stack[fetched], Native(nr, arg))
=============================================================================
