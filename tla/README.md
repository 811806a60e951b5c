# A verification of nspect

nspect audits the isolation of one Linux process: it reads `/proc`, a few files
below the process's root and its unit file, scores what it finds, and prints a
report, serves a web console or fails a CI job. It keeps no state of its own
from one audit to the next. What is hard about it is that everything it reads
belongs to others and changes while it is read, that several audits run at once
(goroutines behind the isolated-process list, requests to the console, other
nspect commands), and that three of its operations reach outside: it attaches to
the audited process with ptrace, it writes a systemd drop-in, and its console
keeps a page in step with overlapping requests.

Files are named below relative to the repository (`pkg/...` is
`src/pkg/...` in `PROJECT.json`).

## Inventory

| Component | State it keeps | Operations | What is hard, and what must be right |
|---|---|---|---|
| Process tree (`tree.go`) | `allProcs`, `parentMap`, the ancestor chain, for one call | `AuditProcessTree`: scan `/proc`, climb to the root, attach children | The table is of no single moment; parents read at different times must not form a cycle, or the climb and the recursion do not end; the tree must be the target's lineage |
| Isolated scan (`auditor.go`) | result slice, wait group, semaphore channel | `FindIsolatedProcesses` | Goroutines fail one by one, or climb for ever in a process tree; nothing is written to a returned slice; tokens come back; a score belongs to its card's process |
| Report (`report.go`) | one `AuditReport` | `GenerateReport`, `RenderJSON`, `RenderCLI` | Parts are read one after the other, and two of them file by file; some errors end the report, others turn into defaults; integer weights must stay within 0..100 |
| Systemd audit (`systemd.go`) | none | `AuditSystemd`, `parseSystemdDirectives` | Unit file and drop-ins are joined; a value that comes twice no longer matches |
| Remediation (`remediation.go`) | `/etc/systemd/system/<unit>.service.d/override.conf` | `GenerateRemediations`, `ApplySystemdOverride` | The only file nspect writes: applied twice, by two appliers, or killed half-way |
| Seccomp audit (`seccomp.go`) | the ptrace attachment | `AuditSeccomp`, `fetchSeccompFilter`, `fetchSeccompMetadata`, `analyzeSeccompBPF` | The audited process must go on as if nothing had been; BPF jumps are followed for a bounded number of steps, and rules for several architectures share one program |
| Security context, mounts, capabilities, namespaces, filesystem, environment, descriptors, kernel (`security.go`, `mount.go`, `capability.go`, `namespace.go`, `fs.go`, `env.go`, `fd.go`, `kernel.go`) | none | one `Audit...` each | Scores from deductions, weights and caps: ranges, monotonicity, what an unreadable file counts as |
| Network (`net.go`) | none | `AuditNetwork` | parsing only |
| Breakout (`breakout.go`) | none | `AssessBreakoutFeasibility` over four parts of the report | it combines what was read at four moments; giving something up must not make the verdict worse, and what is feasible must have cost a point |
| Command line (`main.go`) | exit status | flags, targets, rendering, `--fail-on-*`, `--apply-override` | a gate must not pass because a part could not be read |
| Console server (`server.go`) | none | HTTP handlers over the audits | each request is a goroutine; handlers share only the file system and the audited processes |
| Console page (`dashboard.go`) | current report, panels shown, last list | JavaScript handlers that await `fetch` | answers come in any order; one number is shown in two places, and they disagree (`score || 100`, line 2427, against line 2653) |
| HTML report (`html.go`) | none | template | formatting only |
| Proc helpers (`pkg/util/proc.go`) | none | path building, small parsers | failures are those of the reads that use them |

How they interact: `GenerateReport` calls every audit in a fixed order on one
PID; `FindIsolatedProcesses` calls `GenerateReport` from its goroutines; command
line and server call both; the page calls the server. `GenerateRemediations`
reads the report's systemd part, `ApplySystemdOverride` writes what the next
`AuditSystemd` reads. That loop, the concurrent reports, the reads against a
moving kernel, the report with the gate on it, the analysis of a seccomp program
and the page with its overlapping requests are modelled here.

## Modules

| Module | Models | Proofs | Instances |
|---|---|---|---|
| `ProcessTree` | `tree.go` with the kernel's process table | `ProcessTreeProofs` | `MCProcessTree` |
| `IsolatedScan` | `auditor.go`, and the reads of `GenerateReport` | `IsolatedScanProofs` | `MCIsolatedScan` |
| `ScanContract` | what a caller of `FindIsolatedProcesses` is promised | `IsolatedScanProofs` | through `IsolatedScan` |
| `SystemdOverride` | the audit / generate / write loop of `systemd.go` and `remediation.go` | `SystemdOverrideProofs` | `MCSystemdOverride` |
| `SeccompFetch` | the ptrace protocol of `seccomp.go` | `SeccompFetchProofs` | `MCSeccompFetch` |
| `SeccompBPF` | the modes and the analysis of a BPF program, against the kernel that runs it | `SeccompBPFProofs` | `MCSeccompBPF` |
| `Scoring` | the scores of `fs.go`, `namespace.go`, `capability.go`, `security.go`, `env.go`, `fd.go`, `systemd.go` | in `ReportProofs` | |
| `Mounts` | `mount.go`: risks, levels, deductions and their limits (EXTENDS `Scoring`) | in `ReportProofs` | |
| `Breakout` | `breakout.go` (EXTENDS `Mounts`) | in `ReportProofs` | |
| `Report` | `GenerateReport` on a changing process, and the assertions of `main.go` (EXTENDS `Breakout`) | `ReportProofs`, `BetweenProofs` | `MCReport` |
| `Overview` | the metrics the console colours from a report (EXTENDS `Report`) | `ReportProofs` | `MCReport` |
| `Dashboard` | the page of `dashboard.go` and the handlers of `server.go` | `DashboardProofs` | `MCDashboard` |

### ProcessTree

State: the kernel's processes (`live`, `ppid`; `born` tells apart successive
processes of one PID and is seen by no condition of the code) and the variables
of one call (`todo`, `procs`/`known` for `allProcs`, `scanned` for the keys that
`parentMap` has as well, `curr`, `chain`, `tree`, `visits`). Actions: `List`
takes the names as `os.ReadDir` does; `ReadEntry` reads one status file, in the
order of the names *as text* (`NameRank`: 10 before 2); `Locate` fetches the
target late; `Climb` is one turn of the ancestor loop with its own late fetch;
`Attach` is `attachChildren` on the root, which reads nothing and is one step.
Between any two of them `Fork` and `Exit` may happen; the orphans go to init or to
a subreaper anywhere above their parent (`Forebears`).

`Children` is the four-way condition at `tree.go:91`. `Calls` are the recursive
calls by depth: its depth is cut at the number of PIDs, which is reached only
when a node is its own descendant, and `VisitedOnce` then fails.

What the tree should hold is said without the code's conditions. `Lineage(n)` is
n with its parents, by every node of `allProcs`, the late ones that `parentMap`
does not know included; `Wanted` are the processes on the chain or with the target
in their lineage. `TreeIsLineage`: the tree is never more than that, and it is all
of that when the target was in the listing, so that no process fetched late has
left anybody out. A target that was forked *after* the listing is fetched late
itself; it, and what is below it, can be missing from its own tree
(`tree.go:43-46`), and the property says so instead of hiding it.

### IsolatedScan and ScanContract

State: the kernel's processes with a generation per PID, the call
(`pc`, `todo`, `named`, `cards`, `score`) and the pool (`tokens` in the
channel, the state of each card's `worker`, the read of `GenerateReport` it is at).
Actions follow the goroutine line by line: `Acquire`, one `ReadPart` for each of
the twelve `Reads`, the process tree (`ReadTree`), `Store`, and `Leave`, which is
the two deferred calls in Go's order. `Reads` are the audits of `GenerateReport` in
its order. Those of capabilities, mounts and security have two each: the file whose
error ends the report (`Required`), and one that stands for all the audit reads
afterwards, whose failures become defaults (`security.go:77, 158`). A score is kept
as *which* processes it was computed from and from which part on it was defaulted
(`gaps`), since the properties are about that and not about a number.

The last audit is `AuditProcessTree` (`report.go:84`), whose climb need not end
(`ProcessTree_ReuseLoop`). `doubt` are the reports under whose reading of the tree
a PID was given out again. Such a goroutine may make its tree like any other, or
go round for ever with its token (`LoopOn`); so may the self-audit of an
unprivileged caller (`LoopSelf`), whose other reads are one step, as it reads the
process that is running it. `ScanReturns` therefore says that a call returns
*or* has a report that climbs for ever; no death in the middle of a report, no
failure and no full channel keeps it.

`ScanContract` has no goroutine: a call selects processes, gives each one
verdict, delivers, and changes nothing afterwards. A verdict may stall for ever,
and then the call never delivers, but the others are settled as long as not every
slot has a stalled report in it. `IsolatedScan!ContractSpec` checks that the pool
implements it, liveness included.

### SystemdOverride

A configuration source maps a directive to what it says: nothing, a listed
value, a value that switches it off, a doubled `Name=Name=...`, or several
values. `Parsed` joins sources as `parseSystemdDirectives` joins a repeated key;
`Insecure` is the verdict; `Snippet` is what `GenerateRemediations` writes.
Appliers (commands and console requests) audit, make the directory, open with
truncation, write, and may fail at each of these or be killed between two. A
write replaces as many *lines* as it has and leaves those beyond, which is what
two writers at offset 0 of one file do when lines are about equally long; a
reader of the audit takes unit file and override in one step.

### SeccompFetch

One process, several audits of it. The process's side (`TakeSigstop`,
`TakeOther`, `Die`) and the answers to ptrace requests are external and follow
ptrace(2). An audit attaches, waits for *a* stop, asks once for the flags or
twice for the filter, detaches; the attempt is repeated once after an error; the
flags come after the filter, as in `AuditSeccomp`. An attach fails when another
traces the process, and for want of permission also when nobody does
(`AttachFails`). `seccomp.go:444` takes the
return value of `PTRACE_SECCOMP_GET_METADATA` for an error number, while Linux
returns how many bytes it copied (`MetadataCopied`): every request for the flags
counts as failed, so that an audit goes through two more attachments and never
reports `SPEC_ALLOW`. Not modelled: several threads
in the target, a target stopped by somebody else or asleep in the kernel for
good, and the `setns` detour, which the kernel refuses to any process of several
threads, a Go program always.

### SeccompBPF

State: the architecture, the filters the process has installed so far, and
`AuditSeccomp`'s position and result. The process may install a filter, or enter
strict mode, before the status is read, between that and the fetch, and after.
`Run` and `Effective` are the kernel: they run a program on a call and take the
strictest answer of all filters. Both `Run` and `ResolveJumpAction` are functions
defined by recursion over the program (`RunFrom`, `ResolveFrom`), in terms of one
instruction (`Execute`, `Follow`). `AnalyzeSeccompBPF` is what the code makes of
the same program without running it: the default is guessed from the last return
that no jump leads to (`DefaultRet`), the rule of a call is the first comparison
with its number (`RuleOf`), and from there the true branches are followed for
ten steps (`ResolveJumpAction`). Which instance of `seccomp_filter` number 0 is,
the newest by ptrace(2) or the oldest by Linux's code, is left open.

A filter may have rules for the calls of several architectures: Docker's default
profile, written by libseccomp, compares the architecture with one word after the
other and has the rules of each behind its comparison; systemd installs one filter
for each architecture that the machine runs. `Arches` are the words, `Entry` is
where the calls of an architecture come out of the comparisons, and `NumberTests`
are the rules they meet there. `OneArch` is a program all of whose rules are for
one architecture.

The four properties say for which programs the analysis agrees with the kernel,
and their conditions are the limits of the analysis. The instance has programs
beyond each of them, which are misread, and each condition is needed: without it
the run fails.

- `OneArch`, `IsOwnRule`: the first comparison with a number (`seccomp.go:729`) may
  be that of another architecture's rule for another call, and its action is then
  reported; the default may be that of the other's rules. This is so of every
  program with rules for two architectures in which the other's come first, and of
  systemd's filters for another architecture.
- `IsOwnRule` again: a comparison of an argument that has the value of a call's
  number (on arm64, AF_VSOCK and `mount` are both 40) is taken for the rule of
  that call.
- `FallsThrough`: a whitelist of libseccomp whose architecture check shares the
  return of the default, or whose comparisons jump to the default when they fail,
  is taken for Default-Allow.
- no `LOG`: it lets the call proceed and counts as blocked.
- no `Custom Filter Logic`: a rule behind six comparisons of arguments is out of the
  ten steps.

`ArchRiskNamed` goes in one direction only. What is flagged is a bypass: the calls
of any other architecture get what the rules say of this one's calls with the same
numbers. That nothing is flagged means that the architecture is *loaded*
(`seccomp.go:613`), and not that no bypass is possible (`seccomp.go:76`, `632`): a
program that loads it and lets the calls of other architectures run to `ALLOW`, as
systemd's do and as macros of the instance do, is not flagged, nor is one without
a check for x32 numbers.

Which programs there are is `FiltersAssumption`. `WellFormed` is what the kernel
demands of every program. The rest is no demand of the kernel but the form that
compilers of rules (libseccomp) and authors of BPF macros give a program:
`ChecksArch`, the architecture is compared first of all, with one word or with
several, each comparison leading to the next when it fails, or never; the calls of
the machine come out of it at rules or at a return. `ListsRules`: where the rules of
the machine's own calls are, comparisons of the number follow one another, each
with the return of its rule behind it, perhaps behind comparisons of an argument;
nothing is said of the rules of other architectures. `WithoutWaste`, no instruction
is unreachable, and where rules fall through to a default, nothing jumps to it. The
programs that the analysis misreads (above) have that form too. Not covered are
programs of another form, such as the search tree that libseccomp writes on request,
and rules that compare arguments with several values or by another comparison than
`jeq`.

### Scoring, Mounts, Breakout

Pure operators. A process is a record of the facts the audits can tell apart in
it (`ProcessesWith`), and each audit is an operator from that record, and from
the parts the code hands over to it, to a record with its score and the marks
other parts or an assertion look at. `peek` is whether the kernel lets nspect
look into the process at all: root directory, namespace links, environment and
descriptors need ptrace access, the other files do not. What a part makes of a
process it cannot look into is modelled, since much of it counts as clean: an
inaccessible root scores 100 and makes the missing `NoNewPrivs` free, an
unreadable link is no shared namespace, an unreadable environment has no secret.
`uid0` is the real UID, `root` the effective one.
`mapped` is a user namespace of its own, `boxed` the same of nspect and PID 1;
the code asks three different questions about these two (of the process or
nspect; of the process or PID 1; of the process alone).

A mount is its class: what the code's chains of conditions distinguish of its
mount point and file system, its modes, the flags it has, and an ID by which two
mounts alike in all that still count twice. `Findings` are the risks, `Deduction`
what they cost per category, `NonEscapeReduction` the two tables of limits.

### Report

State: the audited process as it is and as it was when the report began, whether
it lives, the position in `GenerateReport`, the parts read so far, score and
verdict, and the invocation's flags and exit status. One action per part, in the
code's order, but for two parts that put together what they read at several
moments. `AuditMounts` reads mountinfo, then attr/current and uid_map.
`AuditSecurity` reads status, uid_map, the seccomp filter, attr/current, setgroups,
the name of the namespace's init, the cgroup's limits, the link of the mount
namespace, gid_map and the helpers: ten actions, with `view` for the process as the
audit under way has seen it so far. Capabilities, mounts and security end the report when
their first file is gone (`Fail`), every other file that is gone is taken for what
its absence means (`Seen`). Between any two reads the process may exit, or `Harden`:
lose a capability, a mount, a mode, a file, a descriptor, leave a namespace, get a
profile, a filter or a limit.

`ScoreBetween` and `VerdictBetween` are about a process that only gives things
up: the report must then lie between that of its first and of its last moment.
One exception is stated: a report is `torn` when the process exits between its
status and attr/current, or leaves its mount namespace between its limits and the
link (`security.go:38, 77, 158, 206`). It is then charged with what it never
deserved, up to 50 points of the part, as an unreadable uid_map counts as no user
namespace and an unreadable attr/current as no profile; of these at most 8 reach the
overall score, and `ScoreBetween` allows no more. Three changes are left out of
`Hardened` as the code counts them *against* the process: leaving the mount
namespace without cgroup limits (limits are asked of isolated processes only),
leaving the PID namespace with an init the code does not know, and entering a user
namespace (a mitigated finding on `/proc`, `/sys` or a shared mount costs 10, 10 and
5 there, and 3, 3 and 2 outside).

### Overview

Operators over a report: which of the six metrics of the Overview tab are green
(`IsGreen`, one line for each condition in `populateReport`), and `GreenPasses`,
which compares them with what the assertions of `main.go` refuse. The metric on
identity looks at the real UID (`uid0`), the assertion at the effective one; that
the latter is in the risk metric as well is what makes them agree. The metric on the
kernel is green always, as no report has that part.

### Dashboard

State: the host's processes, the requests the page awaits with the
answers the server has made (an answer is made at one moment and received at a
later one), the panels displayed, the report in them and the process whose
override path is described, the list with the number of its loads under way, and
the override button. Actions of the user are the page's event handlers up to
their `await`; actions named `Show...`, `Render...` and `Finish...` are what
follows it, the catch and finally clauses included; `HandleAudit` and
`HandleApplyOverride` are goroutines of the server. Processes start and exit
between any two of these, and a PID is given out again. A failed request, by its
status or its connection, is received without an answer having been made. An
override whose answer is lost may have been written.


## What the runs check

| Run | Instance | Shows |
|---|---|---|
| `ProcessTree` | PIDs 1, 2, 3, 10, four births, a PID may be used again | types; unless a PID was used again since the audit began, parents are older, the chain has no cycle, a listed target is shown, the tree is within the lineage and, for a listed target, all of it, and the call returns; even then the recursion visits nobody twice |
| `ProcessTree_ReuseLoop` | the same | *violated:* the climb can go round for ever |
| `IsolatedScan` | the caller and two processes, two slots, one PID used twice, both privileges | types; tokens are the reports being made; every score is accounted for; nothing is written after the return; the call returns unless one of its climbs does not end; it implements `ScanContract` |
| `SystemdOverride` | three directives, two appliers | types; what the unit sets securely stays secure; success means that the file has the applier's lines and none of the administrator's |
| `SystemdOverride_Applied` | one applier | *violated:* the written lines are judged insecure |
| `SystemdOverride_Reapply` | one applier | *violated:* the second apply drops the limits |
| `SeccompFetch` | two audits, one unprivileged, two signals | types; traced exactly while inside; no refused detach; left running unless somebody signalled; a lone audit reads the filter; audits end |
| `SeccompFetch_Signalled` | one audit, one signal | *violated:* the process is left stopped and a signal is lost |
| `Report` | one process per flaw, plain, in a user namespace, beside one, and out of reach; seven with many flaws | types and ranges; score and verdict stay between those of the beginning and of the end, but for at most 8 points when the security audit was torn; full marks pass every assertion; what is feasible has cost a point; an overview all green hides only secrets and descriptors |
| `Report_SharedNs` | the same | *violated:* the assertion on shared namespaces passes for a process whose links cannot be read |
| `SeccompBPF` | two machines and a third architecture; programs with rules for the machine's own, for another, or for both architectures, that jump to one return, directly or by `ja`, or have a return each, with and without checks of the architecture and of arguments, one later filter over them | types; for which programs policy, action and blocked calls are reported as the kernel would decide; a bypass that is flagged is one |
| `Dashboard` | init and two processes of one PID, two panels and two lists awaited, one override | types; what tells the user to wait goes away; a user who waits sees one panel, the one asked for; description and override are those of the report displayed; the loading screen ends |

The runs marked *violated* document where the code does something else than the
repository says; `PROJECT.json` quotes the sentence for each.

### Bounds

- `Pids`, `MaxBirths` (ProcessTree): a cycle of parents needs two processes
  beside init, a late fetch needs one more that forks after the listing, and an
  order of names against the order of births needs the pair 2, 10. Four births
  are one more than there are PIDs beside init, so that one is used again;
  `reused` says whether that happened since the audit began, and the properties
  that need fresh PIDs are conditional on it. The chain is kept to at most one
  entry more than there are PIDs: beyond that the loop is in a cycle for good.
- `Pids`, `Slots`, `MaxGen` (IsolatedScan): a PID's second process, so that a
  report can mix two, and up to three cards for two slots, so that one waits.
  The code's 16 slots are covered by the theorem for any number.
- Directives (SystemdOverride): two with listed values and one with `*`, so that
  snippets of different lengths and partial writes differ. Every unit file and
  every hand-made override over them is an initial state.
- `Audits`, `MaxSignals` (SeccompFetch): one audit that holds the process and one
  that is refused, also for want of the capability; one signal before and one
  after the stop.
- `Processes`, `Changes` (Report): one process for each way to lose a point,
  each also as the only process of a user namespace, beside nspect in one, and
  out of nspect's reach, since levels, penalties and limits differ there; a
  process of one flaw changes once, which is giving up the flaw. Seven processes
  with many flaws (a privileged container, a host service, a rock, and variants)
  change twice, so that two parts that are read with each other's results see
  different processes. `Thresholds` are 0 and 100, the only values that
  distinguish more than a comparison of integers does; the sets of flags are
  none, the one the violated run is about, and all.
- `Filters`, `MaxFilters`, `Args` (SeccompBPF): lists of one and two rules, since
  an analysis that looks for the first comparison and the last return needs a
  rule before and one behind; one comparison of an argument, and six, which is
  the first number beyond ten steps; an argument that meets the comparison and
  one that does not; programs for two architectures in both orders, as the first
  comparison with a number is that of the first. The second filter is there to be stricter, or more lenient,
  than the one analyzed, and to be installed in between.
- `MaxAwaited`, `MaxLoads`, `Processes` (Dashboard): overlapping needs two
  panels, and the page itself loads the list twice. A PID that two processes have
  one after the other is what an override can be misdirected by; the theorems
  cover any number of each.

### Deadlock

Checked except for `SeccompFetch`, whose audits are not restarted: when all have
ended and no signal is left to send, the system has stopped as it should. The
page of `Dashboard` can always be clicked on, so that its waiting for answers
shows as the liveness property `LoadingEnds` and not as a deadlock.

### Fairness

- `ProcessTree`: `WF(AuditStep)`. The call is one goroutine that the Go
  scheduler keeps running, and reads of `/proc` return. Kernel steps are free:
  nobody has to fork or exit.
- `IsolatedScan`: `WF(Main)` and `WF(Goroutine(p))` for each card, for the same
  reason. A send on a full channel is not enabled; weak fairness is enough since
  the tokens taken come back and no goroutine sends twice. There is none on
  `LoopOn` and `LoopSelf`: a climb in doubt may end or not. `ScanContract` is fair
  as long as a slot is free of stalled reports.
- `SeccompFetch`: `WF(AuditStep(a))` and `WF(TakeSigstop \/ TakeOther)`: the
  kernel delivers a queued SIGSTOP to a process that runs. Signals and deaths
  are free.
- `Dashboard`: weak fairness of receiving an answer to a panel that is awaited:
  every `fetch` settles, by an answer or by a failed connection, and the browser
  then runs what awaits it. The user, the host and the server are free; a server
  that never answers is a connection that breaks.
- `SystemdOverride`, `Report`, `SeccompBPF`: none, their properties are safety.

## What is proved

TLAPS checks the following for every value of the constants that satisfies the
named assumption of the module.

- `ProcessTree` (`PidsAssumption`). `TypeCorrect`. `ParentsAreOlder` and
  `ChainHasNoCycle`, both conditional on `~ reused` as the properties are.
  *Argument:* `AgeInv` relates the kernel to what was read: a live process's
  parent is older or, having died, was replaced by one that is; until a PID is
  used again its process does not change, so what a node says of its parent's age
  stays true although it was read earlier than the parent's own node. `ChainInv` adds that the chain's elements are strictly ordered by age, each
  older than the one it was reached from, and `curr` older than all of them. The
  property alone is not inductive: it says nothing of the parents that were not
  read yet, nor of the kernel they will be read from.
  `EachVisitedOnce` (`VisitedOnce`), which holds of reused PIDs too: `LoopInv`
  says that the parents of what is on the chain are on it, or next, so that once
  the loop has come round it never leaves; when it does leave, the first of the
  chain is a process whose parent is not known, which is nobody's child, and a
  process on two levels of the recursion would have its parent on two levels
  before (`LevelsDisjoint`). `TargetIsShown` (`TargetShown`): `ListInv` says that
  a living process as old as one that was listed was listed too, so nobody above a
  listed target is fetched late (`ListedInv`), and with `SpineInv` each of the
  chain is a child of the one before it. `TreeHoldsLineage` (`TreeIsLineage`): the
  lineage of a process is the least set that holds it and is closed under the
  parents in `allProcs` (`LineageLeast`; that as many generations as there are PIDs
  suffice is `UpEnds`). Nobody too many: what a child of a wanted process adds is
  wanted (`ChildWanted`, `LevelsWanted`). Nobody too few, if the target was
  listed: by `ListedInv` nobody above it is fetched late, so that all of `allProcs`
  is in `parentMap` too; whoever is wanted on the chain is attached
  (`AncestorAttached`), and so is each child of one attached (`ChildAttached`), on a
  level that is not the last, as the last is empty (`LastLevelEmpty`); below the
  target, the oldest wanted process that is not attached would be such a child
  (`WantedAttached`; lineages grow older, `LineageOlder`).
  No induction rule is needed: where one would be used, the
  proofs look at the least number for which the claim fails (`LeastNumber`).
  `AuditGetsOn`: unless a PID is used again, every step of an audit leaves it fewer
  to make (`Remaining`, at most the names listed and the PIDs there are and four)
  and no step of the kernel leaves it more. It rests on `ClimbLeavesOne`: as the
  chain has no process twice and `curr` is not on it, the loop has room for one more.
- `IsolatedScan` (`ScanAssumption`). `ScanTypeCorrect` and `AuditsBounded`
  (`SemaphoreCount`). *Argument:* `ScanInv` adds to the type invariant that only
  cards of a running call have goroutines and that outside of it there is no
  token; with it each `Acquire` and `Leave` moves one element in or out of
  `Auditing` as it moves one token. `ScoresAreAccountable` and `ResultIsFinal`:
  `ScoreInv` follows a score from the first read of a goroutine, through what
  it holds and has not stored, to the card; a read of another process than
  the card's means that the card's process is gone, and so does a default, which,
  as long as the PID is not given out again, can only begin behind the status
  that the security part needs (`Late`); what is gone stays gone.
  `PoolKeepsContract` is the safety part of the refinement: initial states map to
  initial states and each step to
  one of `ScanContract` or to none. `Mapped` has the value of the mapping for each
  position of the call; a `Store` is the contract's verdict on one process only
  because of `ScoreInv`, an endless climb is its stall (`LoopStep`), and the return
  is only because `WaitDone` has left no goroutine. `PoolGoesOn`: while a goroutine
  has not finished, one can go on, unless the endless climbs are all that is left,
  or hold every slot; for if nobody else were auditing there would be a token
  less than slots. `ScanShortens`: the listing looks at each name once, and a
  goroutine has at most sixteen steps before it has finished or climbs for ever,
  none of which adds to those of another. That a climb ends is not claimed: whether
  it does is `AuditGetsOn`, for a tree under which no PID is used again.
- `SystemdOverride` (`OverrideAssumption`). `OverrideTypeCorrect` and
  `UnitSettingsSurvive` (`UnitSecureStaysSecure`). *Argument:* `OwnInv`: no plan,
  and no file, has a line for a directive that the unit sets securely and the
  administrator left alone. A plan is made from a file, a file from plans, and
  appliers keep plans over the writes of others, so both must be in it.
  `SuccessIsTrue` (`SuccessMeansWritten`): `OpenInv` says that while anybody has
  the file open there is no administrator's line in it, since whoever opened it
  truncated it and all that was written since is appliers' lines; a write that
  comes after another applier's therefore lies over, and leaves beyond it, only
  lines of the same kind (`OverwriteIsOurs`).
- `SeccompFetch` (`FetchAssumption`). `FetchTypeCorrect`, `NeverLeftTraced`
  (`TracedWhileInside`), `DetachNeverRefused` (`DetachWorks`) and
  `LeavesRunning` (`LeftRunningUnsignalled`). *Argument:* `HoldInv`
  says that a living process is traced by exactly the audit that is inside, and
  that this one, once past the wait, holds it in a stop; `QuietInv` adds that,
  as long as nobody has sent one (`sent = 0`), the only signal is the attach's
  own, queued while the audit waits and gone when it has been shown.
  `LoneAuditSucceeds` (`LoneAuditReads`): `LoneInv` says of a privileged audit
  beside which none has begun, and of a process that lives, that it is past its
  first goal, or detaches from it, only with the filter read: with `HoldInv` each
  request it makes is granted, whichever signal stopped the process.
  `WaitedForStopComes`: by `HoldInv` the only tracer is the one that waits, so that
  its SIGSTOP stays queued until it is shown, whatever else is; `AuditsShorten`: an
  audit has at most 21 steps, since a second attempt is made once for each goal.
- `Report` (`ReportAssumption`: processes are records of the type, with finitely
  many mounts and effective capabilities among the permitted; nothing bounds the
  number of changes, mounts or flaws). `ReportTypeCorrect`, `FullMarksPass`
  (`PerfectPasses`) and `BreakoutHasCost` (`FeasibleCosts`). *Argument:* one lemma
  per part (`FilesystemPart` to `MountsPart`) says that its score is within
  0..100 and that it is below 100 whenever a mark is set that an assertion or the
  breakout assessment looks at; that of the mounts goes from one finding of a
  level through its deduction and the limit of its category. `VerdictPart` says
  that a feasible vector needs one of seven capabilities, all of which have a
  price. `ReportInv` says that these facts hold of the parts read so far
  (`Sound`), of which there are as many as the position says (`ReadInv`), and that
  score and verdict are made from them (`SumInv`); the properties alone are not
  inductive as they say nothing before the sum. That a part below 100 keeps the
  weighted sum below 100 after the division is `WeightedScore`; that the process
  stays one the lemmas speak about, whatever is taken from it, is
  `HardenedAuditable`. `GreenOverviewPasses` (`GreenPasses`) takes the same lemmas
  from the other side: each metric that is green leaves no mark that its
  assertions look at, and without an audited capability there is no vector but
  the one of feasibility None.
- `Report` again, in `BetweenProofs`: `ScoreLiesBetween` (`ScoreBetween`) and
  `VerdictLiesBetween` (`VerdictBetween`). *Argument:* `Tamer` orders processes
  (whoever has less, runs more confined or hides more is tamer) and `Milder` orders
  what a part reports. `HardenedTamer`: every change of a process makes it tamer.
  One lemma per audit says that it is monotone in the process and, where it is
  handed them, in the parts before it (`FilesystemMilder` to `MountsMilder`). The
  hard one is the audit of mounts, whose deductions are limited per category, and
  which downgrades findings without CAP_SYS_ADMIN, so that the milder process may
  have *more* findings of a low level. The findings of the tamer process map
  injectively to findings of the other that are at least as severe
  (`FindingsFollow`), so it has at most as many of each level *or worse*
  (`CountsKeep`), and that is enough for the deductions (`DeductionKeeps`).
  Weights and verdict respect `Milder` (`WeightedKeeps`, `VerdictKeeps`). What the
  audit of security puts together is no process that ever was, so `SecurityMilder`
  asks for less than `Tamer`: for what never gets worse by being read later
  (`Steady`, `Fewer`), for user namespace and profile (`Owned`) and for the limits
  with the link (`Limited`). A process that exits loses only the second, one that
  leaves its mount namespace only the third, and with one of the two the part is
  worse by 50 points at most (`SecurityNear`), of which the weights leave 8.
  The invariant, `BetweenInv`, says of each part read so far that it is not worse
  than what the process was in the beginning, or only by those points when `torn`,
  and not better than what it is now; the former only while the process lives, as
  long as a part is to come whose failure ends the report. Of a part under way
  `ViewBetween` says the same of the view: `AccessInv` for mounts, and `SecurityInv`,
  read by read, for security (`LookBetween`, `MixedBetween`, `ReadBetween`,
  `LinkBetween`, `SecurityBetween`).
- `Dashboard` (`DashboardAssumption`, which bounds neither requests nor
  processes). `DashboardTypeCorrect`, `NothingWaitsInVain` (`WaitingIsAwaited`),
  `OnePanelAtATime` (`OnePanelUnlessOverlapped`), `DescriptionIsOfShown`
  (`DescribesShown`) and `OverrideIsForShown` (`OverrideForShown`). *Argument:*
  `HostInv`: no two running processes have one PID, and what has exited does not
  run; `RequestInv`: requests are of their kinds, finitely many, their answers
  about processes of the PID asked for, and an override's PID is that of the
  process it was asked on; `PageInv`: the process whose report is displayed, if
  it has an override, is the one described, also while the panel is hidden;
  `AloneInv`: a panel asked for alone is the only one awaited, and what is awaited
  is what was asked for last. That a new request differs from those in flight, so that the page awaits
  one more than before, is a pigeonhole argument (`FreeIdExists`).
- `SeccompBPF` (`FiltersAssumption`, which bounds neither the length of a program
  nor its rules, and is described above). `BPFTypeCorrect`, `PolicyIsRight`
  (`PolicyRight`), `ReportedActionsOccur` (`ReportedActionOccurs`),
  `BlockedIsRefused` (`BlockedHolds`) and `ArchRiskIsNamed` (`ArchRiskNamed`).
  *Argument:* `BPFInv` says that every filter installed is one of those there are
  (`StackInv`), and that the result is what `AnalyzeSeccompBPF` makes of the one
  fetched, whatever was installed since (`DetailsInv`). The rest is about one program. `RunFrom` and `ResolveFrom` are
  recursive functions, of which nothing can be said before they are shown to
  exist: a table of the program's last instructions is extended by one, and if
  there were an instruction without a table, there would be a last one
  (`RunFromEquation`, `ResolveFromEquation`). `RunSteps` and `ResolveSteps` are
  their equations. `Chain` follows a call through comparisons that it does not meet,
  each of which leads to the next. Through those of the architecture a call of the
  machine comes to its `Entry` (`Enters`), with other architectures' rules behind it
  or before; from there `Arrives` and `Reaches` take it through the numbers: by
  `GoesOn` each comparison leads to the next, loading the number again if at all,
  and the last to the default (`Defaults`). `MeetsRule`
  and `RuleLeads` follow a call that meets a rule, through the comparisons of its
  argument, and at once what `resolveJumpAction` does from the same place, which
  gets to the same return or runs out of steps. With these, `PolicyHolds` remains
  to show that the guess of the default is right where rules fall through
  (`DefaultReturn`): behind the last return that no jump leads to there is nothing,
  and the default is one. `ReportedHolds` and `BlockedAreRefused` need that the
  first comparison with a number, if it is a rule of the machine's own, is the first
  of those that meets it (`FirstRule`), and the
  latter that the strictest answer of all filters is at most as lenient as one
  (`StrictestRefuses`). `RisksAreNamed`: without a load of the architecture two
  calls that differ in it go the same way (`BlindToArch`), in any program the kernel
  accepts. Nothing is claimed of the programs that load it.

Only model-checked are the liveness properties (`ReturnsUnlessReused`,
`ScanReturns`, `AuditsEnd`, `LoadingEnds`, the fairness of `ScanContract`): neither
`ENABLED` nor fairness is within the prover's reach. Of the first three the part
that needs neither is proved: what is left to do shrinks with each step of the one
who does it and grows with nobody's (`AuditGetsOn`, `ScanShortens`,
`AuditsShorten`), and neither the semaphore, but for slots that endless climbs hold,
nor `wait4` can hold everybody up for good (`PoolGoesOn`, `WaitedForStopComes`). What TLC adds is that a step is enabled
and, by fairness, taken. Of `LoadingEnds` it is `NothingWaitsInVain`. Every safety
property of a passing run is a theorem. The properties of the violated runs are false.

## What is not modelled

- Formatting: HTML report, JSON, CLI, ASCII trees; the texts of risks and
  remediations; the fixed Docker, Compose and Kubernetes snippets.
- Reading: the parsing of single files, the listing of directories in the target's
  root, patterns of secrets, link targets of descriptors, network tables, the search for a
  seccomp listener and for seccomp lines in the audit log, the helpers of
  `pkg/util`. Whatever of these can fail is a failure of a read in the modules
  above; what they parse keeps no state.
- `AuditKernel` and the badge the page makes of its score. The ten comparisons of
  `kernel.go` keep no state and depend on nobody. The badge shows `score || 100`
  (`dashboard.go:2427`), which is 100 for a score of 0, where the same page's metric
  (`dashboard.go:2653`) has 0: an expression over one number that no order of events
  changes, listed among the hazards without a property.
- Of the page: the tabs of a report, dialogs and the PDF export, which are layout or a
  library's; the downloads as HTML and JSON, which are the same audit again.
- Packaging, build scripts and workflows.

## Plan

What is left, in this order:

1. `SeccompFetch` with a target of several threads, each with filters of its own.
   The audit attaches to the one whose number is the PID, and reports that one's.
2. The directories of the target's root, which `fs.go` lists one after the other
   while files appear and vanish in them.
