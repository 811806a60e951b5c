---------------------------- MODULE IsolatedScan ----------------------------
(***************************************************************************)
(* FindIsolatedProcesses of pkg/auditor/auditor.go: one call lists the     *)
(* processes outside the namespaces of PID 1, then scores them with one    *)
(* goroutine each, at most 16 at a time behind a buffered channel, and     *)
(* waits for all of them.  A goroutine runs GenerateReport (report.go),    *)
(* which reads /proc many times while the processes may die and their PIDs *)
(* may be given out again.  The generation of a PID tells its successive   *)
(* processes apart.  The report ends with the process tree, whose climb    *)
(* from parent to parent (tree.go:54) need not end when a PID is given out *)
(* again while the table of processes is read: ProcessTree shows how, here *)
(* it is a step such a goroutine may take.                                 *)
(***************************************************************************)
EXTENDS Naturals, Sequences, FiniteSets

CONSTANTS
    Pids,       \* PIDs above 1, the caller's own included
    Self,       \* the caller: os.Getpid()
    Slots,      \* capacity of the semaphore channel (16 in the code)
    MaxGen,     \* bounds on the processes each PID ever stands for
    Privileged  \* may the caller read the namespaces of PID 1?

ASSUME ScanAssumption ==
    /\ IsFiniteSet(Pids)
    /\ Self \in Pids
    /\ Slots \in Nat \ {0}
    /\ MaxGen \in [Pids -> Nat]
    /\ Privileged \subseteq BOOLEAN

VARIABLES
    gen,      \* kernel: how many processes have had this PID
    live,     \* kernel: the PIDs in use
    iso,      \* kernel: the PIDs whose process left a namespace of PID 1
    doubt,    \* history: the reports whose tree met a PID given out again
    priv,     \* can the namespaces of PID 1 be read?
    pc,       \* the call: where FindIsolatedProcesses is
    todo,     \* the call: names in /proc not yet looked at
    named,    \* the call: the PID whose name and command line were just read
    cards,    \* the call: PIDs in isolatedProcesses
    cardGen,  \* the call: the process a card was made for
    score,    \* the call: what the Score field of a card says
    tokens,   \* elements in the semaphore channel
    worker,   \* the state of the goroutine of each card
    part,     \* the read of GenerateReport a goroutine is at
    seen,     \* the processes a goroutine's report has read so far
    gaps      \* the parts of it that fell back to a default

kernel == <<gen, live, iso, doubt>>
call   == <<priv, pc, todo, named, cards, cardGen, score>>
pool   == <<tokens, worker, part, seen, gaps>>
vars   == <<kernel, call, pool>>

\* The reads of GenerateReport before the tree, by the part they belong to.
\* The second one of a part stands for all it reads after the first: a process
\* that dies among them leaves the same defaults in it.
Reads == <<"filesystem", "namespaces",
           "capabilities", "capabilities", \* status; uid_map
           "mounts", "mounts",             \* mountinfo; attr/current, uid_map
           "security", "security",         \* status; uid_map, attr/current, cgroup ...
           "env", "network", "fd", "systemd">>

\* Those whose error makes GenerateReport return it.
Required == {3, 5, 7}

Parts == {Reads[k] : k \in DOMAIN Reads} \cup {"tree"}

\* The initial Score of a card, 100; the score of a finished report is kept
\* as the processes it was computed from and the parts that were defaulted.
Placeholder == [kind |-> "placeholder", of |-> {}, missing |-> {}]

Scores == [kind : {"placeholder", "report"}, of : SUBSET Nat, missing : SUBSET Parts]

TypeOK ==
    /\ gen \in [Pids -> Nat]
    /\ live \in SUBSET Pids
    /\ iso \in SUBSET Pids
    /\ priv \in BOOLEAN
    /\ doubt \in SUBSET Pids
    /\ pc \in {"idle", "list", "wait", "self", "selftree", "selfloops", "scored", "returned"}
    /\ todo \in SUBSET Pids
    /\ named \in SUBSET Pids
    /\ cards \in SUBSET Pids
    /\ cardGen \in [Pids -> Nat]
    /\ score \in [Pids -> Scores]
    /\ tokens \in 0..Slots
    /\ worker \in [Pids -> {"none", "ready", "audit", "tree", "loops", "stored", "finished"}]
    /\ part \in [Pids -> 1..(Len(Reads) + 1)]
    /\ seen \in [Pids -> SUBSET Nat]
    /\ gaps \in [Pids -> SUBSET Parts]

Init ==
    /\ gen = [p \in Pids |-> IF p = Self THEN 1 ELSE 0]
    /\ live = {Self}
    /\ iso \in {{}, {Self}}
    /\ doubt = {}
    /\ priv \in Privileged
    /\ pc = "idle"
    /\ todo = {}
    /\ named = {}
    /\ cards = {}
    /\ cardGen = [p \in Pids |-> 0]
    /\ score = [p \in Pids |-> Placeholder]
    /\ tokens = 0
    /\ worker = [p \in Pids |-> "none"]
    /\ part = [p \in Pids |-> 1]
    /\ seen = [p \in Pids |-> {}]
    /\ gaps = [p \in Pids |-> {}]
-----------------------------------------------------------------------------
(* The kernel.  Namespaces are looked at by the listing only: a process    *)
(* that leaves them later might as well do so before the next call.        *)

\* A process appears, in the namespaces of PID 1 or in others.  Under a PID
\* that was used before, it makes the trees being read doubtful.
Spawn(p) ==
    /\ p \notin live
    /\ gen[p] < MaxGen[p]
    /\ gen' = [gen EXCEPT ![p] = @ + 1]
    /\ live' = live \cup {p}
    /\ iso' \in IF pc \in {"idle", "list"} THEN {iso, iso \cup {p}} ELSE {iso}
    /\ doubt' = IF gen[p] = 0 THEN doubt
                ELSE doubt \cup {q \in Pids : worker[q] = "tree" \/ (q = Self /\ pc = "selftree")}
    /\ UNCHANGED <<call, pool>>

\* A process leaves the namespaces of PID 1 while it runs.
Unshare(p) ==
    /\ pc \in {"idle", "list"}
    /\ p \in live \ iso
    /\ iso' = iso \cup {p}
    /\ UNCHANGED <<gen, live, doubt, call, pool>>

Die(p) ==
    /\ p \in live \ {Self}
    /\ live' = live \ {p}
    /\ iso' = iso \ {p}
    /\ UNCHANGED <<gen, doubt, call, pool>>
-----------------------------------------------------------------------------
(* The call: the listing.                                                  *)

\* PID 1 cannot be read: the caller is the only card.
ListSelf ==
    /\ pc = "idle"
    /\ ~priv
    /\ pc' = "self"
    /\ cards' = {Self}
    /\ cardGen' = [cardGen EXCEPT ![Self] = gen[Self]]
    /\ UNCHANGED <<kernel, priv, todo, named, score, pool>>

\* It audits itself, and lives while it does: the reads of GenerateReport
\* succeed up to the tree.
AuditSelf ==
    /\ pc = "self"
    /\ pc' = "selftree"
    /\ UNCHANGED <<kernel, priv, todo, named, cards, cardGen, score, pool>>

ScoreSelf ==
    /\ pc = "selftree"
    /\ pc' = "scored"
    /\ score' = [score EXCEPT ![Self] = [kind |-> "report", of |-> {gen[Self]}, missing |-> {}]]
    /\ UNCHANGED <<kernel, priv, todo, named, cards, cardGen, pool>>

\* Its parents lead back to one of them: it climbs for ever.
LoopSelf ==
    /\ pc \in {"selftree", "selfloops"}
    /\ Self \in doubt
    /\ pc' = "selfloops"
    /\ UNCHANGED <<kernel, priv, todo, named, cards, cardGen, score, pool>>

\* The one card comes back with ErrPermissionRestricted.
ReturnSelf ==
    /\ pc = "scored"
    /\ pc' = "returned"
    /\ UNCHANGED <<kernel, priv, todo, named, cards, cardGen, score, pool>>

\* os.ReadDir on /proc.
List ==
    /\ pc = "idle"
    /\ priv
    /\ pc' = "list"
    /\ todo' = live
    /\ UNCHANGED <<kernel, priv, named, cards, cardGen, score, pool>>

\* GetProcessName and GetCmdline; no name, no card.
ReadName(p) ==
    /\ pc = "list"
    /\ named = {}
    /\ todo' = todo \ {p}
    /\ IF p \in live
       THEN named' = {p} /\ cardGen' = [cardGen EXCEPT ![p] = gen[p]]
       ELSE UNCHANGED <<named, cardGen>>
    /\ UNCHANGED <<kernel, priv, pc, cards, score, pool>>

\* The five namespace links; an unreadable one does not count as different.
ReadNamespaces(p) ==
    /\ pc = "list"
    /\ named = {p}
    /\ named' = {}
    /\ cards' = IF p \in live \cap iso THEN cards \cup {p} ELSE cards
    /\ UNCHANGED <<kernel, priv, pc, todo, cardGen, score, pool>>

\* One goroutine per card, then wg.Wait.
Launch ==
    /\ pc = "list"
    /\ named = {}
    /\ todo = {}
    /\ pc' = "wait"
    /\ worker' = [p \in Pids |-> IF p \in cards THEN "ready" ELSE "none"]
    /\ UNCHANGED <<kernel, priv, todo, named, cards, cardGen, score, tokens, part, seen, gaps>>
-----------------------------------------------------------------------------
(* The goroutines.                                                         *)

\* Has the PID of a card been given to another process since?
Replaced(p) == gen[p] > cardGen[p]

\* Wrong variant: the send does not wait for a free slot.
Mut_AcquireUnbounded(p) ==
    /\ worker[p] = "ready"
    /\ tokens' = tokens + 1
    /\ worker' = [worker EXCEPT ![p] = "audit"]
    /\ UNCHANGED <<kernel, call, part, seen, gaps>>

\* semaphore <- struct{}{}
Acquire(p) ==
    /\ worker[p] = "ready"
    /\ tokens < Slots
    /\ tokens' = tokens + 1
    /\ worker' = [worker EXCEPT ![p] = "audit"]
    /\ UNCHANGED <<kernel, call, part, seen, gaps>>

\* Wrong variant: an error of a required read is replaced by a default.
Mut_ReadPartTolerant(p) ==
    /\ worker[p] = "audit"
    /\ part[p] <= Len(Reads)
    /\ IF p \in live
       THEN seen' = [seen EXCEPT ![p] = @ \cup {gen[p]}] /\ UNCHANGED gaps
       ELSE gaps' = [gaps EXCEPT ![p] = IF @ = {} THEN {Reads[part[p]]} ELSE @] /\ UNCHANGED seen
    /\ part' = [part EXCEPT ![p] = @ + 1]
    /\ UNCHANGED <<kernel, call, tokens, worker>>

\* Wrong variant: what cannot be read is tried again.
Mut_ReadPartRetries(p) ==
    /\ worker[p] = "audit"
    /\ part[p] <= Len(Reads)
    /\ IF p \in live
       THEN /\ seen' = [seen EXCEPT ![p] = @ \cup {gen[p]}]
            /\ part' = [part EXCEPT ![p] = @ + 1]
       ELSE UNCHANGED <<seen, part>>
    /\ UNCHANGED <<kernel, call, tokens, worker, gaps>>

\* The report of a goroutine is no longer needed.
Drop(p) ==
    /\ part' = [part EXCEPT ![p] = 1]
    /\ seen' = [seen EXCEPT ![p] = {}]
    /\ gaps' = [gaps EXCEPT ![p] = {}]

\* One read of GenerateReport: it succeeds, falls back to a default, or gives
\* the report up and leaves the card as it is.
ReadPart(p) ==
    /\ worker[p] = "audit"
    /\ part[p] <= Len(Reads)
    /\ IF p \in live
       THEN /\ seen' = [seen EXCEPT ![p] = @ \cup {gen[p]}]
            /\ part' = [part EXCEPT ![p] = @ + 1]
            /\ UNCHANGED <<worker, gaps>>
       ELSE IF part[p] \in Required
       THEN /\ worker' = [worker EXCEPT ![p] = "stored"]
            /\ Drop(p)
       ELSE /\ gaps' = [gaps EXCEPT ![p] = IF @ = {} THEN {Reads[part[p]]} ELSE @]
            /\ part' = [part EXCEPT ![p] = @ + 1]
            /\ UNCHANGED <<worker, seen>>
    /\ UNCHANGED <<kernel, call, tokens>>

\* AuditProcessTree begins to read the table of processes.
ReadTree(p) ==
    /\ worker[p] = "audit"
    /\ part[p] > Len(Reads)
    /\ worker' = [worker EXCEPT ![p] = "tree"]
    /\ UNCHANGED <<kernel, call, tokens, part, seen, gaps>>

\* The goroutine climbs for ever, with its token.
LoopOn(p) ==
    /\ worker[p] \in {"tree", "loops"}
    /\ p \in doubt
    /\ worker' = [worker EXCEPT ![p] = "loops"]
    /\ UNCHANGED <<kernel, call, tokens, part, seen, gaps>>

\* The tree is made, or the process was not found in the table and there is
\* none: isolatedProcesses[idx].Score = rep.OverallScore.
Store(p) ==
    /\ worker[p] = "tree"
    /\ \E absent \in IF p \in live /\ ~ Replaced(p) THEN {{}} ELSE {{}, {"tree"}} :
          score' = [score EXCEPT ![p] =
                      [kind |-> "report", of |-> seen[p],
                       missing |-> IF gaps[p] = {} THEN absent ELSE gaps[p]]]
    /\ worker' = [worker EXCEPT ![p] = "stored"]
    /\ Drop(p)
    /\ doubt' = doubt \ {p}
    /\ UNCHANGED <<gen, live, iso, priv, pc, todo, named, cards, cardGen, tokens>>

\* Wrong variant: the token of a failed report is never taken back.
Mut_LeaveOnlyScored(p) ==
    /\ worker[p] = "stored"
    /\ tokens' = IF score[p].kind = "report" THEN tokens - 1 ELSE tokens
    /\ worker' = [worker EXCEPT ![p] = "finished"]
    /\ UNCHANGED <<kernel, call, part, seen, gaps>>

\* What is deferred, in the order in which it runs: the receive from the
\* channel, then wg.Done.
Leave(p) ==
    /\ worker[p] = "stored"
    /\ tokens' = tokens - 1
    /\ worker' = [worker EXCEPT ![p] = "finished"]
    /\ UNCHANGED <<kernel, call, part, seen, gaps>>

\* Wrong variant: wg.Add inside the goroutine, so Wait may find nothing to wait for.
Mut_WaitStartedOnly ==
    /\ pc = "wait"
    /\ \A p \in cards : worker[p] \in {"ready", "finished"}
    /\ pc' = "returned"
    /\ UNCHANGED <<kernel, priv, todo, named, cards, cardGen, score, pool>>

\* wg.Wait returns, and so does the call.
WaitDone ==
    /\ pc = "wait"
    /\ \A p \in cards : worker[p] = "finished"
    /\ pc' = "returned"
    /\ UNCHANGED <<kernel, priv, todo, named, cards, cardGen, score, pool>>

\* The caller takes the result; the next call has its own variables.
Forget ==
    /\ pc = "returned"
    /\ pc' = "idle"
    /\ cards' = {}
    /\ cardGen' = [p \in Pids |-> 0]
    /\ score' = [p \in Pids |-> Placeholder]
    /\ tokens' = 0
    /\ worker' = [p \in Pids |-> "none"]
    /\ part' = [p \in Pids |-> 1]
    /\ seen' = [p \in Pids |-> {}]
    /\ gaps' = [p \in Pids |-> {}]
    /\ doubt' = {}
    /\ UNCHANGED <<gen, live, iso, priv, todo, named>>
-----------------------------------------------------------------------------
Goroutine(p) ==
    \/ Acquire(p)
    \/ ReadPart(p)
    \/ ReadTree(p)
    \/ Store(p)
    \/ Leave(p)

Main ==
    \/ \E p \in todo : ReadName(p)
    \/ \E p \in named : ReadNamespaces(p)
    \/ Launch
    \/ WaitDone
    \/ AuditSelf
    \/ ScoreSelf
    \/ ReturnSelf

Next ==
    \/ \E p \in Pids : Spawn(p) \/ Unshare(p) \/ Die(p)
    \/ ListSelf
    \/ List
    \/ Main
    \/ LoopSelf
    \/ \E p \in Pids : Goroutine(p) \/ LoopOn(p)
    \/ Forget

\* Goroutines that can run are run; reads of /proc return.  A doubtful tree
\* may be made or never be.
Spec ==
    /\ Init
    /\ [][Next]_vars
    /\ WF_vars(Main)
    /\ \A p \in Pids : WF_vars(Goroutine(p))
-----------------------------------------------------------------------------
(* Properties.                                                             *)

Auditing == {p \in Pids : worker[p] \in {"audit", "tree", "loops", "stored"}}

\* The channel holds one token for each goroutine between its send and its
\* receive, whatever way its report ended, so never more than Slots reports
\* are being made and a failed one leaves no token behind.
SemaphoreCount == tokens = Cardinality(Auditing) /\ tokens <= Slots

\* When the call returns every card can be accounted for.  A score was
\* computed from the very process the card names.  What it was computed without
\* are parts that a process which died after its status was read for the
\* security part (security.go:38) did not live to give, the rest of that part
\* included; a placeholder says that the process is dead.  Only where the PID
\* was given out again in between can a score be of that later process, or of
\* both.
ScoresAccountable ==
    pc = "returned" =>
        \A p \in cards :
            \/ /\ score[p].kind = "report"
               /\ score[p].of # {}
               /\ score[p].of \subseteq cardGen[p]..gen[p]
               /\ ~ Replaced(p) => score[p].missing \subseteq {"security", "env", "network", "fd", "systemd", "tree"}
               /\ score[p].missing # {} => p \notin live \/ Replaced(p)
            \/ score[p] = Placeholder /\ (p \notin live \/ Replaced(p))

\* What the call returned is no longer written to: no goroutine outlives
\* the wait that should have covered it.
NoLateScore == [][pc = "returned" => score' = score \/ pc' = "idle"]_vars

\* Does a report of the call climb for ever?
Looping == pc = "selfloops" \/ \E p \in Pids : worker[p] = "loops"

\* A call that was made returns, also when processes die under the audit, or
\* one of its reports climbs for ever: nothing else keeps it.
ScanReturns == pc \in {"list", "self"} ~> pc = "returned" \/ Looping

\* The worker pool gives the promise of the contract.
Contract == INSTANCE ScanContract WITH
    phase   <- CASE pc \in {"idle", "list"} -> "idle"
                 [] pc \in {"wait", "self", "selftree", "selfloops", "scored"} -> "open"
                 [] pc = "returned" -> "returned",
    verdict <- [p \in Pids |->
                  CASE p \notin cards \/ pc \in {"idle", "list"} -> "none"
                    [] p \in cards /\ score[p].kind = "report" -> "score"
                    [] p \in cards /\ score[p] = Placeholder /\ worker[p] \in {"stored", "finished"} -> "placeholder"
                    [] p \in cards /\ score[p] = Placeholder /\ (worker[p] = "loops" \/ pc = "selfloops") -> "stalled"
                    [] OTHER -> "open"]
ContractSpec == Contract!Spec
=============================================================================
