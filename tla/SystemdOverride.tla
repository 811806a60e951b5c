--------------------------- MODULE SystemdOverride ---------------------------
(***************************************************************************)
(* The loop between pkg/auditor/systemd.go, which judges the hardening     *)
(* directives of a service from its unit file and drop-ins, and            *)
(* pkg/auditor/remediation.go, which writes a drop-in of its own for those *)
(* judged insecure.  Appliers are the runs of `nspect --apply-override`    *)
(* and the apply-override requests the web console serves, one goroutine   *)
(* each; nothing orders them, and each may be killed between two system    *)
(* calls.  A configuration source maps a directive to what it says of it;  *)
(* the wording of values, the comments and the section header of the file  *)
(* are left out.                                                           *)
(***************************************************************************)
EXTENDS Naturals, FiniteSets

CONSTANTS
    Exact,     \* directives that are secure with one of the listed values only
    Star,      \* directives whose SecureValues is "*"
    Rank,      \* position of a directive in systemdSecurityDirectives
    Appliers   \* the processes and requests that apply an override

Directives == Exact \cup Star

ASSUME OverrideAssumption ==
    /\ IsFiniteSet(Directives)
    /\ Exact \cap Star = {}
    /\ Rank \in [Directives -> Nat]
    /\ \A d, e \in Directives : Rank[d] = Rank[e] => d = e

VARIABLES
    located,  \* does the service have a unit file that can be read?
    base,     \* what the unit file and the drop-ins of others say
    hand,     \* what the override.conf of an administrator says, if any
    file,     \* what override.conf says now
    pc,       \* where each applier is
    plan      \* the directives in the SystemdOverride each applier generated

vars == <<located, base, hand, file, pc, plan>>

\* What is said of a directive: nothing, a listed value, a value that turns
\* it off (no, false, off, 0 or nothing after the "="), a value that repeats
\* "Name=", or several values.
Said == {"unset", "good", "off", "doubled", "several"}
ByHand == Said \ {"doubled"}

Blank == [d \in Directives |-> "unset"]

TypeOK ==
    /\ located \in BOOLEAN
    /\ base \in [Directives -> ByHand]
    /\ hand \in [Directives -> ByHand]
    /\ file \in [Directives -> Said]
    /\ pc \in [Appliers -> {"idle", "planned", "dir", "open", "done", "refused", "error"}]
    /\ plan \in [Appliers -> SUBSET Directives]
    /\ \A a \in Appliers : pc[a] \in {"planned", "dir", "open", "done"} => plan[a] # {}

Init ==
    /\ located \in BOOLEAN
    /\ base \in [Directives -> ByHand]
    /\ hand \in [Directives -> ByHand]
    /\ file = hand
    /\ pc = [a \in Appliers |-> "idle"]
    /\ plan = [a \in Appliers |-> {}]
-----------------------------------------------------------------------------
(* The audit.                                                              *)

\* parseSystemdDirectives: the values of a repeated key are joined by blanks.
Join(v, w) == IF v = "unset" THEN w ELSE IF w = "unset" THEN v ELSE "several"

Parsed(f) == [d \in Directives |-> Join(base[d], f[d])]

\* The verdict: a list of values never matches a listed one, and is neither
\* empty nor one of the words that switch a directive off.
IsSecure(d, v) == IF d \in Star THEN v \in {"good", "doubled", "several"} ELSE v = "good"

\* Wrong variant: every directive is put in the snippet.
Mut_InsecureAll(f) == IF located THEN Directives ELSE {}

\* The directives for which AuditSystemd reports ~IsSecure; without a unit
\* file it reports none at all.
Insecure(f) == IF located THEN {d \in Directives : ~ IsSecure(d, Parsed(f)[d])} ELSE {}
-----------------------------------------------------------------------------
(* The override file.                                                      *)

\* GenerateRemediations writes Name=RecommendedValue, and RecommendedValue
\* already starts with "Name=".
Line == "doubled"

Snippet(S) == [d \in Directives |-> IF d \in S THEN Line ELSE "unset"]

\* The lines an open file has beyond the first n.
Tail(f, n) ==
    {d \in Directives :
        /\ f[d] # "unset"
        /\ Cardinality({e \in Directives : f[e] # "unset" /\ Rank[e] < Rank[d]}) >= n}

\* A write from offset 0 replaces as many lines as it has and leaves the rest.
Overwrite(f, S) ==
    [d \in Directives |->
        Join(Snippet(S)[d], IF d \in Tail(f, Cardinality(S)) THEN f[d] ELSE "unset")]

\* What a write that stops early has written of S.
Prefixes(S) == {{d \in S : Rank[d] < n} : n \in {Rank[d] : d \in S}}
-----------------------------------------------------------------------------
(* An applier.                                                             *)

\* Wrong variant: a snippet of a header alone counts as one.
Mut_AuditHeaderOnly(a) ==
    /\ pc[a] = "idle"
    /\ plan' = [plan EXCEPT ![a] = Insecure(file)]
    /\ pc' = [pc EXCEPT ![a] = "planned"]
    /\ UNCHANGED <<located, base, hand, file>>

\* GenerateReport: audit and snippet.  Without a line there is no snippet.
Audit(a) ==
    /\ pc[a] = "idle"
    /\ plan' = [plan EXCEPT ![a] = Insecure(file)]
    /\ pc' = [pc EXCEPT ![a] = IF Insecure(file) = {} THEN "refused" ELSE "planned"]
    /\ UNCHANGED <<located, base, hand, file>>

\* os.MkdirAll
MakeDir(a) ==
    /\ pc[a] = "planned"
    /\ \E result \in {"dir", "error"} : pc' = [pc EXCEPT ![a] = result]
    /\ UNCHANGED <<located, base, hand, file, plan>>

\* Wrong variant: the file is opened without O_TRUNC.
Mut_OpenKeeps(a) ==
    /\ pc[a] = "dir"
    /\ \E result \in {"open", "error"} : pc' = [pc EXCEPT ![a] = result]
    /\ UNCHANGED <<located, base, hand, file, plan>>

\* os.WriteFile opens the file and truncates it.
Open(a) ==
    /\ pc[a] = "dir"
    /\ \/ pc' = [pc EXCEPT ![a] = "open"] /\ file' = Blank
       \/ pc' = [pc EXCEPT ![a] = "error"] /\ UNCHANGED file
    /\ UNCHANGED <<located, base, hand, plan>>

\* Then writes it, whole or in part.
Write(a) ==
    /\ pc[a] = "open"
    /\ \/ /\ pc' = [pc EXCEPT ![a] = "done"]
          /\ file' = Overwrite(file, plan[a])
       \/ /\ pc' = [pc EXCEPT ![a] = "error"]
          /\ \E S \in Prefixes(plan[a]) : file' = Overwrite(file, S)
    /\ UNCHANGED <<located, base, hand, plan>>

\* The process is killed: what it did to the file stays.
Kill(a) ==
    /\ pc[a] \in {"planned", "dir", "open"}
    /\ pc' = [pc EXCEPT ![a] = "idle"]
    /\ plan' = [plan EXCEPT ![a] = {}]
    /\ UNCHANGED <<located, base, hand, file>>

\* The user has the answer, and may ask again.
Answer(a) ==
    /\ pc[a] \in {"done", "refused", "error"}
    /\ pc' = [pc EXCEPT ![a] = "idle"]
    /\ plan' = [plan EXCEPT ![a] = {}]
    /\ UNCHANGED <<located, base, hand, file>>
-----------------------------------------------------------------------------
Next ==
    \E a \in Appliers :
        \/ Audit(a)
        \/ MakeDir(a)
        \/ Open(a)
        \/ Write(a)
        \/ Kill(a)
        \/ Answer(a)

Spec == Init /\ [][Next]_vars
-----------------------------------------------------------------------------
(* Properties.                                                             *)

\* A directive that the unit itself sets securely, and the administrator's
\* override.conf does not touch, is never judged insecure because of what
\* nspect wrote: a second line of that key would make it so (the values are
\* joined), and no snippet has one, whichever applies overlap or are killed.
UnitSecureStaysSecure ==
    \A d \in Directives :
        IsSecure(d, base[d]) /\ hand[d] = "unset" => IsSecure(d, Parsed(file)[d])

\* "Systemd override successfully written": at the step that ends
\* ApplySystemdOverride without an error, every directive it was asked to
\* write is in the file, and nothing is left of what an administrator had
\* there, although other appliers truncate and write between its own steps.
SuccessMeansWritten ==
    [][\A a \in Appliers :
            pc[a] = "open" /\ pc'[a] = "done" =>
                /\ \A d \in plan[a] : file'[d] # "unset"
                /\ \A d \in Directives : file'[d] \notin {"good", "off"}]_vars

\* "ready-to-use hardened [Service] override snippets": when an override was
\* written, the next audit finds the directives it was written for secure.
AppliedIsSecure ==
    \A a \in Appliers :
        pc[a] = "done" => plan[a] \cap Insecure(file) = {}

\* "Auto-generated drop-in file enforcing ... and resource limits": whenever
\* an override was written over one of nspect's own, MemoryMax and the like
\* are set.
LimitsEnforced ==
    \A a \in Appliers :
        hand = Blank /\ pc[a] = "done" => Star \cap Insecure(file) = {}
=============================================================================
