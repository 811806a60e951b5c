------------------------------ MODULE Dashboard ------------------------------
(***************************************************************************)
(* The web console: the page of pkg/server/dashboard.go in one browser and *)
(* the handlers of pkg/server/server.go behind it.  The page is one thread *)
(* whose functions await the server; between the request and the answer    *)
(* the user goes on clicking, and answers come in any order.  On the host  *)
(* processes exit, and their PIDs are given to others.                     *)
(*                                                                         *)
(* The panels, the process list and the button that applies an override    *)
(* are modelled; tabs, dialogs and the texts of a report are layout.  An   *)
(* answer is the process that was audited, or whose override was written.  *)
(* How a report is made is in Report.                                      *)
(***************************************************************************)
EXTENDS Naturals, FiniteSets

CONSTANTS
    Processes,   \* processes that run at some time on the host
    PidOf,       \* their PIDs: two processes may have one, one after the other
    HostInit,    \* PID 1, which does not exit
    Initial,     \* those that run when the page is opened
    Isolated,    \* those that FindIsolatedProcesses lists
    Improvable,  \* those for which GenerateRemediations has a systemd override
    None,        \* no process
    MaxAwaited,  \* bound on the panels awaited at one time
    MaxLoads     \* bound on the loads of the process list awaited at one time

ASSUME DashboardAssumption ==
    /\ None \notin Processes
    /\ Initial \subseteq Processes /\ HostInit \in Initial
    /\ \A p, q \in Initial : PidOf[p] = PidOf[q] => p = q
    /\ Isolated \subseteq Processes
    /\ Improvable \subseteq Processes
    /\ DOMAIN PidOf = Processes
    /\ MaxAwaited \in Nat
    /\ MaxLoads \in Nat /\ MaxLoads >= 2

VARIABLES
    alive,       \* host: the processes that run
    gone,        \* host: the processes that have exited
    written,     \* host: for which process an override was written last, and which was shown
    requests,    \* fetches of panels and overrides that the page awaits
    loads,       \* how many loads of the list it awaits
    last,        \* the panel asked for last
    overlapped,  \* was it asked for while another panel was still awaited?
    shown,       \* page: the panels that are displayed
    current,     \* page: currentReportData, the report in the report panel
    described,   \* page: the process whose override path the report panel names
    raw,         \* page: rawContainersList
    listView,    \* page: what the list element holds
    busy         \* page: is the button that applies the override disabled?

host    == <<alive, gone, written>>
asking  == <<last, overlapped>>
panels  == <<shown, current, described>>
list    == <<loads, raw, listView>>
vars    == <<host, requests, asking, panels, list, busy>>

Pids       == {PidOf[p] : p \in Processes}
PanelKinds == {"audit", "tree", "kernel"}
PanelOf    == [audit |-> "report", tree |-> "tree", kernel |-> "kernel"]

\* A request the server has not answered.
NoAnswer == {None}

Request(id, kind, pid, on) ==
    [id |-> id, kind |-> kind, pid |-> pid, on |-> on, answer |-> NoAnswer]

\* A panel is awaited from the fetch to the end of runAudit and its like.
Awaited   == {r \in requests : r.kind \in PanelKinds}
Overrides == {r \in requests : r.kind = "override"}

\* What tells apart equal requests.
Ids == 1 .. MaxAwaited

Requests ==
    [id : Ids \cup {0}, kind : PanelKinds \cup {"override"},
     pid : Pids \cup {None}, on : Processes \cup {None},
     answer : (SUBSET Processes) \cup {NoAnswer}]

TypeOK ==
    /\ alive \subseteq Processes
    /\ gone \subseteq Processes
    /\ written \in [process : Processes \cup {None}, shown : Processes \cup {None}]
    /\ requests \subseteq Requests
    /\ loads \in 0 .. MaxLoads
    /\ last \in [kind : PanelKinds \cup {None}, pid : Pids \cup {None}]
    /\ overlapped \in BOOLEAN
    /\ shown \subseteq {"welcome", "report", "tree", "kernel", "error", "loading"}
    /\ current \in Processes \cup {None}
    /\ described \in Processes \cup {None}
    /\ raw \in SUBSET Processes
    /\ listView \in {"loading", "failed", "rows"}
    /\ busy \in BOOLEAN
-----------------------------------------------------------------------------
(* The host.                                                                *)

\* A process starts under a PID that is free; it runs once.
Start(p) ==
    /\ p \notin alive \cup gone
    /\ \A q \in alive : PidOf[q] # PidOf[p]
    /\ alive' = alive \cup {p}
    /\ UNCHANGED <<gone, written, requests, asking, panels, list, busy>>

Exit(p) ==
    /\ p \in alive \ {HostInit}
    /\ alive' = alive \ {p}
    /\ gone' = gone \cup {p}
    /\ UNCHANGED <<written, requests, asking, panels, list, busy>>
-----------------------------------------------------------------------------
(* The server: a handler for each kind of request, in a goroutine of its    *)
(* own and without a state between requests.  An answer that says something *)
(* about processes is made at one moment and received at a later one.       *)

Answer(r, result) ==
    /\ r \in requests /\ r.answer = NoAnswer
    /\ requests' = (requests \ {r}) \cup {[r EXCEPT !.answer = result]}
    /\ UNCHANGED <<alive, gone, asking, panels, list, busy>>

\* handleAudit without an action; whoever has the PID is audited.
HandleAudit(r) ==
    /\ r.kind = "audit"
    /\ \E p \in alive : PidOf[p] = r.pid /\ Answer(r, {p})
    /\ UNCHANGED written

\* handleAudit with apply-override: whoever has the PID now is audited again,
\* and its override is written, if there is one.
HandleApplyOverride(r) ==
    /\ r.kind = "override"
    /\ \E p \in alive \cap Improvable :
          /\ PidOf[p] = r.pid
          /\ Answer(r, {p})
          /\ written' = [process |-> p, shown |-> r.on]

Handle(r) == HandleAudit(r) \/ HandleApplyOverride(r)
-----------------------------------------------------------------------------
(* The page: its panels.                                                    *)

\* Wrong variant: the kernel's panel is forgotten.
Mut_ShowLoadingKeepsKernel == shown' = {"loading"} \cup (shown \cap {"kernel"})

\* Every panel is hidden, the loading screen is shown.
ShowLoading == shown' = {"loading"}

FreeId(kind, pid) ==
    CHOOSE id \in Ids : \A r \in Awaited : r.kind = kind /\ r.pid = pid => r.id # id

Ask(kind, pid) ==
    /\ Cardinality(Awaited) < MaxAwaited
    /\ requests' = requests \cup {Request(FreeId(kind, pid), kind, pid, None)}
    /\ last' = [kind |-> kind, pid |-> pid]
    /\ overlapped' = (Awaited # {})
    /\ ShowLoading
    /\ UNCHANGED <<host, current, described, list, busy>>

\* runAudit from an item of the list, or from the form.
ClickItem(p) == listView = "rows" /\ p \in raw /\ Ask("audit", PidOf[p])

SubmitForm(pid) == Ask("audit", pid)

LoadGlobalTree == Ask("tree", None)

LoadHostKernel == Ask("kernel", None)

\* The answer to r has come: the loading screen goes, a panel comes.
Show(r, panel) ==
    /\ requests' = requests \ {r}
    /\ shown' = (shown \ {"loading"}) \cup {panel}
    /\ UNCHANGED <<host, asking, list, busy>>

\* Wrong variant: the description of the first report stays.
Mut_PopulateReport(p) ==
    /\ current' = p
    /\ described' = IF p \in Improvable /\ described = None THEN p ELSE described

\* A report without an override leaves the description of the one before.
PopulateReport(p) ==
    /\ current' = p
    /\ described' = IF p \in Improvable THEN p ELSE described

ShowReport(r) ==
    /\ r.kind = "audit" /\ r.answer # NoAnswer
    /\ \E p \in r.answer : PopulateReport(p)
    /\ Show(r, "report")

\* The answers of handleTree and handleKernel say nothing about processes that
\* the page would keep.
ShowTree(r) ==
    /\ r.kind = "tree"
    /\ Show(r, "tree")
    /\ UNCHANGED <<current, described>>

\* Its table and its badge are written together, from one answer.
ShowKernel(r) ==
    /\ r.kind = "kernel"
    /\ Show(r, "kernel")
    /\ UNCHANGED <<current, described>>

\* Wrong variant: the catch clause leaves the loading screen.
Mut_ShowError(r) ==
    /\ r.kind \in PanelKinds /\ r.answer = NoAnswer
    /\ requests' = requests \ {r}
    /\ shown' = shown \cup {"error"}
    /\ UNCHANGED <<host, asking, list, busy, current, described>>

\* The catch clauses of the three functions: a status of 400, 404 or 500, or a
\* connection that breaks.
ShowError(r) ==
    /\ r.kind \in PanelKinds /\ r.answer = NoAnswer
    /\ Show(r, "error")
    /\ UNCHANGED <<current, described>>
-----------------------------------------------------------------------------
(* The page: its list.                                                      *)

LoadContainers ==
    /\ loads < MaxLoads
    /\ loads' = loads + 1
    /\ listView' = "loading"
    /\ UNCHANGED <<host, requests, asking, panels, raw, busy>>

\* What handleListContainers may have found at some moment: processes that run,
\* or have run.
Listings == SUBSET (Isolated \cap (alive \cup gone))

RenderProcessList ==
    /\ loads > 0
    /\ loads' = loads - 1
    /\ raw' \in Listings
    /\ listView' = "rows"
    /\ UNCHANGED <<host, requests, asking, panels, busy>>

\* Wrong variant: without the check of response.ok, what explains the failure is
\* taken for the list.
Mut_ShowListError ==
    /\ loads > 0
    /\ loads' = loads - 1
    /\ raw' = {None}
    /\ listView' = "failed"
    /\ UNCHANGED <<host, requests, asking, panels, busy>>

\* The list that was loaded before is kept, out of sight.
ShowListError ==
    /\ loads > 0
    /\ loads' = loads - 1
    /\ listView' = "failed"
    /\ UNCHANGED <<host, requests, asking, panels, raw, busy>>

\* Another order is selected: the list is rendered again, whatever is awaited.
SelectOrder ==
    /\ listView' = "rows"
    /\ UNCHANGED <<host, requests, asking, panels, loads, raw, busy>>
-----------------------------------------------------------------------------
(* The page: the override button of the report panel.                       *)

Mut_TargetPid == last.pid

\* currentReportData.pid
TargetPid == PidOf[current]

ApplySystemdOverride ==
    /\ "report" \in shown /\ ~busy /\ current # None
    /\ busy' = TRUE
    /\ requests' = requests \cup {Request(0, "override", TargetPid, current)}
    /\ UNCHANGED <<host, asking, panels, list>>

\* Wrong variant: without finally.
Mut_FinishOverride(r) ==
    /\ r.kind = "override"
    /\ requests' = requests \ {r}
    /\ busy' = (r.answer = NoAnswer)
    /\ UNCHANGED <<host, asking, panels, list>>

FinishOverride(r) ==
    /\ r.kind = "override"
    /\ requests' = requests \ {r}
    /\ busy' = FALSE
    /\ UNCHANGED <<host, asking, panels, list>>
-----------------------------------------------------------------------------
Receive(r) ==
    \/ ShowReport(r) \/ ShowTree(r) \/ ShowKernel(r) \/ ShowError(r)
    \/ FinishOverride(r)

ReceiveList == RenderProcessList \/ ShowListError

User ==
    \/ \E p \in Processes : ClickItem(p)
    \/ \E pid \in Pids : SubmitForm(pid)
    \/ LoadGlobalTree \/ LoadHostKernel
    \/ LoadContainers \/ SelectOrder
    \/ ApplySystemdOverride

\* The page when DOMContentLoaded has been handled: the list is loaded twice.
Init ==
    /\ alive = Initial /\ gone = {}
    /\ written = [process |-> None, shown |-> None]
    /\ requests = {} /\ loads = 2
    /\ last = [kind |-> None, pid |-> None]
    /\ overlapped = FALSE
    /\ shown = {"welcome"}
    /\ current = None /\ described = None
    /\ raw = {} /\ listView = "loading"
    /\ busy = FALSE

Next ==
    \/ \E p \in Processes : Start(p) \/ Exit(p)
    \/ \E r \in requests : Handle(r) \/ Receive(r)
    \/ ReceiveList
    \/ User

\* Every fetch is answered or fails, and the browser runs what awaits it; the
\* user and the host owe nothing.
Fairness ==
    /\ WF_vars(\E r \in Awaited : Receive(r))

Spec == Init /\ [][Next]_vars /\ Fairness

(***************************************************************************)
(* Properties.                                                             *)
(***************************************************************************)
\* What tells the user to wait is displayed while an answer is awaited that will
\* take it away, on success and in every catch clause, and not without one: the
\* loading screen, the message in the list, the button that is disabled for its
\* one override, whatever other reports are displayed meanwhile
\* (dashboard.go:2377-2469, 2517-2547, 3096-3116).
WaitingIsAwaited ==
    /\ "loading" \in shown => Awaited # {}
    /\ listView = "loading" => loads > 0
    /\ busy <=> Overrides # {}
    /\ \A r, s \in Overrides : r = s

\* A user who waits for an answer before asking for the next panel sees one
\* panel at a time: the loading screen, and then the panel asked for, or the
\* error, whatever was displayed before; a report is of the PID asked for.  Two
\* requests that overlap can leave two panels (dashboard.go:2517).
OnePanelUnlessOverlapped ==
    ~overlapped =>
        \/ last.kind = None /\ shown = {"welcome"}
        \/ Awaited # {} /\ shown = {"loading"}
        \/ Awaited = {} /\ shown = {"error"}
        \/ Awaited = {} /\ last.kind \in PanelKinds /\ shown = {PanelOf[last.kind]}
           /\ (last.kind = "audit" => PidOf[current] = last.pid)

\* The path that the button's description names is that of the process whose
\* report is displayed, if there is an override for it; only beside a report
\* without one may it be that of an earlier process (dashboard.go:3014).
DescribesShown ==
    "report" \in shown /\ current \in Improvable => described = current

\* An override is written for the process whose report was displayed when the
\* button was clicked, however the requests overlap and the reports change
\* meanwhile, unless that process has exited: the server audits the PID again
\* and cannot know (dashboard.go:3103, server.go:131).
OverrideForShown ==
    written.process = written.shown \/ written.shown \in gone

\* The loading screen goes, whatever is asked for meanwhile and in whatever order
\* the answers come (dashboard.go:2377-2451, 2517-2547).
LoadingEnds == "loading" \in shown ~> "loading" \notin shown
=============================================================================
