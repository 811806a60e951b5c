--------------------------- MODULE DashboardProofs ---------------------------
(***************************************************************************)
(* Proofs about Dashboard, for any host, any number of requests in flight  *)
(* and any order of the answers.                                           *)
(***************************************************************************)
EXTENDS Dashboard, FiniteSetTheorems, TLAPS

(***************************************************************************)
(* The inductive invariant.                                                *)
(***************************************************************************)
Known == alive \cup gone

\* No two processes run under one PID, and an override was written for the
\* process displayed unless that has exited.
HostInv ==
    /\ \A p, q \in alive : PidOf[p] = PidOf[q] => p = q
    /\ OverrideForShown

\* An answer is about processes that ran under the PID asked for; an override is
\* asked for by the PID of the process displayed.
RequestInv ==
    /\ IsFiniteSet(requests)
    /\ \A r \in requests :
         /\ r.answer # NoAnswer =>
              r.answer \subseteq Known /\ \A p \in r.answer : PidOf[p] = r.pid
         /\ r.kind = "override" => r.on \in Known /\ r.pid = PidOf[r.on]

PageInv ==
    /\ current \in Known \cup {None}
    /\ current \in Improvable => described = current

\* What has been asked for without overlap is awaited alone.
AloneInv ==
    ~overlapped =>
        /\ \A r, s \in Awaited : r = s
        /\ \A r \in Awaited : r.kind = last.kind /\ r.pid = last.pid
        /\ Awaited # {} => shown = {"loading"}

DashboardInv ==
    /\ TypeOK /\ HostInv /\ RequestInv /\ PageInv /\ AloneInv
    /\ WaitingIsAwaited /\ OnePanelUnlessOverlapped

USE DashboardAssumption

\* With fewer panels awaited than there are IDs, one is free.
LEMMA FreeIdExists ==
  ASSUME IsFiniteSet(requests), Cardinality(Awaited) < MaxAwaited,
         NEW kind, NEW pid
  PROVE  FreeId(kind, pid) \in Ids
<1> DEFINE used == {r.id : r \in Awaited}
<1>1. IsFiniteSet(Awaited)
  BY FS_Subset DEF Awaited
<1>2. IsFiniteSet(used) /\ Cardinality(used) <= Cardinality(Awaited)
  <2> DEFINE f == [r \in Awaited |-> r.id]
  <2>1. f \in Surjection(Awaited, used)
    BY DEF Surjection
  <2> QED
    BY <1>1, <2>1, FS_Surjection
<1>3. IsFiniteSet(Ids) /\ Cardinality(Ids) = MaxAwaited
  BY FS_Interval DEF Ids
<1>4. ~ Ids \subseteq used
  <2> SUFFICES ASSUME Ids \subseteq used PROVE FALSE
    OBVIOUS
  <2>1. Cardinality(Ids) <= Cardinality(used)
    BY <1>2, FS_Subset
  <2>2. Cardinality(used) \in Nat /\ Cardinality(Awaited) \in Nat
    BY <1>1, <1>2, FS_CardinalityType
  <2> QED
    BY <1>2, <1>3, <2>1, <2>2
<1>5. \E id \in Ids : \A r \in Awaited : r.kind = kind /\ r.pid = pid => r.id # id
  BY <1>4
<1> QED
  BY <1>5 DEF FreeId

-----------------------------------------------------------------------------
LEMMA InitDashboard == Init => DashboardInv
<1> SUFFICES ASSUME Init PROVE DashboardInv
  OBVIOUS
<1> USE DEF Init
<1>1. Awaited = {} /\ Overrides = {}
  BY DEF Awaited, Overrides
<1>2. TypeOK
  <2>1. loads \in 0 .. MaxLoads
    BY DashboardAssumption
  <2>2. /\ requests \subseteq Requests
        /\ written \in [process : Processes \cup {None}, shown : Processes \cup {None}]
        /\ last \in [kind : PanelKinds \cup {None}, pid : Pids \cup {None}]
    OBVIOUS
  <2>3. /\ alive \subseteq Processes /\ gone \subseteq Processes /\ raw \in SUBSET Processes
    BY DashboardAssumption
  <2> QED
    BY <2>1, <2>2, <2>3 DEF TypeOK
<1>3. HostInv
  BY DEF HostInv, OverrideForShown
<1>4. RequestInv
  BY FS_EmptySet DEF RequestInv
<1>5. PageInv
  BY DEF PageInv
<1>6. AloneInv
  BY <1>1 DEF AloneInv
<1>7. WaitingIsAwaited
  BY <1>1 DEF WaitingIsAwaited
<1>8. OnePanelUnlessOverlapped
  BY DEF OnePanelUnlessOverlapped
<1> QED
  BY <1>2, <1>3, <1>4, <1>5, <1>6, <1>7, <1>8 DEF DashboardInv

(***************************************************************************)
(* The host and the server.                                                *)
(***************************************************************************)
LEMMA StartKeeps ==
  ASSUME DashboardInv, NEW p \in Processes, Start(p)
  PROVE  DashboardInv'
<1> USE DEF Start, host, asking, panels, list
<1>1. TypeOK'
  BY DEF DashboardInv, TypeOK
<1>2. HostInv'
  BY DEF DashboardInv, HostInv, OverrideForShown
<1>3. RequestInv'
  BY DEF DashboardInv, RequestInv, Known
<1>4. PageInv'
  BY DEF DashboardInv, PageInv, Known
<1>5. AloneInv' /\ WaitingIsAwaited' /\ OnePanelUnlessOverlapped'
  BY DEF DashboardInv, AloneInv, WaitingIsAwaited, OnePanelUnlessOverlapped, Awaited, Overrides
<1> QED
  BY <1>1, <1>2, <1>3, <1>4, <1>5 DEF DashboardInv

LEMMA ExitKeeps ==
  ASSUME DashboardInv, NEW p \in Processes, Exit(p)
  PROVE  DashboardInv'
<1> USE DEF Exit, asking, panels, list
<1>1. TypeOK'
  BY DEF DashboardInv, TypeOK
<1>2. HostInv'
  BY DEF DashboardInv, HostInv, OverrideForShown
<1>3. RequestInv'
  BY DEF DashboardInv, RequestInv, Known
<1>4. PageInv'
  BY DEF DashboardInv, PageInv, Known
<1>5. AloneInv' /\ WaitingIsAwaited' /\ OnePanelUnlessOverlapped'
  BY DEF DashboardInv, AloneInv, WaitingIsAwaited, OnePanelUnlessOverlapped, Awaited, Overrides
<1> QED
  BY <1>1, <1>2, <1>3, <1>4, <1>5 DEF DashboardInv

\* A request that is answered is awaited as before.
LEMMA AnswerKeeps ==
  ASSUME DashboardInv, NEW r \in requests, r.kind \in {"audit", "override"},
         NEW p \in alive, PidOf[p] = r.pid, Answer(r, {p}),
         \/ UNCHANGED written
         \/ r.kind = "override" /\ written' = [process |-> p, shown |-> r.on]
  PROVE  DashboardInv'
<1> DEFINE s == [r EXCEPT !.answer = {p}]
<1> USE DEF Answer, asking, panels, list
<1>1. r \in Requests /\ p \in Processes /\ r.answer = NoAnswer
  BY DEF DashboardInv, TypeOK
<1>2. /\ s \in Requests /\ s.kind = r.kind /\ s.pid = r.pid /\ s.on = r.on /\ s.answer = {p}
  BY <1>1 DEF Requests
<1>3. requests' = (requests \ {r}) \cup {s}
  OBVIOUS
<1>0. UNCHANGED <<alive, gone, loads, last, overlapped, shown, current, described, raw,
                  listView, busy>>
  OBVIOUS
<1> HIDE DEF s, Answer
<1>4. TypeOK'
  <2>1. requests' \subseteq Requests
    BY <1>2, <1>3 DEF DashboardInv, TypeOK
  <2>2. written' \in [process : Processes \cup {None}, shown : Processes \cup {None}]
    BY <1>0, <1>1 DEF DashboardInv, TypeOK, Requests
  <2> QED
    BY <1>0, <2>1, <2>2 DEF DashboardInv, TypeOK
<1>5. HostInv'
  BY <1>0 DEF DashboardInv, HostInv, OverrideForShown, RequestInv, Known
<1>6. RequestInv'
  <2>1. IsFiniteSet(requests')
    BY <1>3, FS_AddElement, FS_RemoveElement DEF DashboardInv, RequestInv
  <2>2. Known' = Known
    BY <1>0 DEF Known
  <2>3. ASSUME NEW t \in requests'
        PROVE  /\ t.answer # NoAnswer =>
                    t.answer \subseteq Known /\ \A q \in t.answer : PidOf[q] = t.pid
               /\ t.kind = "override" => t.on \in Known /\ t.pid = PidOf[t.on]
    <3>1. CASE t = s
      <4>1. p \in Known
        BY DEF Known
      <4>2. r.kind = "override" => r.on \in Known /\ r.pid = PidOf[r.on]
        BY <1>0 DEF DashboardInv, RequestInv
      <4> QED
        BY <1>2, <3>1, <4>1, <4>2
    <3>2. CASE t \in requests
      BY <3>2 DEF DashboardInv, RequestInv
    <3> QED
      BY <1>3, <2>3, <3>1, <3>2
  <2> QED
    BY <2>1, <2>2, <2>3 DEF RequestInv
<1>7. PageInv'
  BY <1>0 DEF DashboardInv, PageInv, Known
<1>8. s # r /\ r \notin requests'
  BY <1>1, <1>2, <1>3 DEF NoAnswer, DashboardInv, TypeOK
<1>8a. /\ \A t \in Awaited' : t \in Awaited \ {r} \/ (t = s /\ r \in Awaited)
       /\ Awaited = {} <=> Awaited' = {}
  BY <1>2, <1>3, <1>8 DEF Awaited
<1>8b. /\ \A t \in Overrides' : t \in Overrides \ {r} \/ (t = s /\ r \in Overrides)
       /\ Overrides = {} <=> Overrides' = {}
  BY <1>2, <1>3, <1>8 DEF Overrides
<1>9. AloneInv'
  BY <1>0, <1>2, <1>8a DEF DashboardInv, AloneInv
<1>10. WaitingIsAwaited'
  BY <1>0, <1>8a, <1>8b DEF DashboardInv, WaitingIsAwaited
<1>11. OnePanelUnlessOverlapped'
  BY <1>0, <1>8a DEF DashboardInv, OnePanelUnlessOverlapped
<1> QED
  BY <1>4, <1>5, <1>6, <1>7, <1>9, <1>10, <1>11 DEF DashboardInv

LEMMA HandleKeeps ==
  ASSUME DashboardInv, NEW r \in requests, Handle(r)
  PROVE  DashboardInv'
<1>1. CASE HandleAudit(r)
  BY <1>1, AnswerKeeps DEF HandleAudit
<1>2. CASE HandleApplyOverride(r)
  BY <1>2, AnswerKeeps DEF HandleApplyOverride
<1> QED
  BY <1>1, <1>2 DEF Handle

(***************************************************************************)
(* The page.                                                               *)
(***************************************************************************)
LEMMA AskKeeps ==
  ASSUME DashboardInv, NEW kind \in PanelKinds, NEW pid \in Pids \cup {None}, Ask(kind, pid)
  PROVE  DashboardInv'
<1> DEFINE s == Request(FreeId(kind, pid), kind, pid, None)
<1>1. /\ requests' = requests \cup {s}
      /\ last' = [kind |-> kind, pid |-> pid]
      /\ overlapped' = (Awaited # {})
      /\ shown' = {"loading"}
      /\ UNCHANGED <<alive, gone, written, current, described, loads, raw, listView, busy>>
  BY DEF Ask, ShowLoading, host, list
<1>2. FreeId(kind, pid) \in Ids
  BY FreeIdExists DEF Ask, DashboardInv, RequestInv
<1>3. /\ s \in Requests /\ s.kind = kind /\ s.pid = pid /\ s.answer = NoAnswer
      /\ kind # "override"
  BY <1>2 DEF Requests, Request, PanelKinds
<1> HIDE DEF s
<1>4. Awaited' = Awaited \cup {s} /\ Overrides' = Overrides
  BY <1>1, <1>3 DEF Awaited, Overrides
<1>5. TypeOK'
  <2>1. requests' \subseteq Requests
    BY <1>1, <1>3 DEF DashboardInv, TypeOK
  <2>2. last' \in [kind : PanelKinds \cup {None}, pid : Pids \cup {None}]
    BY <1>1
  <2> QED
    BY <1>1, <2>1, <2>2 DEF DashboardInv, TypeOK
<1>6. HostInv'
  BY <1>1 DEF DashboardInv, HostInv, OverrideForShown
<1>7. RequestInv'
  <2>1. IsFiniteSet(requests')
    BY <1>1, FS_AddElement DEF DashboardInv, RequestInv
  <2> QED
    BY <1>1, <1>3, <2>1 DEF DashboardInv, RequestInv, Known
<1>8. PageInv'
  BY <1>1 DEF DashboardInv, PageInv, Known
<1>9. AloneInv'
  BY <1>1, <1>3, <1>4 DEF AloneInv
<1>10. WaitingIsAwaited'
  BY <1>1, <1>4 DEF DashboardInv, WaitingIsAwaited
<1>11. OnePanelUnlessOverlapped'
  BY <1>1, <1>4 DEF OnePanelUnlessOverlapped
<1> QED
  BY <1>5, <1>6, <1>7, <1>8, <1>9, <1>10, <1>11 DEF DashboardInv

\* An answer replaces the loading screen by its panel, and a report becomes that
\* of the process that the answer is about.
LEMMA ShowKeeps ==
  ASSUME DashboardInv, NEW r \in requests, r.kind \in PanelKinds,
         NEW panel \in {PanelOf[r.kind], "error"}, Show(r, panel),
         \/ panel # "report" /\ UNCHANGED <<current, described>>
         \/ r.answer # NoAnswer /\ \E p \in r.answer : PopulateReport(p)
  PROVE  DashboardInv'
<1>1. /\ requests' = requests \ {r}
      /\ shown' = (shown \ {"loading"}) \cup {panel}
      /\ UNCHANGED <<alive, gone, written, last, overlapped, loads, raw, listView, busy>>
  BY DEF Show, host, asking, list
<1>2. panel \in {"report", "tree", "kernel", "error"}
  BY DEF PanelOf, PanelKinds
<1>3. \/ panel # "report" /\ UNCHANGED <<current, described>>
      \/ /\ current' \in Known /\ PidOf[current'] = r.pid
         /\ described' = IF current' \in Improvable THEN current' ELSE described
  BY DEF PopulateReport, DashboardInv, RequestInv
<1>4. Awaited' = Awaited \ {r} /\ r \in Awaited /\ Overrides' = Overrides
  BY <1>1 DEF Awaited, Overrides, PanelKinds
<1>5. TypeOK'
  <2>1. current' \in Processes \cup {None} /\ described' \in Processes \cup {None}
    BY <1>3 DEF DashboardInv, TypeOK, Known
  <2>2. shown' \subseteq {"welcome", "report", "tree", "kernel", "error", "loading"}
    BY <1>1, <1>2 DEF DashboardInv, TypeOK
  <2> QED
    BY <1>1, <2>1, <2>2 DEF DashboardInv, TypeOK
<1>6. HostInv'
  BY <1>1 DEF DashboardInv, HostInv, OverrideForShown
<1>7. RequestInv'
  <2>1. IsFiniteSet(requests')
    BY <1>1, FS_RemoveElement DEF DashboardInv, RequestInv
  <2> QED
    BY <1>1, <2>1 DEF DashboardInv, RequestInv, Known
<1>8. PageInv'
  BY <1>1, <1>3 DEF DashboardInv, PageInv, Known
<1>9. AloneInv'
  BY <1>1, <1>4 DEF DashboardInv, AloneInv
<1>10. WaitingIsAwaited'
  BY <1>1, <1>2, <1>4 DEF DashboardInv, WaitingIsAwaited
<1>11. OnePanelUnlessOverlapped'
  <2> SUFFICES ASSUME ~overlapped
               PROVE  /\ Awaited' = {}
                      /\ \/ shown' = {"error"}
                         \/ /\ last'.kind \in PanelKinds /\ shown' = {PanelOf[last'.kind]}
                            /\ last'.kind = "audit" => PidOf[current'] = last'.pid
    BY <1>1 DEF OnePanelUnlessOverlapped
  <2>1. r.kind = last.kind /\ r.pid = last.pid /\ shown = {"loading"} /\ Awaited' = {}
    BY <1>4 DEF DashboardInv, AloneInv
  <2>2. shown' = {panel}
    BY <1>1, <2>1
  <2>3. CASE panel = "error"
    BY <2>1, <2>2, <2>3
  <2>4. CASE panel = PanelOf[r.kind]
    <3>1. last'.kind = "audit" => PidOf[current'] = last'.pid
      BY <1>1, <1>3, <2>1, <2>4 DEF PanelOf
    <3> QED
      BY <1>1, <2>1, <2>2, <2>4, <3>1
  <2> QED
    BY <2>3, <2>4
<1> QED
  BY <1>5, <1>6, <1>7, <1>8, <1>9, <1>10, <1>11 DEF DashboardInv

\* Only the override was awaited that ends.
LEMMA FinishKeeps ==
  ASSUME DashboardInv, NEW r \in requests, FinishOverride(r)
  PROVE  DashboardInv'
<1>1. /\ r.kind = "override" /\ requests' = requests \ {r} /\ busy' = FALSE
      /\ UNCHANGED <<alive, gone, written, last, overlapped, shown, current, described,
                     loads, raw, listView>>
  BY DEF FinishOverride, host, asking, panels, list
<1>2. Awaited' = Awaited /\ Overrides' = Overrides \ {r} /\ r \in Overrides
  BY <1>1 DEF Awaited, Overrides, PanelKinds
<1>3. TypeOK'
  BY <1>1 DEF DashboardInv, TypeOK
<1>4. HostInv'
  BY <1>1 DEF DashboardInv, HostInv, OverrideForShown
<1>5. RequestInv'
  <2>1. IsFiniteSet(requests')
    BY <1>1, FS_RemoveElement DEF DashboardInv, RequestInv
  <2> QED
    BY <1>1, <2>1 DEF DashboardInv, RequestInv, Known
<1>6. PageInv'
  BY <1>1 DEF DashboardInv, PageInv, Known
<1>7. AloneInv' /\ OnePanelUnlessOverlapped'
  BY <1>1, <1>2 DEF DashboardInv, AloneInv, OnePanelUnlessOverlapped
<1>8. WaitingIsAwaited'
  BY <1>1, <1>2 DEF DashboardInv, WaitingIsAwaited
<1> QED
  BY <1>3, <1>4, <1>5, <1>6, <1>7, <1>8 DEF DashboardInv

LEMMA ReceiveKeeps ==
  ASSUME DashboardInv, NEW r \in requests, Receive(r)
  PROVE  DashboardInv'
<1> USE DEF PanelOf, PanelKinds
<1>1. CASE ShowReport(r)
  BY <1>1, ShowKeeps DEF ShowReport
<1>2. CASE ShowTree(r)
  BY <1>2, ShowKeeps DEF ShowTree
<1>3. CASE ShowKernel(r)
  BY <1>3, ShowKeeps DEF ShowKernel
<1>4. CASE ShowError(r)
  BY <1>4, ShowKeeps DEF ShowError
<1>5. CASE FinishOverride(r)
  BY <1>5, FinishKeeps
<1> QED
  BY <1>1, <1>2, <1>3, <1>4, <1>5 DEF Receive

\* The button is enabled only when no override is awaited.
LEMMA ApplyKeeps ==
  ASSUME DashboardInv, ApplySystemdOverride
  PROVE  DashboardInv'
<1> DEFINE s == Request(0, "override", TargetPid, current)
<1>1. /\ ~busy /\ current # None /\ busy' = TRUE /\ requests' = requests \cup {s}
      /\ UNCHANGED <<alive, gone, written, last, overlapped, shown, current, described,
                     loads, raw, listView>>
  BY DEF ApplySystemdOverride, host, asking, panels, list
<1>2. current \in Processes /\ current \in Known
  BY <1>1 DEF DashboardInv, TypeOK, PageInv
<1>3. /\ s \in Requests /\ s.kind = "override" /\ s.on = current /\ s.pid = PidOf[current]
      /\ s.answer = NoAnswer
  BY <1>2 DEF Requests, Request, TargetPid, Pids
<1> HIDE DEF s
<1>4. Awaited' = Awaited /\ Overrides' = Overrides \cup {s}
  BY <1>1, <1>3 DEF Awaited, Overrides, PanelKinds
<1>5. TypeOK'
  <2>1. requests' \subseteq Requests
    BY <1>1, <1>3 DEF DashboardInv, TypeOK
  <2> QED
    BY <1>1, <2>1 DEF DashboardInv, TypeOK
<1>6. HostInv'
  BY <1>1 DEF DashboardInv, HostInv, OverrideForShown
<1>7. RequestInv'
  <2>1. IsFiniteSet(requests')
    BY <1>1, FS_AddElement DEF DashboardInv, RequestInv
  <2> QED
    BY <1>1, <1>2, <1>3, <2>1 DEF DashboardInv, RequestInv, Known
<1>8. PageInv'
  BY <1>1 DEF DashboardInv, PageInv, Known
<1>9. AloneInv' /\ OnePanelUnlessOverlapped'
  BY <1>1, <1>4 DEF DashboardInv, AloneInv, OnePanelUnlessOverlapped
<1>10. WaitingIsAwaited'
  BY <1>1, <1>4 DEF DashboardInv, WaitingIsAwaited
<1> QED
  BY <1>5, <1>6, <1>7, <1>8, <1>9, <1>10 DEF DashboardInv

\* What happens to the list concerns the list.
LEMMA ListKeeps ==
  ASSUME DashboardInv, LoadContainers \/ ReceiveList \/ SelectOrder
  PROVE  DashboardInv'
<1>1. UNCHANGED <<alive, gone, written, requests, last, overlapped, shown, current,
                  described, busy>>
  BY DEF LoadContainers, ReceiveList, RenderProcessList, ShowListError, SelectOrder,
         host, asking, panels
<1>2. /\ loads' \in 0 .. MaxLoads /\ raw' \in SUBSET Processes
      /\ listView' \in {"loading", "failed", "rows"}
      /\ listView' = "loading" => loads' > 0
  <2> USE DashboardAssumption DEF DashboardInv, TypeOK
  <2>1. CASE LoadContainers
    BY <2>1 DEF LoadContainers
  <2>2. CASE RenderProcessList
    BY <2>2 DEF RenderProcessList, Listings
  <2>3. CASE ShowListError
    BY <2>3 DEF ShowListError
  <2>4. CASE SelectOrder
    BY <2>4 DEF SelectOrder
  <2> QED
    BY <2>1, <2>2, <2>3, <2>4 DEF ReceiveList
<1>3. TypeOK'
  BY <1>1, <1>2 DEF DashboardInv, TypeOK
<1>4. HostInv' /\ RequestInv' /\ PageInv'
  BY <1>1 DEF DashboardInv, HostInv, OverrideForShown, RequestInv, PageInv, Known
<1>5. AloneInv' /\ OnePanelUnlessOverlapped'
  BY <1>1 DEF DashboardInv, AloneInv, OnePanelUnlessOverlapped, Awaited
<1>6. WaitingIsAwaited'
  BY <1>1, <1>2 DEF DashboardInv, WaitingIsAwaited, Awaited, Overrides
<1> QED
  BY <1>3, <1>4, <1>5, <1>6 DEF DashboardInv

LEMMA UserKeeps ==
  ASSUME DashboardInv, User
  PROVE  DashboardInv'
<1>1. CASE \E p \in Processes : ClickItem(p)
  <2>1. PICK p \in Processes : Ask("audit", PidOf[p])
    BY <1>1 DEF ClickItem
  <2> QED
    BY <2>1, AskKeeps DEF PanelKinds, Pids
<1>2. CASE \E pid \in Pids : SubmitForm(pid)
  BY <1>2, AskKeeps DEF SubmitForm, PanelKinds
<1>3. CASE LoadGlobalTree \/ LoadHostKernel
  BY <1>3, AskKeeps DEF LoadGlobalTree, LoadHostKernel, PanelKinds
<1>4. CASE LoadContainers \/ SelectOrder
  BY <1>4, ListKeeps
<1>5. CASE ApplySystemdOverride
  BY <1>5, ApplyKeeps
<1> QED
  BY <1>1, <1>2, <1>3, <1>4, <1>5 DEF User
-----------------------------------------------------------------------------
LEMMA NextDashboard == DashboardInv /\ [Next]_vars => DashboardInv'
<1> SUFFICES ASSUME DashboardInv, [Next]_vars PROVE DashboardInv'
  OBVIOUS
<1>1. CASE \E p \in Processes : Start(p) \/ Exit(p)
  BY <1>1, StartKeeps, ExitKeeps
<1>2. CASE \E r \in requests : Handle(r) \/ Receive(r)
  BY <1>2, HandleKeeps, ReceiveKeeps
<1>3. CASE ReceiveList
  BY <1>3, ListKeeps
<1>4. CASE User
  BY <1>4, UserKeeps
<1>5. CASE UNCHANGED vars
  BY <1>5 DEF vars, host, asking, panels, list, DashboardInv, TypeOK, HostInv, OverrideForShown,
              RequestInv, PageInv, AloneInv, WaitingIsAwaited, OnePanelUnlessOverlapped,
              Known, Awaited, Overrides
<1> QED
  BY <1>1, <1>2, <1>3, <1>4, <1>5 DEF Next

LEMMA DashboardInvariant == Spec => []DashboardInv
<1> QED
  BY InitDashboard, NextDashboard, PTL DEF Spec

\* Whatever overlaps, the page's variables keep their types, and so does every
\* request (dashboard.go:2377-3116).
THEOREM DashboardTypeCorrect == Spec => []TypeOK
<1>1. DashboardInv => TypeOK
  BY DEF DashboardInv
<1> QED
  BY <1>1, DashboardInvariant, PTL

\* Nothing that tells the user to wait is displayed in vain, for any number of
\* requests (dashboard.go:2377-2469, 2517-2547, 3096-3116).
THEOREM NothingWaitsInVain == Spec => []WaitingIsAwaited
<1>1. DashboardInv => WaitingIsAwaited
  BY DEF DashboardInv
<1> QED
  BY <1>1, DashboardInvariant, PTL

\* A user who waits sees one panel, and a report of the PID asked for
\* (dashboard.go:2517).
THEOREM OnePanelAtATime == Spec => []OnePanelUnlessOverlapped
<1>1. DashboardInv => OnePanelUnlessOverlapped
  BY DEF DashboardInv
<1> QED
  BY <1>1, DashboardInvariant, PTL

\* The path beside the report of a process with an override is its own
\* (dashboard.go:3014).
THEOREM DescriptionIsOfShown == Spec => []DescribesShown
<1>1. DashboardInv => DescribesShown
  BY DEF DashboardInv, PageInv, DescribesShown
<1> QED
  BY <1>1, DashboardInvariant, PTL

\* An override never lands on a process other than the one displayed unless that
\* one has exited (dashboard.go:3103, server.go:131).
THEOREM OverrideIsForShown == Spec => []OverrideForShown
<1>1. DashboardInv => OverrideForShown
  BY DEF DashboardInv, HostInv
<1> QED
  BY <1>1, DashboardInvariant, PTL
=============================================================================
