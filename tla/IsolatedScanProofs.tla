-------------------------- MODULE IsolatedScanProofs --------------------------
(***************************************************************************)
(* Proofs about IsolatedScan.  The number of tokens in the channel is the  *)
(* number of goroutines between their send and their receive; it is this   *)
(* equation, not the bound, that every step keeps.  A score is followed    *)
(* from the first read of its report to the card it is stored in.          *)
(***************************************************************************)
EXTENDS IsolatedScan, FiniteSetTheorems, TLAPS

\* No goroutine exists outside wg.Wait and the moment after it.
PoolInv ==
    /\ pc \notin {"wait", "returned"} => \A p \in Pids : worker[p] = "none"
    /\ SemaphoreCount

\* TypeOK without the bound on the channel, which needs SemaphoreCount.
DataOK ==
    /\ gen \in [Pids -> Nat]
    /\ live \in SUBSET Pids
    /\ iso \in SUBSET Pids
    /\ doubt \in SUBSET Pids
    /\ priv \in BOOLEAN
    /\ pc \in {"idle", "list", "wait", "self", "selftree", "selfloops", "scored", "returned"}
    /\ todo \in SUBSET Pids
    /\ named \in SUBSET Pids
    /\ cards \in SUBSET Pids
    /\ cardGen \in [Pids -> Nat]
    /\ score \in [Pids -> Scores]

WorkOK ==
    /\ worker \in [Pids -> {"none", "ready", "audit", "tree", "loops", "stored", "finished"}]
    /\ part \in [Pids -> 1..(Len(Reads) + 1)]
    /\ seen \in [Pids -> SUBSET Nat]
    /\ gaps \in [Pids -> SUBSET Parts]

\* Twelve reads come before the tree.
LEMMA ReadsFacts == Len(Reads) = 12 /\ DOMAIN Reads = 1..12 /\ \A k \in 1..12 : Reads[k] \in Parts
<1>1. Len(Reads) = 12 /\ DOMAIN Reads = 1..12
  BY DEF Reads
<1> QED
  BY <1>1 DEF Parts

\* The set of goroutines holding a token is finite.
LEMMA AuditingFinite == IsFiniteSet(Auditing)
  BY ScanAssumption, FS_Subset DEF Auditing

\* A goroutine that starts auditing adds one to the count.
LEMMA AcquireCount ==
  ASSUME WorkOK, tokens \in Nat, PoolInv, NEW p \in Pids, Acquire(p)
  PROVE  SemaphoreCount' /\ tokens' \in Nat
<1>1. Auditing' = Auditing \cup {p} /\ p \notin Auditing
  BY DEF Acquire, Auditing, WorkOK
<1>2. Cardinality(Auditing') = Cardinality(Auditing) + 1
  BY <1>1, AuditingFinite, FS_AddElement
<1>3. tokens' = tokens + 1 /\ tokens < Slots
  BY DEF Acquire
<1> QED
  BY <1>2, <1>3, ScanAssumption DEF PoolInv, SemaphoreCount

\* A goroutine that receives from the channel takes one off the count.
LEMMA LeaveCount ==
  ASSUME WorkOK, tokens \in Nat, PoolInv, NEW p \in Pids, Leave(p)
  PROVE  SemaphoreCount' /\ tokens' \in Nat
<1>1. Auditing' = Auditing \ {p} /\ p \in Auditing
  BY DEF Leave, Auditing, WorkOK
<1>2. Cardinality(Auditing') = Cardinality(Auditing) - 1 /\ Cardinality(Auditing') \in Nat
  BY <1>1, AuditingFinite, FS_RemoveElement, FS_CardinalityType
<1>3. tokens' = tokens - 1
  BY DEF Leave
<1> QED
  BY <1>2, <1>3, ScanAssumption DEF PoolInv, SemaphoreCount

\* The kernel's and the call's variables keep their types.
LEMMA DataStep == DataOK /\ WorkOK /\ [Next]_vars => DataOK'
<1> SUFFICES ASSUME DataOK, WorkOK, [Next]_vars PROVE DataOK'
  OBVIOUS
<1> USE ScanAssumption DEF DataOK, kernel, call
<1>1. ASSUME NEW p \in Pids, Spawn(p) \/ Unshare(p) \/ Die(p) PROVE DataOK'
  BY <1>1 DEF Spawn, Unshare, Die
<1>2. CASE ListSelf \/ List \/ Launch \/ WaitDone \/ AuditSelf \/ LoopSelf \/ ReturnSelf
  BY <1>2 DEF ListSelf, List, Launch, WaitDone, AuditSelf, LoopSelf, ReturnSelf
<1>3. CASE ScoreSelf
  <2>1. [kind |-> "report", of |-> {gen[Self]}, missing |-> {}] \in Scores
    BY DEF Scores
  <2> QED
    BY <1>3, <2>1 DEF ScoreSelf
<1>4. ASSUME NEW p \in todo, ReadName(p) PROVE DataOK'
  BY <1>4 DEF ReadName
<1>5. ASSUME NEW p \in named, ReadNamespaces(p) PROVE DataOK'
  BY <1>5 DEF ReadNamespaces
<1>6. ASSUME NEW p \in Pids, Store(p) PROVE DataOK'
  <2>1. PICK absent \in {{}, {"tree"}} :
          score' = [score EXCEPT ![p] = [kind |-> "report", of |-> seen[p],
                                         missing |-> IF gaps[p] = {} THEN absent ELSE gaps[p]]]
    BY <1>6 DEF Store
  <2>2. [kind |-> "report", of |-> seen[p], missing |-> IF gaps[p] = {} THEN absent ELSE gaps[p]] \in Scores
    BY DEF Scores, WorkOK, Parts
  <2> QED
    BY <1>6, <2>1, <2>2 DEF Store
<1>7. ASSUME NEW p \in Pids, Acquire(p) \/ ReadPart(p) \/ ReadTree(p) \/ LoopOn(p) \/ Leave(p) PROVE DataOK'
  BY <1>7 DEF Acquire, ReadPart, ReadTree, LoopOn, Leave
<1>8. CASE Forget
  BY <1>8 DEF Forget, Placeholder, Scores
<1>9. CASE UNCHANGED vars
  BY <1>9 DEF vars
<1> QED
  BY <1>1, <1>2, <1>3, <1>4, <1>5, <1>6, <1>7, <1>8, <1>9 DEF Next, Main, Goroutine

\* The goroutines' variables keep their types.
LEMMA WorkStep == DataOK /\ WorkOK /\ [Next]_vars => WorkOK'
<1> SUFFICES ASSUME DataOK, WorkOK, [Next]_vars PROVE WorkOK'
  OBVIOUS
<1> USE ScanAssumption, ReadsFacts DEF WorkOK, pool
<1>1. CASE UNCHANGED pool
  BY <1>1
<1>2. CASE Launch
  BY <1>2 DEF Launch
<1>3. ASSUME NEW p \in Pids, ReadPart(p) PROVE WorkOK'
  <2>1. part[p] \in 1..12 /\ Reads[part[p]] \in Parts /\ gen[p] \in Nat
    BY <1>3 DEF ReadPart, DataOK
  <2>2. CASE p \in live
    BY <1>3, <2>1, <2>2 DEF ReadPart
  <2>3. CASE p \notin live /\ part[p] \in Required
    BY <1>3, <2>1, <2>3 DEF ReadPart, Drop
  <2>4. CASE p \notin live /\ part[p] \notin Required
    BY <1>3, <2>1, <2>4 DEF ReadPart
  <2> QED
    BY <2>2, <2>3, <2>4
<1>4. ASSUME NEW p \in Pids, Acquire(p) \/ ReadTree(p) \/ LoopOn(p) \/ Store(p) \/ Leave(p) PROVE WorkOK'
  BY <1>4 DEF Acquire, ReadTree, LoopOn, Store, Drop, Leave
<1>5. CASE Forget
  BY <1>5 DEF Forget
<1> QED
  BY <1>1, <1>2, <1>3, <1>4, <1>5
  DEF Next, Main, Goroutine, Spawn, Unshare, Die, ListSelf, List, WaitDone, AuditSelf, LoopSelf,
      ReturnSelf, ScoreSelf, ReadName, ReadNamespaces, vars

\* Every step keeps the equation between tokens and goroutines.
LEMMA PoolStep == DataOK /\ WorkOK /\ tokens \in Nat /\ PoolInv /\ [Next]_vars
                    => PoolInv' /\ tokens' \in Nat
<1> SUFFICES ASSUME DataOK, WorkOK, tokens \in Nat, PoolInv, [Next]_vars
             PROVE  PoolInv' /\ tokens' \in Nat
  OBVIOUS
<1>1. ASSUME UNCHANGED <<tokens, worker>> PROVE SemaphoreCount' /\ tokens' \in Nat
  BY <1>1 DEF PoolInv, SemaphoreCount, Auditing
<1>2. ASSUME tokens' = tokens, Auditing' = Auditing PROVE SemaphoreCount' /\ tokens' \in Nat
  BY <1>2 DEF PoolInv, SemaphoreCount
<1>3. ASSUME NEW p \in Pids, Acquire(p) \/ Leave(p) PROVE PoolInv' /\ tokens' \in Nat
  <2>1. pc \in {"wait", "returned"} /\ pc' = pc
    BY <1>3 DEF Acquire, Leave, PoolInv, call
  <2> QED
    BY <1>3, <2>1, AcquireCount, LeaveCount DEF PoolInv
<1>4. ASSUME NEW p \in Pids, ReadPart(p) \/ ReadTree(p) \/ LoopOn(p) \/ Store(p)
      PROVE  PoolInv' /\ tokens' \in Nat
  <2>1. pc \in {"wait", "returned"} /\ pc' = pc
    BY <1>4 DEF ReadPart, ReadTree, LoopOn, Store, PoolInv, call
  <2>2. tokens' = tokens /\ Auditing' = Auditing
    <3>1. \A q \in Pids : worker'[q] \in {"audit", "tree", "loops", "stored"}
                            <=> worker[q] \in {"audit", "tree", "loops", "stored"}
      BY <1>4 DEF ReadPart, ReadTree, LoopOn, Store, WorkOK
    <3> QED
      BY <1>4, <3>1 DEF ReadPart, ReadTree, LoopOn, Store, Auditing
  <2> QED
    BY <1>2, <2>1, <2>2 DEF PoolInv
<1>5. CASE Launch
  <2>1. tokens' = tokens /\ Auditing = {} /\ Auditing' = {} /\ pc' = "wait"
    BY <1>5 DEF Launch, Auditing, PoolInv
  <2> QED
    BY <1>2, <2>1 DEF PoolInv
<1>6. CASE Forget
  <2>1. Auditing' = {} /\ tokens' = 0 /\ \A p \in Pids : worker'[p] = "none"
    BY <1>6 DEF Forget, Auditing
  <2> QED
    BY <2>1, FS_EmptySet, ScanAssumption DEF PoolInv, SemaphoreCount
<1>7. ASSUME UNCHANGED pool, pc \notin {"wait", "returned"} \/ pc' \in {"wait", "returned"}
      PROVE  PoolInv' /\ tokens' \in Nat
  BY <1>1, <1>7 DEF PoolInv, pool
<1> QED
  BY <1>3, <1>4, <1>5, <1>6, <1>7
  DEF Next, Main, Goroutine, Spawn, Unshare, Die, ListSelf, List, WaitDone, AuditSelf, LoopSelf,
      ReturnSelf, ScoreSelf, ReadName, ReadNamespaces, vars, call

ScanInv == DataOK /\ WorkOK /\ tokens \in Nat /\ PoolInv

\* The strengthened invariant is inductive.
LEMMA ScanInvariant == Spec => []ScanInv
<1>1. Init => ScanInv
  <2> SUFFICES ASSUME Init PROVE ScanInv
    OBVIOUS
  <2>1. DataOK
    BY ScanAssumption DEF Init, DataOK, Placeholder, Scores
  <2>2. WorkOK
    BY ReadsFacts DEF Init, WorkOK
  <2>3. Auditing = {}
    BY DEF Init, Auditing
  <2>4. PoolInv /\ tokens \in Nat
    BY <2>3, FS_EmptySet, ScanAssumption DEF Init, PoolInv, SemaphoreCount
  <2> QED
    BY <2>1, <2>2, <2>4 DEF ScanInv
<1>2. ScanInv /\ [Next]_vars => ScanInv'
  BY DataStep, WorkStep, PoolStep DEF ScanInv
<1> QED
  BY <1>1, <1>2, PTL DEF Spec

\* All variables keep their types, the channel its capacity included.
THEOREM ScanTypeCorrect == Spec => []TypeOK
<1>1. ScanInv => TypeOK
  BY ScanAssumption DEF ScanInv, DataOK, WorkOK, PoolInv, SemaphoreCount, TypeOK
<1> QED
  BY <1>1, ScanInvariant, PTL

\* For any number of processes and any capacity, the channel counts exactly
\* the reports being made, and they never exceed the capacity.
THEOREM AuditsBounded == Spec => []SemaphoreCount
<1>1. ScanInv => SemaphoreCount
  BY DEF ScanInv, PoolInv
<1> QED
  BY <1>1, ScanInvariant, PTL
-----------------------------------------------------------------------------
(***************************************************************************)
(* The scores.  CallInv is about the call, WorkerInv about the goroutine   *)
(* of a PID, CardInv about what a card's report has read: it follows the   *)
(* process through its death and its PID's next use.                       *)
(***************************************************************************)
CallInv ==
    /\ pc \in {"idle", "list", "self", "selftree", "selfloops"} => \A p \in Pids : score[p] = Placeholder
    /\ pc = "idle" => cards = {}
    /\ pc \in {"self", "selftree", "selfloops", "scored"} => cards = {Self}
    /\ pc = "scored" => score[Self].kind = "report"
    /\ \A p \in cards \cup named : cardGen[p] <= gen[p]

WorkerInv(p) ==
    /\ p \notin cards => worker[p] = "none"
    /\ pc = "wait" /\ p \in cards => worker[p] # "none"
    /\ pc = "returned" => worker[p] \in {"none", "finished"}
    /\ pc = "returned" /\ p \in cards => worker[p] = "finished" \/ score[p].kind = "report"
    /\ worker[p] \in {"ready", "audit", "tree", "loops"} => score[p] = Placeholder
    /\ worker[p] \in {"none", "ready"} => part[p] = 1 /\ seen[p] = {} /\ gaps[p] = {}
    /\ score[p].kind = "report" \/ score[p] = Placeholder

Lost(p) == p \notin live \/ Replaced(p)

\* The parts of a report whose failure after the last required read is
\* swallowed.
Late == {"security", "env", "network", "fd", "systemd", "tree"}

Accountable(p) ==
    score[p].kind = "report" =>
        /\ score[p].of # {}
        /\ score[p].of \subseteq cardGen[p]..gen[p]
        /\ ~ Replaced(p) => score[p].missing \subseteq Late
        /\ score[p].missing # {} => Lost(p)

CardInv(p) ==
    /\ seen[p] \subseteq cardGen[p]..gen[p]
    /\ gaps[p] # {} => Lost(p)
    /\ part[p] > 7 => seen[p] # {} /\ (Replaced(p) \/ gaps[p] \subseteq Late)
    /\ worker[p] \in {"tree", "loops"} => part[p] > 7
    /\ worker[p] \in {"stored", "finished"} /\ score[p] = Placeholder => Lost(p)
    /\ Accountable(p)

ScoreInv ==
    /\ CallInv
    /\ \A p \in Pids : WorkerInv(p)
    /\ \A p \in cards : CardInv(p)

LEMMA InitScore == Init => ScoreInv
BY ScanAssumption DEF Init, ScoreInv, CallInv, WorkerInv, Placeholder

\* A process that is gone stays gone: its PID comes back as another's.
LEMMA KernelKeeps ==
  ASSUME ScanInv, ScoreInv, NEW q \in Pids, Spawn(q) \/ Unshare(q) \/ Die(q)
  PROVE  ScoreInv'
<1> USE DEF call, pool
<1>1. UNCHANGED <<priv, pc, todo, named, cards, cardGen, score, tokens, worker, part, seen, gaps>>
  BY DEF Spawn, Unshare, Die
<1>2. \A p \in Pids : gen[p] \in Nat /\ gen'[p] \in Nat /\ cardGen[p] \in Nat /\ gen[p] <= gen'[p]
  BY DEF Spawn, Unshare, Die, ScanInv, DataOK
<1>3. cards \subseteq Pids /\ named \subseteq Pids
  BY DEF ScanInv, DataOK
<1>4. \A p \in Pids : p \in live' /\ p \notin live => gen'[p] = gen[p] + 1
  BY DEF Spawn, Unshare, Die, ScanInv, DataOK
<1>5. CallInv'
  BY <1>1, <1>2, <1>3 DEF ScoreInv, CallInv
<1>6. \A p \in Pids : WorkerInv(p)'
  BY <1>1 DEF ScoreInv, WorkerInv
<1>7. ASSUME NEW p \in cards PROVE CardInv(p)'
  <2>1. p \in Pids /\ cardGen[p] <= gen[p]
    BY <1>3 DEF ScoreInv, CallInv
  <2>2. Lost(p) => Lost(p)'
    BY <1>1, <1>2, <1>4, <2>1 DEF Lost, Replaced
  <2>3. Replaced(p) => Replaced(p)'
    BY <1>1, <1>2, <2>1 DEF Replaced
  <2>4. cardGen[p]..gen[p] \subseteq cardGen'[p]..gen'[p]
    BY <1>1, <1>2, <2>1
  <2>5. CardInv(p)
    BY DEF ScoreInv
  <2>6. Accountable(p)'
    BY <1>1, <2>2, <2>3, <2>4, <2>5 DEF CardInv, Accountable
  <2> QED
    BY <1>1, <2>2, <2>3, <2>4, <2>5, <2>6 DEF CardInv
<1> QED
  BY <1>1, <1>5, <1>6, <1>7 DEF ScoreInv

\* The steps of the call itself.
LEMMA ListSelfKeeps ==
  ASSUME ScanInv, ScoreInv, ListSelf
  PROVE  ScoreInv'
<1> USE ScanAssumption DEF kernel, pool
<1>1. /\ pc = "idle" /\ pc' = "self" /\ cards' = {Self}
      /\ cardGen' = [cardGen EXCEPT ![Self] = gen[Self]]
      /\ UNCHANGED <<gen, live, named, score, worker, part, seen, gaps>>
  BY DEF ListSelf
<1>2. \A p \in Pids : worker[p] = "none"
  BY <1>1 DEF ScanInv, PoolInv
<1>3. cardGen'[Self] = gen[Self] /\ \A p \in Pids : p # Self => cardGen'[p] = cardGen[p]
  BY <1>1 DEF ScanInv, DataOK
<1>4. gen[Self] \in Nat /\ named \subseteq Pids
  BY DEF ScanInv, DataOK
<1>5. CallInv'
  BY <1>1, <1>3, <1>4 DEF ScoreInv, CallInv
<1>6. \A p \in Pids : WorkerInv(p)'
  BY <1>1, <1>2 DEF ScoreInv, WorkerInv
<1>7. CardInv(Self)'
  BY <1>1, <1>2 DEF ScoreInv, CallInv, WorkerInv, CardInv, Accountable, Placeholder
<1> QED
  BY <1>1, <1>5, <1>6, <1>7 DEF ScoreInv

\* The caller's own report until it is made; nothing a card says changes.
LEMMA AuditSelfKeeps ==
  ASSUME ScanInv, ScoreInv, AuditSelf \/ LoopSelf
  PROVE  ScoreInv'
<1> USE ScanAssumption DEF kernel, pool
<1>1. /\ pc \in {"self", "selftree", "selfloops"} /\ pc' \in {"selftree", "selfloops"}
      /\ UNCHANGED <<gen, live, named, cards, cardGen, score, worker, part, seen, gaps>>
  BY DEF AuditSelf, LoopSelf
<1>2. CallInv'
  BY <1>1 DEF ScoreInv, CallInv
<1>3. \A p \in Pids : WorkerInv(p)'
  BY <1>1 DEF ScoreInv, WorkerInv
<1>4. \A p \in cards' : CardInv(p)'
  BY <1>1 DEF ScoreInv, CardInv, Accountable, Lost, Replaced
<1> QED
  BY <1>2, <1>3, <1>4 DEF ScoreInv

LEMMA ScoreSelfKeeps ==
  ASSUME ScanInv, ScoreInv, ScoreSelf
  PROVE  ScoreInv'
<1> USE ScanAssumption DEF kernel, pool
<1> DEFINE given == [kind |-> "report", of |-> {gen[Self]}, missing |-> {}]
<1>1. /\ pc = "selftree" /\ pc' = "scored" /\ score' = [score EXCEPT ![Self] = given]
      /\ UNCHANGED <<gen, live, named, cards, cardGen, worker, part, seen, gaps>>
  BY DEF ScoreSelf
<1>2. \A p \in Pids : worker[p] = "none"
  BY <1>1 DEF ScanInv, PoolInv
<1>3. cards = {Self} /\ cardGen[Self] <= gen[Self] /\ gen[Self] \in Nat /\ cardGen[Self] \in Nat
  BY <1>1 DEF ScoreInv, CallInv, ScanInv, DataOK
<1>4. score'[Self] = given /\ \A p \in Pids : p # Self => score'[p] = score[p]
  BY <1>1 DEF ScanInv, DataOK
<1>5. CallInv'
  BY <1>1, <1>3, <1>4 DEF ScoreInv, CallInv
<1>6. \A p \in Pids : WorkerInv(p)'
  BY <1>1, <1>2, <1>4 DEF ScoreInv, WorkerInv
<1>7. CardInv(Self)'
  <2>1. Accountable(Self)'
    BY <1>1, <1>3, <1>4 DEF Accountable
  <2>2. CardInv(Self)
    BY <1>3 DEF ScoreInv
  <2> QED
    BY <1>1, <1>2, <2>1, <2>2 DEF CardInv, Lost, Replaced
<1> QED
  BY <1>1, <1>3, <1>5, <1>6, <1>7 DEF ScoreInv

LEMMA ReadNameKeeps ==
  ASSUME ScanInv, ScoreInv, NEW q \in todo, ReadName(q)
  PROVE  ScoreInv'
<1> USE DEF kernel, pool
<1>1. /\ pc = "list" /\ named = {} /\ q \in Pids
      /\ UNCHANGED <<gen, live, pc, cards, score, worker, part, seen, gaps>>
      /\ \/ named' = {q} /\ cardGen' = [cardGen EXCEPT ![q] = gen[q]]
         \/ UNCHANGED <<named, cardGen>>
  BY DEF ReadName, ScanInv, DataOK
<1>2. /\ \A p \in Pids : worker[p] = "none" /\ score[p] = Placeholder
      /\ \A p \in Pids : seen[p] = {} /\ gaps[p] = {} /\ part[p] = 1
  BY <1>1 DEF ScanInv, PoolInv, ScoreInv, CallInv, WorkerInv
<1>3. \A p \in cards' \cup named' : p \in Pids /\ cardGen'[p] <= gen'[p]
  BY <1>1 DEF ScanInv, DataOK, ScoreInv, CallInv
<1>4. CallInv'
  BY <1>1, <1>2, <1>3 DEF CallInv
<1>5. \A p \in Pids : WorkerInv(p)'
  BY <1>1, <1>2 DEF ScoreInv, WorkerInv
<1>6. \A p \in cards' : CardInv(p)'
  BY <1>1, <1>2, <1>3 DEF CardInv, Accountable, Placeholder
<1> QED
  BY <1>4, <1>5, <1>6 DEF ScoreInv

LEMMA ListingKeeps ==
  ASSUME ScanInv, ScoreInv, List \/ Launch \/ \E q \in named : ReadNamespaces(q)
  PROVE  ScoreInv'
<1> USE DEF kernel, pool
<1>1. /\ pc \in {"idle", "list"}
      /\ UNCHANGED <<gen, live, cardGen, score, part, seen, gaps>>
      /\ cards' \cup named' \subseteq cards \cup named /\ cards \cup named \subseteq Pids
  BY DEF List, Launch, ReadNamespaces, ScanInv, DataOK
<1>2. /\ \A p \in Pids : worker[p] = "none" /\ score[p] = Placeholder
      /\ \A p \in Pids : seen[p] = {} /\ gaps[p] = {} /\ part[p] = 1
  BY <1>1 DEF ScanInv, PoolInv, ScoreInv, CallInv, WorkerInv
<1>3. \/ pc' = "list" /\ worker' = worker
      \/ pc' = "wait" /\ worker' = [p \in Pids |-> IF p \in cards THEN "ready" ELSE "none"] /\ cards' = cards
  BY DEF List, Launch, ReadNamespaces
<1>4. CallInv'
  BY <1>1, <1>2, <1>3 DEF ScoreInv, CallInv
<1>5. \A p \in Pids : WorkerInv(p)'
  BY <1>1, <1>2, <1>3 DEF WorkerInv
<1>6. \A p \in cards' : CardInv(p)'
  BY <1>1, <1>2, <1>3 DEF CardInv, Accountable, Placeholder
<1> QED
  BY <1>4, <1>5, <1>6 DEF ScoreInv

\* The call returns when its goroutines have finished, or had none.
LEMMA ReturnKeeps ==
  ASSUME ScanInv, ScoreInv, WaitDone \/ ReturnSelf
  PROVE  ScoreInv'
<1> USE ScanAssumption DEF kernel, pool
<1>1. /\ pc' = "returned"
      /\ UNCHANGED <<gen, live, named, cards, cardGen, score, worker, part, seen, gaps>>
      /\ \/ pc = "wait" /\ \A p \in cards : worker[p] = "finished"
         \/ pc = "scored"
  BY DEF WaitDone, ReturnSelf
<1>2. CallInv'
  BY <1>1 DEF ScoreInv, CallInv
<1>3. \A p \in Pids : WorkerInv(p)'
  BY <1>1 DEF ScoreInv, WorkerInv, CallInv, ScanInv, PoolInv
<1>4. \A p \in cards' : CardInv(p)'
  BY <1>1 DEF ScoreInv, CardInv, Accountable, Lost, Replaced
<1> QED
  BY <1>2, <1>3, <1>4 DEF ScoreInv

LEMMA ForgetKeeps ==
  ASSUME ScanInv, ScoreInv, Forget
  PROVE  ScoreInv'
<1>1. CallInv'
  BY DEF Forget, CallInv, kernel, ScanInv, DataOK
<1>2. \A p \in Pids : WorkerInv(p)'
  BY DEF Forget, WorkerInv, Placeholder
<1> QED
  BY <1>1, <1>2 DEF ScoreInv, Forget

\* The goroutines.  One that takes or gives back its token, or goes into the
\* tree, changes nothing that was read.
LEMMA TokenKeeps ==
  ASSUME ScanInv, ScoreInv, NEW q \in Pids, Acquire(q) \/ ReadTree(q) \/ LoopOn(q) \/ Leave(q)
  PROVE  ScoreInv'
<1> USE DEF kernel, call
<1>1. UNCHANGED <<gen, live, pc, named, cards, cardGen, score, part, seen, gaps>>
  BY DEF Acquire, ReadTree, LoopOn, Leave
<1>2. /\ \A p \in Pids : p # q => worker'[p] = worker[p]
      /\ \/ worker[q] = "ready" /\ worker'[q] = "audit"
         \/ worker[q] = "audit" /\ worker'[q] = "tree" /\ part[q] > 12
         \/ worker[q] \in {"tree", "loops"} /\ worker'[q] = "loops"
         \/ worker[q] = "stored" /\ worker'[q] = "finished"
  BY ReadsFacts DEF Acquire, ReadTree, LoopOn, Leave, ScanInv, WorkOK
<1>3. CallInv'
  BY <1>1 DEF ScoreInv, CallInv
<1>4. ASSUME NEW p \in Pids PROVE WorkerInv(p)'
  BY <1>1, <1>2 DEF ScoreInv, WorkerInv
<1>5. ASSUME NEW p \in cards PROVE CardInv(p)'
  <2>1. p \in Pids /\ CardInv(p) /\ part[p] \in Nat
    BY ReadsFacts DEF ScoreInv, ScanInv, DataOK, WorkOK
  <2>2. Accountable(p)' /\ (Lost(p)' <=> Lost(p)) /\ (Replaced(p)' <=> Replaced(p))
    BY <1>1, <2>1 DEF CardInv, Accountable, Lost, Replaced
  <2>3. worker'[p] \in {"tree", "loops"} => part[p] > 7
    BY <1>2, <2>1 DEF CardInv
  <2>4. worker'[p] \in {"stored", "finished"} => worker[p] \in {"stored", "finished"}
    BY <1>2, <2>1
  <2> QED
    BY <1>1, <2>1, <2>2, <2>3, <2>4 DEF CardInv
<1> QED
  BY <1>1, <1>3, <1>4, <1>5 DEF ScoreInv

LEMMA ReadPartKeeps ==
  ASSUME ScanInv, ScoreInv, NEW q \in Pids, ReadPart(q)
  PROVE  ScoreInv'
<1> USE DEF kernel, call
<1>1. /\ worker[q] = "audit" /\ part[q] \in 1..12
      /\ UNCHANGED <<gen, live, pc, named, cards, cardGen, score>>
  BY ReadsFacts DEF ReadPart, ScanInv, WorkOK
<1>2. q \in cards /\ score[q] = Placeholder
  BY <1>1 DEF ScoreInv, WorkerInv
<1>3. \A p \in Pids : p # q => /\ worker'[p] = worker[p] /\ part'[p] = part[p]
                              /\ seen'[p] = seen[p] /\ gaps'[p] = gaps[p]
  BY DEF ReadPart, Drop, ScanInv, WorkOK
<1>4. \/ /\ q \in live /\ seen'[q] = seen[q] \cup {gen[q]} /\ part'[q] = part[q] + 1
         /\ worker'[q] = "audit" /\ gaps'[q] = gaps[q]
      \/ /\ q \notin live /\ worker'[q] = "stored"
         /\ part'[q] = 1 /\ seen'[q] = {} /\ gaps'[q] = {}
      \/ /\ q \notin live /\ part[q] \notin Required
         /\ gaps'[q] = IF gaps[q] = {} THEN {Reads[part[q]]} ELSE gaps[q]
         /\ part'[q] = part[q] + 1 /\ worker'[q] = "audit" /\ seen'[q] = seen[q]
  BY <1>1 DEF ReadPart, Drop, ScanInv, WorkOK
<1>5. 7 \in Required
  BY DEF Required
<1>6. part[q] > 7 => Reads[part[q]] \in Late
  BY <1>1 DEF Reads, Late
<1>7. CallInv'
  BY <1>1 DEF ScoreInv, CallInv
<1>8. ASSUME NEW p \in Pids PROVE WorkerInv(p)'
  <2>1. CASE p = q
    BY <1>1, <1>2, <1>4, <2>1 DEF ScoreInv, WorkerInv
  <2>2. CASE p # q
    BY <1>1, <1>3, <2>2 DEF ScoreInv, WorkerInv
  <2> QED
    BY <2>1, <2>2
<1>9. ASSUME NEW p \in cards PROVE CardInv(p)'
  <2>1. p \in Pids
    BY DEF ScanInv, DataOK
  <2>2. CASE p # q
    BY <1>1, <1>3, <2>1, <2>2 DEF ScoreInv, CardInv, Accountable, Lost, Replaced
  <2>3. CASE p = q
    <3>1. CardInv(q) /\ cardGen[q] <= gen[q]
      BY <1>2 DEF ScoreInv, CallInv
    <3>2. gen[q] \in Nat /\ cardGen[q] \in Nat
      BY DEF ScanInv, DataOK
    <3>3. Accountable(q)' /\ (Lost(q)' <=> Lost(q)) /\ (Replaced(q)' <=> Replaced(q))
      BY <1>1, <1>2 DEF Accountable, Lost, Replaced, Placeholder
    <3>4. seen'[q] \subseteq cardGen'[q]..gen'[q]
      <4>1. gen[q] \in cardGen[q]..gen[q]
        BY <3>1, <3>2
      <4> QED
        BY <1>1, <1>4, <3>1, <4>1 DEF CardInv
    <3>5. gaps'[q] # {} => Lost(q)
      BY <1>4, <3>1 DEF CardInv, Lost
    <3>6. part'[q] > 7 => seen'[q] # {} /\ (Replaced(q) \/ gaps'[q] \subseteq Late)
      <4>1. CASE part[q] > 7
        BY <1>1, <1>4, <1>6, <3>1, <4>1 DEF CardInv
      <4>2. CASE part[q] = 7
        BY <1>4, <1>5, <3>1, <4>2 DEF CardInv, Lost
      <4>3. CASE part[q] < 7
        BY <1>1, <1>4, <4>3
      <4> QED
        BY <1>1, <4>1, <4>2, <4>3
    <3>7. /\ worker'[q] \in {"stored", "finished"} => Lost(q)
          /\ worker'[q] \notin {"tree", "loops"}
      BY <1>4 DEF Lost
    <3> QED
      BY <2>3, <3>3, <3>4, <3>5, <3>6, <3>7 DEF CardInv
  <2> QED
    BY <2>2, <2>3
<1> QED
  BY <1>1, <1>7, <1>8, <1>9 DEF ScoreInv

LEMMA StoreKeeps ==
  ASSUME ScanInv, ScoreInv, NEW q \in Pids, Store(q)
  PROVE  ScoreInv'
<1> USE DEF kernel, call
<1>1. /\ worker[q] = "tree"
      /\ UNCHANGED <<gen, live, pc, named, cards, cardGen>>
  BY DEF Store
<1>2. q \in cards /\ pc = "wait"
  BY <1>1 DEF ScoreInv, WorkerInv, ScanInv, PoolInv
<1>3. PICK absent \in {{}, {"tree"}} :
        /\ absent # {} => Lost(q)
        /\ score' = [score EXCEPT ![q] = [kind |-> "report", of |-> seen[q],
                                          missing |-> IF gaps[q] = {} THEN absent ELSE gaps[q]]]
  BY DEF Store, Lost
<1> DEFINE given == [kind |-> "report", of |-> seen[q], missing |-> IF gaps[q] = {} THEN absent ELSE gaps[q]]
<1>4. /\ \A p \in Pids : p # q => /\ worker'[p] = worker[p] /\ score'[p] = score[p]
                                 /\ part'[p] = part[p] /\ seen'[p] = seen[p] /\ gaps'[p] = gaps[p]
      /\ worker'[q] = "stored" /\ score'[q] = given
      /\ part'[q] = 1 /\ seen'[q] = {} /\ gaps'[q] = {}
  BY <1>3 DEF Store, Drop, ScanInv, DataOK, WorkOK
<1>5. CallInv'
  BY <1>1, <1>2 DEF ScoreInv, CallInv
<1>6. ASSUME NEW p \in Pids PROVE WorkerInv(p)'
  <2>1. CASE p = q
    BY <1>1, <1>2, <1>4, <2>1 DEF WorkerInv
  <2>2. CASE p # q
    BY <1>1, <1>4, <2>2 DEF ScoreInv, WorkerInv
  <2> QED
    BY <2>1, <2>2
<1>7. ASSUME NEW p \in cards PROVE CardInv(p)'
  <2>1. p \in Pids /\ CardInv(p)
    BY DEF ScoreInv, ScanInv, DataOK
  <2>2. CASE p # q
    BY <1>1, <1>4, <2>1, <2>2 DEF CardInv, Accountable, Lost, Replaced
  <2>3. CASE p = q
    <3>1. CardInv(q) /\ part[q] > 7
      BY <1>1, <2>1, <2>3 DEF CardInv
    <3>2. /\ given.missing # {} => Lost(q)
          /\ ~ Replaced(q) => given.missing \subseteq Late
      BY <1>3, <3>1 DEF CardInv, Late
    <3>3. Accountable(q)'
      BY <1>1, <1>4, <3>1, <3>2 DEF CardInv, Accountable, Lost, Replaced
    <3>4. score'[q] # Placeholder
      BY <1>4 DEF Placeholder
    <3> QED
      BY <1>1, <1>4, <2>3, <3>3, <3>4 DEF CardInv
  <2> QED
    BY <2>2, <2>3
<1> QED
  BY <1>1, <1>5, <1>6, <1>7 DEF ScoreInv

LEMMA NextScore == ScanInv /\ ScoreInv /\ [Next]_vars => ScoreInv'
<1> SUFFICES ASSUME ScanInv, ScoreInv, [Next]_vars PROVE ScoreInv'
  OBVIOUS
<1>1. CASE \E p \in Pids : Spawn(p) \/ Unshare(p) \/ Die(p)
  BY <1>1, KernelKeeps
<1>2. CASE ListSelf \/ List \/ Forget
  BY <1>2, ListSelfKeeps, ListingKeeps, ForgetKeeps
<1>3. CASE Main
  BY <1>3, ReadNameKeeps, ListingKeeps, ReturnKeeps, AuditSelfKeeps, ScoreSelfKeeps DEF Main
<1>4. CASE LoopSelf \/ \E p \in Pids : Goroutine(p) \/ LoopOn(p)
  BY <1>4, AuditSelfKeeps, TokenKeeps, ReadPartKeeps, StoreKeeps DEF Goroutine
<1>5. CASE UNCHANGED vars
  BY <1>5 DEF vars, kernel, call, pool, ScoreInv, CallInv, WorkerInv, CardInv, Accountable, Lost, Replaced
<1> QED
  BY <1>1, <1>2, <1>3, <1>4, <1>5 DEF Next

LEMMA ScoreInvariant == Spec => [](ScanInv /\ ScoreInv)
<1> QED
  BY ScanInvariant, InitScore, NextScore, PTL DEF Spec

\* Whenever and however often processes die and PIDs are given out again, a
\* returned score is of the card's process, or the PID is another's
\* (auditor.go:113-131, report.go:33-93).
THEOREM ScoresAreAccountable == Spec => []ScoresAccountable
<1>1. ScanInv /\ ScoreInv => ScoresAccountable
  <2> SUFFICES ASSUME ScanInv, ScoreInv, pc = "returned", NEW p \in cards
               PROVE  \/ score[p].kind = "report" /\ Accountable(p)
                      \/ score[p] = Placeholder /\ Lost(p)
    BY DEF ScoresAccountable, Accountable, Lost, Late
  <2>1. p \in Pids /\ WorkerInv(p) /\ CardInv(p)
    BY DEF ScoreInv, ScanInv, DataOK
  <2> QED
    BY <2>1 DEF WorkerInv, CardInv
<1> QED
  BY <1>1, ScoreInvariant, PTL

\* No goroutine writes a score into what the call has returned
\* (auditor.go:113-134).
THEOREM ResultIsFinal == Spec => NoLateScore
<1>1. ScanInv /\ ScoreInv /\ [Next]_vars => [pc = "returned" => score' = score \/ pc' = "idle"]_vars
  <2> SUFFICES ASSUME ScanInv, ScoreInv, Next, pc = "returned"
               PROVE  score' = score \/ pc' = "idle"
    OBVIOUS
  <2>1. \A p \in Pids : worker[p] \in {"none", "finished"}
    BY DEF ScoreInv, WorkerInv
  <2> QED
    BY <2>1 DEF Next, Main, Goroutine, Spawn, Unshare, Die, ListSelf, List, ReadName, ReadNamespaces,
                Launch, AuditSelf, LoopSelf, ScoreSelf, ReturnSelf, WaitDone, Acquire, ReadPart,
                ReadTree, LoopOn, Store, Leave, Forget, call, kernel, pool
<1> QED
  BY <1>1, ScoreInvariant, PTL DEF Spec, NoLateScore

(***************************************************************************)
(* The worker pool keeps the safety part of ScanContract: its initial      *)
(* states are the contract's, and each of its steps is one of the          *)
(* contract's or changes nothing a caller can see.  ScanInv and ScoreInv   *)
(* say which goroutines there are and what their cards say.                *)
(***************************************************************************)
\* The refinement mapping, by name: what a caller sees of the call and of
\* one PID.
Phase ==
    CASE pc \in {"idle", "list"} -> "idle"
      [] pc \in {"wait", "self", "selftree", "selfloops", "scored"} -> "open"
      [] pc = "returned" -> "returned"

VerdictOn(p) ==
    CASE p \notin cards \/ pc \in {"idle", "list"} -> "none"
      [] p \in cards /\ score[p].kind = "report" -> "score"
      [] p \in cards /\ score[p] = Placeholder /\ worker[p] \in {"stored", "finished"} -> "placeholder"
      [] p \in cards /\ score[p] = Placeholder /\ (worker[p] = "loops" \/ pc = "selfloops") -> "stalled"
      [] OTHER -> "open"

Verdict == [p \in Pids |-> VerdictOn(p)]

\* The contract under the mapping.
LEMMA Mapped ==
    /\ Contract!Init <=> Phase = "idle" /\ Verdict = [p \in Pids |-> "none"]
    /\ Phase' = Phase /\ Verdict' = Verdict => UNCHANGED Contract!vars
    /\ \A S \in SUBSET Pids :
          /\ Phase = "idle"
          /\ Phase' = "open"
          /\ Verdict' = [p \in Pids |-> IF p \in S THEN "open" ELSE "none"]
          => Contract!Next
    /\ \A p \in Pids, v \in {"score", "placeholder", "stalled"} :
          /\ Phase = "open"
          /\ Phase' = "open"
          /\ Verdict[p] = "open"
          /\ Verdict' = [Verdict EXCEPT ![p] = v]
          => Contract!Next
    /\ /\ Phase = "open"
       /\ \A p \in Pids : Verdict[p] \notin {"open", "stalled"}
       /\ Phase' = "returned"
       /\ Verdict' = Verdict
       => Contract!Next
    /\ /\ Phase = "returned"
       /\ Phase' = "idle"
       /\ Verdict' = [p \in Pids |-> "none"]
       => Contract!Next
<1>1. Contract!Init <=> Phase = "idle" /\ Verdict = [p \in Pids |-> "none"]
  BY DEF Contract!Init, Phase, Verdict, VerdictOn
<1>2. Phase' = Phase /\ Verdict' = Verdict => UNCHANGED Contract!vars
  BY DEF Contract!vars, Phase, Verdict, VerdictOn
<1>3. ASSUME NEW S \in SUBSET Pids, Phase = "idle", Phase' = "open",
             Verdict' = [p \in Pids |-> IF p \in S THEN "open" ELSE "none"]
      PROVE  Contract!Next
  BY <1>3 DEF Contract!Next, Contract!Select, Phase, Verdict, VerdictOn
<1>4. ASSUME NEW p \in Pids, NEW v \in {"score", "placeholder", "stalled"}, Phase = "open", Phase' = "open",
             Verdict[p] = "open", Verdict' = [Verdict EXCEPT ![p] = v]
      PROVE  Contract!Next
  <2>1. CASE v = "stalled"
    BY <1>4, <2>1 DEF Contract!Next, Contract!Stall, Phase, Verdict, VerdictOn
  <2>2. CASE v # "stalled"
    BY <1>4, <2>2 DEF Contract!Next, Contract!Settle, Phase, Verdict, VerdictOn
  <2> QED
    BY <2>1, <2>2
<1>5. ASSUME Phase = "open", \A p \in Pids : Verdict[p] \notin {"open", "stalled"}, Phase' = "returned",
             Verdict' = Verdict
      PROVE  Contract!Next
  BY <1>5 DEF Contract!Next, Contract!Deliver, Phase, Verdict, VerdictOn
<1>6. ASSUME Phase = "returned", Phase' = "idle", Verdict' = [p \in Pids |-> "none"]
      PROVE  Contract!Next
  BY <1>6 DEF Contract!Next, Contract!Forget, Phase, Verdict, VerdictOn
<1> QED
  BY <1>1, <1>2, <1>3, <1>4, <1>5, <1>6
-----------------------------------------------------------------------------
\* A PID's verdict follows from what the invariants say of its card.
LEMMA VerdictFacts ==
    ASSUME ScanInv, ScoreInv, NEW p \in Pids
    PROVE  /\ worker[p] # "none" => p \in cards /\ pc \in {"wait", "returned"}
           /\ worker[p] \in {"ready", "audit", "tree", "loops"} => pc = "wait" /\ score[p] = Placeholder
           /\ score[p].kind = "report" \/ score[p] = Placeholder
           /\ pc = "wait" /\ p \in cards => worker[p] # "none"
BY DEF ScoreInv, WorkerInv, ScanInv, PoolInv

\* Steps of the kernel, of the listing, and of a report before its verdict:
\* nothing a caller can see.
LEMMA Unseen ==
    ASSUME ScanInv, ScoreInv,
           \/ \E p \in Pids : Spawn(p) \/ Unshare(p) \/ Die(p) \/ Acquire(p) \/ ReadTree(p) \/ Leave(p)
           \/ List \/ AuditSelf \/ (\E p \in todo : ReadName(p)) \/ (\E p \in named : ReadNamespaces(p))
           \/ UNCHANGED vars
    PROVE  Phase' = Phase /\ Verdict' = Verdict
<1>1. CASE UNCHANGED <<call, worker>>
  BY <1>1 DEF call, Phase, Verdict, VerdictOn
<1>2. CASE List \/ (\E p \in todo : ReadName(p)) \/ (\E p \in named : ReadNamespaces(p))
  <2>1. pc \in {"idle", "list"} /\ pc' \in {"idle", "list"} /\ UNCHANGED <<score, worker>>
    BY <1>2 DEF List, ReadName, ReadNamespaces, pool
  <2>2. ASSUME NEW p \in Pids
        PROVE  score[p] = Placeholder /\ worker[p] = "none" /\ Placeholder.kind # "report"
    BY <2>1 DEF ScoreInv, CallInv, ScanInv, PoolInv, Placeholder
  <2>3. ASSUME NEW p \in Pids
        PROVE  VerdictOn(p) = "none" /\ VerdictOn(p)' = "none"
    BY <2>1, <2>2 DEF VerdictOn
  <2> QED
    BY <2>1, <2>3 DEF Phase, Verdict
<1>3. ASSUME NEW q \in Pids, Acquire(q) \/ ReadTree(q) \/ Leave(q)
      PROVE  Phase' = Phase /\ Verdict' = Verdict
  <2>1. /\ UNCHANGED call
        /\ \/ worker[q] = "ready" /\ worker' = [worker EXCEPT ![q] = "audit"]
           \/ worker[q] = "audit" /\ worker' = [worker EXCEPT ![q] = "tree"]
           \/ worker[q] = "stored" /\ worker' = [worker EXCEPT ![q] = "finished"]
    BY <1>3 DEF Acquire, ReadTree, Leave
  <2>2. ASSUME NEW p \in Pids
        PROVE  /\ worker'[p] \in {"stored", "finished"} <=> worker[p] \in {"stored", "finished"}
               /\ worker'[p] = "loops" <=> worker[p] = "loops"
    BY <2>1 DEF ScanInv, WorkOK
  <2>3. ASSUME NEW p \in Pids
        PROVE  VerdictOn(p)' = VerdictOn(p)
    BY <2>1, <2>2 DEF VerdictOn, call
  <2> QED
    BY <2>1, <2>3 DEF Phase, Verdict, call
<1>4. CASE AuditSelf
  <2>1. pc = "self" /\ pc' = "selftree" /\ UNCHANGED <<cards, score, worker>>
    BY <1>4 DEF AuditSelf, pool
  <2>2. ASSUME NEW p \in Pids
        PROVE  VerdictOn(p)' = VerdictOn(p)
    BY <2>1 DEF VerdictOn
  <2> QED
    BY <2>1, <2>2 DEF Phase, Verdict
<1> QED
  BY <1>1, <1>2, <1>3, <1>4 DEF Spawn, Unshare, Die, vars, pool

\* The call fixes its processes: the caller alone, or the cards it launches.
LEMMA SelectStep ==
    ASSUME ScanInv, ScoreInv, ListSelf \/ Launch
    PROVE  Contract!Next
<1> USE ScanAssumption
<1>1. ASSUME NEW S \in SUBSET Pids, cards' = S, pc \in {"idle", "list"}, pc' \in {"wait", "self"},
             \A p \in S : score'[p] = Placeholder /\ worker'[p] \in {"none", "ready"}
      PROVE  Contract!Next
  <2>1. Phase = "idle" /\ Phase' = "open"
    BY <1>1 DEF Phase
  <2>2. Placeholder.kind # "report"
    BY DEF Placeholder
  <2>3. ASSUME NEW p \in Pids
        PROVE  VerdictOn(p)' = IF p \in S THEN "open" ELSE "none"
    BY <1>1, <2>2 DEF VerdictOn
  <2>4. Verdict' = [p \in Pids |-> IF p \in S THEN "open" ELSE "none"]
    BY <2>3 DEF Verdict
  <2> QED
    BY <2>1, <2>4, Mapped
<1>2. CASE ListSelf
  <2>1. pc = "idle" /\ pc' = "self" /\ cards' = {Self} /\ UNCHANGED <<score, worker>>
    BY <1>2 DEF ListSelf, pool
  <2>2. score[Self] = Placeholder /\ worker[Self] = "none"
    BY <2>1 DEF ScoreInv, CallInv, ScanInv, PoolInv
  <2> QED
    BY <1>1, <2>1, <2>2
<1>3. CASE Launch
  <2>1. /\ pc = "list" /\ pc' = "wait" /\ UNCHANGED <<cards, score>>
        /\ worker' = [p \in Pids |-> IF p \in cards THEN "ready" ELSE "none"]
    BY <1>3 DEF Launch
  <2>2. cards \in SUBSET Pids /\ \A p \in Pids : score[p] = Placeholder
    BY <2>1 DEF ScoreInv, CallInv, ScanInv, DataOK
  <2> QED
    BY <1>1, <2>1, <2>2
<1> QED
  BY <1>2, <1>3

\* A score stored, a report given up, or one that climbs for ever, is the one
\* verdict on that card.
LEMMA SettleStep ==
    ASSUME ScanInv, ScoreInv, NEW q \in Pids,
           Store(q) \/ (ReadPart(q) /\ worker' # worker) \/ (LoopOn(q) /\ worker' # worker)
    PROVE  Contract!Next
<1>1. q \in cards /\ pc = "wait" /\ score[q] = Placeholder /\ worker[q] \in {"audit", "tree"}
  <2>1. worker[q] \in {"audit", "tree"}
    BY DEF Store, ReadPart, LoopOn, ScanInv, WorkOK
  <2> QED
    BY <2>1, VerdictFacts
<1>2. UNCHANGED <<pc, cards>> /\ \E w \in {"stored", "loops"} : worker' = [worker EXCEPT ![q] = w]
  BY DEF Store, ReadPart, LoopOn, call
<1>3. /\ \A p \in Pids : p # q => score'[p] = score[p]
      /\ score'[q].kind = "report" \/ score'[q] = Placeholder
  <2>1. CASE Store(q)
    <3>1. PICK given \in {[kind |-> "report", of |-> seen[q], missing |-> m] : m \in {gaps[q], {}, {"tree"}}} :
            score' = [score EXCEPT ![q] = given]
      BY <2>1 DEF Store
    <3> QED
      BY <3>1 DEF ScanInv, DataOK
  <2>2. CASE UNCHANGED score
    BY <1>1, <2>2
  <2> QED
    BY <2>1, <2>2 DEF ReadPart, LoopOn, call
<1>4. Placeholder.kind # "report"
  BY DEF Placeholder
<1>5. PICK v \in {"score", "placeholder", "stalled"} : VerdictOn(q)' = v
  BY <1>1, <1>2, <1>3 DEF VerdictOn, ScanInv, WorkOK
<1>6. VerdictOn(q) = "open"
  BY <1>1, <1>4 DEF VerdictOn
<1>7. ASSUME NEW p \in Pids, p # q
      PROVE  VerdictOn(p)' = VerdictOn(p)
  BY <1>2, <1>3, <1>7 DEF VerdictOn, ScanInv, WorkOK
<1>8. Verdict' = [Verdict EXCEPT ![q] = v]
  BY <1>5, <1>7 DEF Verdict
<1>9. Phase = "open" /\ Phase' = "open" /\ Verdict[q] = "open"
  BY <1>1, <1>2, <1>6 DEF Phase, Verdict
<1> QED
  BY <1>8, <1>9, Mapped

\* The other steps of a report leave its card as it is.
LEMMA ReadStep ==
    ASSUME ScanInv, ScoreInv, NEW q \in Pids, ReadPart(q) \/ LoopOn(q), worker' = worker
    PROVE  Phase' = Phase /\ Verdict' = Verdict
<1>1. UNCHANGED <<pc, cards, score, worker>>
  BY DEF ReadPart, LoopOn, call
<1> QED
  BY <1>1 DEF Phase, Verdict, VerdictOn

\* The caller of an unprivileged scan scores itself, or climbs for ever.
LEMMA SelfStep ==
    ASSUME ScanInv, ScoreInv, ScoreSelf \/ (LoopSelf /\ pc = "selftree")
    PROVE  Contract!Next
<1> USE ScanAssumption
<1>1. pc = "selftree" /\ pc' \in {"scored", "selfloops"} /\ cards = {Self} /\ cards' = {Self} /\ UNCHANGED worker
  BY DEF ScoreSelf, LoopSelf, pool, ScoreInv, CallInv
<1>2. score[Self] = Placeholder /\ worker[Self] = "none"
  BY <1>1 DEF ScoreInv, CallInv, ScanInv, PoolInv
<1>3. \/ pc' = "scored" /\ score'[Self].kind = "report"
      \/ pc' = "selfloops" /\ score' = score
  BY DEF ScoreSelf, LoopSelf, ScanInv, DataOK
<1>4. Placeholder.kind # "report"
  BY DEF Placeholder
<1>5. VerdictOn(Self) = "open"
  BY <1>1, <1>2, <1>4 DEF VerdictOn
<1>6. PICK v \in {"score", "stalled"} : VerdictOn(Self)' = v
  BY <1>1, <1>2, <1>3, <1>4 DEF VerdictOn
<1>7. ASSUME NEW p \in Pids, p # Self
      PROVE  VerdictOn(p)' = VerdictOn(p)
  BY <1>1, <1>7 DEF VerdictOn
<1>8. Verdict' = [Verdict EXCEPT ![Self] = v]
  BY <1>6, <1>7 DEF Verdict
<1>9. Phase = "open" /\ Phase' = "open" /\ Verdict[Self] = "open"
  BY <1>1, <1>5 DEF Phase, Verdict
<1> QED
  BY <1>8, <1>9, Mapped

\* Climbing on is nothing new.
LEMMA LoopStep ==
    ASSUME LoopSelf, pc # "selftree"
    PROVE  Phase' = Phase /\ Verdict' = Verdict
BY DEF LoopSelf, pool, Phase, Verdict, VerdictOn

\* A call returns when no verdict is open, and the next starts from nothing.
LEMMA ReturnStep ==
    ASSUME ScanInv, ScoreInv, WaitDone \/ ReturnSelf \/ Forget
    PROVE  Contract!Next
<1> USE ScanAssumption
<1>1. ASSUME pc \in {"wait", "scored"}, pc' = "returned", UNCHANGED <<cards, score, worker>>,
             \A p \in cards : score[p].kind = "report" \/ worker[p] = "finished"
      PROVE  Contract!Next
  <2>1. ASSUME NEW p \in Pids
        PROVE  VerdictOn(p)' = VerdictOn(p) /\ VerdictOn(p) \notin {"open", "stalled"}
    <3>1. VerdictOn(p)' = VerdictOn(p)
      BY <1>1 DEF VerdictOn
    <3>2. CASE p \notin cards
      BY <1>1, <3>1, <3>2 DEF VerdictOn
    <3>3. CASE p \in cards /\ score[p].kind = "report"
      <4>1. score[p] # Placeholder
        BY <3>3 DEF Placeholder
      <4> QED
        BY <1>1, <3>1, <3>3, <4>1 DEF VerdictOn
    <3>4. CASE p \in cards /\ score[p].kind # "report"
      <4>1. score[p] = Placeholder /\ worker[p] = "finished"
        BY <1>1, <3>4, VerdictFacts
      <4> QED
        BY <1>1, <3>1, <3>4, <4>1 DEF VerdictOn
    <3> QED
      BY <3>2, <3>3, <3>4
  <2>2. Phase = "open" /\ Phase' = "returned"
    BY <1>1 DEF Phase
  <2>3. Verdict' = Verdict /\ \A p \in Pids : Verdict[p] \notin {"open", "stalled"}
    BY <2>1 DEF Verdict
  <2> QED
    BY <2>2, <2>3, Mapped
<1>2. CASE WaitDone \/ ReturnSelf
  BY <1>1, <1>2 DEF WaitDone, ReturnSelf, pool, ScoreInv, CallInv
<1>3. CASE Forget
  <2>1. pc = "returned" /\ pc' = "idle" /\ cards' = {}
    BY <1>3 DEF Forget
  <2>2. Phase = "returned" /\ Phase' = "idle"
    BY <2>1 DEF Phase
  <2>3. Verdict' = [p \in Pids |-> "none"]
    BY <2>1 DEF Verdict, VerdictOn
  <2> QED
    BY <2>2, <2>3, Mapped
<1> QED
  BY <1>2, <1>3

\* Whatever processes die or are replaced and however the goroutines are
\* scheduled, a caller sees the contract: one verdict per listed process,
\* each given once, all before the return and none after it, and no return
\* while a report climbs for ever
\* (auditor.go:28-137).
THEOREM PoolKeepsContract == Spec => Contract!Init /\ [][Contract!Next]_(Contract!vars)
<1>1. Init => Contract!Init
  <2>1. Init => Phase = "idle" /\ Verdict = [p \in Pids |-> "none"]
    BY DEF Init, Phase, Verdict, VerdictOn
  <2> QED
    BY <2>1, Mapped
<1>2. ScanInv /\ ScoreInv /\ [Next]_vars => [Contract!Next]_(Contract!vars)
  <2> SUFFICES ASSUME ScanInv, ScoreInv, [Next]_vars
               PROVE  Contract!Next \/ (Phase' = Phase /\ Verdict' = Verdict)
    BY Mapped
  <2>1. CASE ListSelf \/ Launch
    BY <2>1, SelectStep
  <2>2. CASE ScoreSelf \/ LoopSelf
    BY <2>2, SelfStep, LoopStep
  <2>3. CASE WaitDone \/ ReturnSelf \/ Forget
    BY <2>3, ReturnStep
  <2>4. CASE \E p \in Pids : Store(p) \/ ReadPart(p) \/ LoopOn(p)
    BY <2>4, SettleStep, ReadStep
  <2>5. CASE \/ \E p \in Pids : Spawn(p) \/ Unshare(p) \/ Die(p) \/ Acquire(p) \/ ReadTree(p) \/ Leave(p)
             \/ List \/ AuditSelf \/ (\E p \in todo : ReadName(p)) \/ (\E p \in named : ReadNamespaces(p))
             \/ UNCHANGED vars
    BY <2>5, Unseen
  <2> QED
    BY <2>1, <2>2, <2>3, <2>4, <2>5 DEF Next, Main, Goroutine
<1> QED
  BY <1>1, <1>2, ScoreInvariant, PTL DEF Spec
-----------------------------------------------------------------------------
(***************************************************************************)
(* The end of a call.                                                      *)
(***************************************************************************)
\* Can the goroutine of a card take its next step?
CanRun(p) ==
    \/ worker[p] \in {"audit", "tree", "stored"}
    \/ worker[p] = "ready" /\ tokens < Slots

\* The reports that climb for ever.
Climbing == {p \in Pids : worker[p] = "loops"}

\* Nothing but the endless climb can block the pool.  While a goroutine has not
\* finished one can run, or the climbing ones are all that is left, or they hold
\* every slot of the channel: the tokens of all others, of those whose report
\* failed as well, are taken back (auditor.go:116-133).
THEOREM PoolGoesOn ==
    Spec => [](pc = "wait" =>
                 \/ \A p \in cards : worker[p] = "finished"
                 \/ \E p \in cards : CanRun(p)
                 \/ Climbing # {} /\ \A p \in cards : worker[p] \in {"loops", "finished"}
                 \/ Cardinality(Climbing) = Slots)
<1>1. ScanInv /\ ScoreInv =>
        (pc = "wait" => \/ \A p \in cards : worker[p] = "finished"
                        \/ \E p \in cards : CanRun(p)
                        \/ Climbing # {} /\ \A p \in cards : worker[p] \in {"loops", "finished"}
                        \/ Cardinality(Climbing) = Slots)
  <2> SUFFICES ASSUME ScanInv, ScoreInv, pc = "wait", NEW p \in cards, worker[p] # "finished",
                      \A q \in cards : ~ CanRun(q),
                      Climbing = {} \/ \E q \in cards : worker[q] \notin {"loops", "finished"}
               PROVE  Cardinality(Climbing) = Slots
    OBVIOUS
  <2>1. cards \subseteq Pids /\ \A q \in Pids : worker[q] # "none" => q \in cards
    BY VerdictFacts DEF ScanInv, DataOK
  <2>2. Climbing = Auditing
    BY <2>1 DEF Auditing, Climbing, CanRun
  <2>3. \E q \in cards : worker[q] \notin {"loops", "finished"}
    BY <2>1 DEF Climbing
  <2>4. PICK q \in cards : worker[q] = "ready"
    BY <2>1, <2>3, VerdictFacts DEF CanRun, ScanInv, WorkOK
  <2>5. ~ tokens < Slots
    BY <2>4 DEF CanRun
  <2> QED
    BY <2>2, <2>5, ScanAssumption DEF ScanInv, PoolInv, SemaphoreCount
<1> QED
  BY <1>1, ScoreInvariant, PTL

\* How many steps a goroutine still has, at most: its send, the reads of its
\* report, the tree, the store, and what is deferred; one that climbs for ever
\* has none.
Left(p) ==
    CASE worker[p] = "ready" -> 16
      [] worker[p] = "audit" -> 16 - part[p]
      [] worker[p] = "tree" -> 2
      [] worker[p] = "stored" -> 1
      [] OTHER -> 0

\* How many steps are left of the listing: two for each name not yet looked at.
Listing == 2 * Cardinality(todo) + Cardinality(named)

\* No goroutine has more than sixteen.
LEMMA LeftBound == ASSUME ScanInv, NEW p \in Pids PROVE Left(p) \in 0..16
<1>1. part[p] \in 1..13
  BY ReadsFacts DEF ScanInv, WorkOK
<1> QED
  BY <1>1 DEF Left

\* A goroutine's step is one less for it, and none for another.
LEMMA GoroutineShortens ==
  ASSUME ScanInv, NEW p \in Pids, Goroutine(p)
  PROVE  Left(p)' \in Nat /\ Left(p)' < Left(p) /\ \A q \in Pids \ {p} : Left(q)' = Left(q)
<1> USE DEF ScanInv, WorkOK
<1>1. \A q \in Pids \ {p} : worker'[q] = worker[q] /\ part'[q] = part[q]
  BY DEF Goroutine, Acquire, ReadPart, ReadTree, Store, Drop, Leave
<1>2. \A q \in Pids \ {p} : Left(q)' = Left(q)
  BY <1>1 DEF Left
<1>3. part[p] \in 1..13 /\ Len(Reads) = 12
  BY ReadsFacts
<1>4. CASE Acquire(p)
  <2>1. worker[p] = "ready" /\ worker'[p] = "audit" /\ part'[p] = part[p]
    BY <1>4 DEF Acquire
  <2> QED
    BY <1>2, <1>3, <2>1 DEF Left
<1>5. CASE ReadPart(p)
  <2>1. worker[p] = "audit" /\ part[p] <= 12
    BY <1>3, <1>5 DEF ReadPart
  <2>2. \/ worker'[p] = "stored"
        \/ worker'[p] = "audit" /\ part'[p] = part[p] + 1
    BY <1>5 DEF ReadPart
  <2> QED
    BY <1>2, <1>3, <2>1, <2>2 DEF Left
<1>6. CASE ReadTree(p) \/ Store(p) \/ Leave(p)
  <2>1. \/ worker[p] = "audit" /\ worker'[p] = "tree"
        \/ worker[p] = "tree" /\ worker'[p] = "stored"
        \/ worker[p] = "stored" /\ worker'[p] = "finished"
    BY <1>6 DEF ReadTree, Store, Leave
  <2> QED
    BY <1>2, <1>3, <2>1 DEF Left
<1> QED
  BY <1>4, <1>5, <1>6 DEF Goroutine

\* The steps of main and of the processes are nothing to a goroutine, and one
\* that climbs for ever has no more before it.
LEMMA OthersLeave ==
  ASSUME ScanInv, [Next]_vars, pc = "wait", \A p \in Pids : ~ Goroutine(p)
  PROVE  \A p \in Pids : Left(p)' <= Left(p)
<1>1. CASE UNCHANGED <<worker, part>>
  <2>1. \A p \in Pids : Left(p)' = Left(p)
    BY <1>1 DEF Left
  <2> QED
    BY <2>1, LeftBound
<1>2. ASSUME NEW q \in Pids, LoopOn(q)
      PROVE  \A p \in Pids : Left(p)' <= Left(p)
  <2>1. \A p \in Pids : p # q => Left(p)' = Left(p)
    BY <1>2 DEF LoopOn, Left, ScanInv, WorkOK
  <2>2. worker'[q] = "loops"
    BY <1>2 DEF LoopOn, ScanInv, WorkOK
  <2>3. Left(q)' = 0
    BY <2>2 DEF Left
  <2> QED
    BY <2>1, <2>3, LeftBound
<1> QED
  BY <1>1, <1>2
  DEF Next, Main, Spawn, Unshare, Die, ListSelf, List, ReadName, ReadNamespaces, Launch, WaitDone,
      AuditSelf, LoopSelf, ScoreSelf, ReturnSelf, Forget, vars, pool

\* The names are finitely many, and looked at once.
LEMMA ListingShortens ==
  ASSUME ScanInv, pc = "list", Main
  PROVE  pc' = "wait" \/ (Listing \in Nat /\ Listing' \in Nat /\ Listing' < Listing)
<1>1. IsFiniteSet(todo) /\ IsFiniteSet(named) /\ Cardinality(todo) \in Nat /\ Cardinality(named) \in Nat
  BY ScanAssumption, FS_Subset, FS_CardinalityType DEF ScanInv, DataOK
<1>2. ASSUME NEW p \in todo, ReadName(p) PROVE Listing \in Nat /\ Listing' \in Nat /\ Listing' < Listing
  <2>1. named = {} /\ todo' = todo \ {p} /\ named' \in {{}, {p}}
    BY <1>2 DEF ReadName
  <2>2. Cardinality(named) = 0 /\ Cardinality(named') \in {0, 1}
    BY <2>1, FS_EmptySet, FS_Singleton
  <2>3. Cardinality(todo') = Cardinality(todo) - 1 /\ Cardinality(todo') \in Nat
    <3>1. IsFiniteSet(todo \ {p}) /\ Cardinality(todo \ {p}) = Cardinality(todo) - 1
      BY <1>1, <1>2, FS_RemoveElement
    <3>2. Cardinality(todo \ {p}) \in Nat
      BY <3>1, FS_CardinalityType
    <3> QED
      BY <2>1, <3>1, <3>2
  <2> QED
    BY <1>1, <2>2, <2>3 DEF Listing
<1>3. ASSUME NEW p \in named, ReadNamespaces(p) PROVE Listing \in Nat /\ Listing' \in Nat /\ Listing' < Listing
  <2>1. named = {p} /\ named' = {} /\ todo' = todo
    BY <1>3 DEF ReadNamespaces
  <2>2. Cardinality(named) = 1 /\ Cardinality(named') = 0
    BY <2>1, FS_EmptySet, FS_Singleton
  <2>3. Cardinality(todo') = Cardinality(todo)
    BY <2>1
  <2> QED
    BY <1>1, <2>2, <2>3 DEF Listing
<1>4. CASE Launch
  BY <1>4 DEF Launch
<1> QED
  BY <1>2, <1>3, <1>4 DEF Main, WaitDone, AuditSelf, ScoreSelf, ReturnSelf

\* A call looks at each name once, and each of its goroutines has sixteen steps at
\* most before it has finished or climbs for ever (LoopOn), none of which makes
\* those of another more, whichever processes die under it and whichever PIDs
\* come back: no part of a report is tried again
\* (auditor.go:72-132, report.go:32-116).
THEOREM ScanShortens ==
    Spec => [][/\ pc = "list" /\ Main => pc' = "wait" \/ (Listing \in Nat /\ Listing' \in Nat /\ Listing' < Listing)
               /\ pc = "wait" => \A p \in Pids : /\ Left(p) \in 0..16
                                                 /\ Left(p)' <= Left(p)
                                                 /\ Goroutine(p) => Left(p)' < Left(p)]_vars
<1>1. ScanInv /\ [Next]_vars =>
        [/\ pc = "list" /\ Main => pc' = "wait" \/ (Listing \in Nat /\ Listing' \in Nat /\ Listing' < Listing)
         /\ pc = "wait" => \A p \in Pids : /\ Left(p) \in 0..16
                                           /\ Left(p)' <= Left(p)
                                           /\ Goroutine(p) => Left(p)' < Left(p)]_vars
  <2> SUFFICES ASSUME ScanInv, [Next]_vars, pc = "wait", NEW p \in Pids
               PROVE  /\ Left(p) \in 0..16
                      /\ Left(p)' <= Left(p)
                      /\ Goroutine(p) => Left(p)' < Left(p)
    BY ListingShortens
  <2>1. Left(p) \in 0..16
    BY LeftBound
  <2>2. CASE \E q \in Pids : Goroutine(q)
    BY <2>1, <2>2, GoroutineShortens
  <2>3. CASE \A q \in Pids : ~ Goroutine(q)
    BY <2>1, <2>3, OthersLeave
  <2> QED
    BY <2>2, <2>3
<1> QED
  BY <1>1, ScanInvariant, PTL DEF Spec
=============================================================================
