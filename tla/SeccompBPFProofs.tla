--------------------------- MODULE SeccompBPFProofs ---------------------------
(***************************************************************************)
(* Proofs about SeccompBPF, for programs of any length and number of rules *)
(* that meet FiltersAssumption, any number of filters and any interleaving *)
(* of their installation with the audit.                                   *)
(*                                                                         *)
(* What a program returns and what resolveJumpAction makes of it are       *)
(* defined by recursion over its instructions.  The lemmas of the first    *)
(* two parts show that the functions so defined exist: a table of the      *)
(* instructions from i on is built for ever smaller i, and were there an i *)
(* without one, there would be a greatest.  What follows uses only their   *)
(* equations, RunSteps and ResolveSteps.                                   *)
(***************************************************************************)
EXTENDS SeccompBPF, WellFoundedInduction, NaturalsInduction, TLAPS

ActionNames == {Actions[i] : i \in DOMAIN Actions}
Calls == [nr : Nat, arch : Nat, arg : Nat]

\* A set of numbers has a least one: what induction over a program rests on.
LEMMA LeastNumber ==
  ASSUME NEW S \in SUBSET Nat, S # {}
  PROVE  \E n \in S : \A m \in S : n <= m
<1>1. \E n \in S : \A m \in S : <<m, n>> \notin OpToRel(<, Nat)
  BY NatLessThanWellFounded, WFMin
<1>2. \E n \in S : \A m \in S : ~ m < n
  BY <1>1 DEF OpToRel
<1> QED
  BY <1>2

\* What is an instruction, and where it leads.
LEMMA Places ==
  ASSUME NEW prog, WellFormed(prog)
  PROVE  /\ Len(prog) \in Nat /\ Len(prog) >= 1 /\ DOMAIN prog = 1..Len(prog)
         /\ \A i \in DOMAIN prog : prog[i] \in Instructions
         /\ Len(prog) \in Rets(prog)
<1>1. prog \in Seq(Instructions) /\ prog # <<>> /\ prog[Len(prog)].op = "ret"
  BY DEF WellFormed
<1>2. Len(prog) \in Nat /\ DOMAIN prog = 1..Len(prog) /\ Len(prog) >= 1
  BY <1>1
<1>3. \A i \in DOMAIN prog : prog[i] \in Instructions
  BY <1>1
<1> QED
  BY <1>1, <1>2, <1>3 DEF Rets

LEMMA Kinds ==
  ASSUME NEW prog, WellFormed(prog), NEW i \in DOMAIN prog
  PROVE  /\ i \in Nat \ {0}
         /\ prog[i].op \in {"ret", "ld", "ja", "jeq", "jge"}
         /\ prog[i].op = "ret" => prog[i].action \in ActionNames
         /\ prog[i].op = "ld" => prog[i].word \in {"nr", "arch", "arg"} /\ i + 1 \in DOMAIN prog
         /\ prog[i].op = "ja" => prog[i].k \in Nat /\ i + 1 + prog[i].k \in DOMAIN prog
         /\ prog[i].op \in {"jeq", "jge"} =>
              /\ prog[i].k \in Nat /\ prog[i].jt \in Nat /\ prog[i].jf \in Nat
              /\ Yes(prog, i) \in DOMAIN prog /\ No(prog, i) \in DOMAIN prog
<1>1. /\ Len(prog) \in Nat /\ DOMAIN prog = 1..Len(prog) /\ prog[i] \in Instructions
      /\ prog[Len(prog)].op = "ret"
  BY Places DEF Rets
<1>2. /\ prog[i].op \in {"ret", "ld", "ja", "jeq", "jge"}
      /\ prog[i].op = "ret" => prog[i].action \in ActionNames
      /\ prog[i].op = "ld" => prog[i].word \in {"nr", "arch", "arg"}
      /\ prog[i].op = "ja" => prog[i].k \in Nat
      /\ prog[i].op \in {"jeq", "jge"} => prog[i].k \in Nat /\ prog[i].jt \in Nat /\ prog[i].jf \in Nat
  BY <1>1 DEF Instructions, ActionNames
<1>3. prog[i].op = "ld" => i + 1 \in DOMAIN prog
  BY <1>1
<1>4. prog[i].op = "ja" => i + 1 + prog[i].k \in DOMAIN prog
  BY <1>1, <1>2 DEF WellFormed
<1>5. prog[i].op \in {"jeq", "jge"} => Yes(prog, i) \in DOMAIN prog /\ No(prog, i) \in DOMAIN prog
  <2> SUFFICES ASSUME prog[i].op \in {"jeq", "jge"}
               PROVE  Yes(prog, i) \in DOMAIN prog /\ No(prog, i) \in DOMAIN prog
    OBVIOUS
  <2>1. Yes(prog, i) <= Len(prog) /\ No(prog, i) <= Len(prog)
    BY DEF WellFormed, Conditions
  <2> QED
    BY <1>1, <1>2, <2>1 DEF Yes, No
<1> QED
  BY <1>1, <1>2, <1>3, <1>4, <1>5

(***************************************************************************)
(* Running a program.                                                      *)
(***************************************************************************)
LEMMA CallWord ==
  ASSUME NEW call \in Calls, NEW word \in {"nr", "arch", "arg"}
  PROVE  call[word] \in Nat
BY DEF Calls

\* An instruction looks only at those behind it.
LEMMA ExecuteSame ==
  ASSUME NEW prog, WellFormed(prog), NEW call \in Calls, NEW i \in DOMAIN prog, NEW acc \in Nat,
         NEW f, NEW g, \A j \in DOMAIN prog : j > i => f[j] = g[j]
  PROVE  Execute(prog[i], i, acc, call, f) = Execute(prog[i], i, acc, call, g)
<1>1. i \in Nat /\ prog[i].op \in {"ret", "ld", "ja", "jeq", "jge"}
  BY Kinds
<1>2. CASE prog[i].op = "ret"
  BY <1>2 DEF Execute
<1>3. CASE prog[i].op = "ld"
  <2>1. i + 1 \in DOMAIN prog /\ i + 1 > i
    BY <1>1, <1>3, Kinds
  <2> QED
    BY <1>3, <2>1 DEF Execute
<1>4. CASE prog[i].op = "ja"
  <2>1. i + 1 + prog[i].k \in DOMAIN prog /\ i + 1 + prog[i].k > i
    BY <1>1, <1>4, Kinds
  <2> QED
    BY <1>4, <2>1 DEF Execute
<1>5. CASE prog[i].op \in {"jeq", "jge"}
  <2>1. /\ i + 1 + prog[i].jt \in DOMAIN prog /\ i + 1 + prog[i].jt > i
        /\ i + 1 + prog[i].jf \in DOMAIN prog /\ i + 1 + prog[i].jf > i
    BY <1>1, <1>5, Kinds DEF Yes, No
  <2> QED
    BY <1>5, <2>1 DEF Execute
<1> QED
  BY <1>1, <1>2, <1>3, <1>4, <1>5

LEMMA ExecuteType ==
  ASSUME NEW prog, WellFormed(prog), NEW call \in Calls, NEW i \in DOMAIN prog, NEW acc \in Nat,
         NEW f, \A j \in DOMAIN prog : j > i => f[j] \in [Nat -> ActionNames]
  PROVE  Execute(prog[i], i, acc, call, f) \in ActionNames
<1>1. i \in Nat /\ prog[i].op \in {"ret", "ld", "ja", "jeq", "jge"}
  BY Kinds
<1>2. CASE prog[i].op = "ret"
  BY <1>2, Kinds DEF Execute
<1>3. CASE prog[i].op = "ld"
  <2>1. i + 1 \in DOMAIN prog /\ i + 1 > i /\ call[prog[i].word] \in Nat
    BY <1>1, <1>3, Kinds, CallWord
  <2> QED
    BY <1>3, <2>1 DEF Execute
<1>4. CASE prog[i].op = "ja"
  <2>1. i + 1 + prog[i].k \in DOMAIN prog /\ i + 1 + prog[i].k > i
    BY <1>1, <1>4, Kinds
  <2> QED
    BY <1>4, <2>1 DEF Execute
<1>5. CASE prog[i].op \in {"jeq", "jge"}
  <2>1. /\ i + 1 + prog[i].jt \in DOMAIN prog /\ i + 1 + prog[i].jt > i
        /\ i + 1 + prog[i].jf \in DOMAIN prog /\ i + 1 + prog[i].jf > i
    BY <1>1, <1>5, Kinds DEF Yes, No
  <2>2. f[i + 1 + prog[i].jt][acc] \in ActionNames /\ f[i + 1 + prog[i].jf][acc] \in ActionNames
    BY <2>1
  <2>3. CASE prog[i].op = "jeq"
    BY <2>2, <2>3 DEF Execute
  <2>4. CASE prog[i].op = "jge"
    BY <2>2, <2>4 DEF Execute
  <2> QED
    BY <1>5, <2>3, <2>4
<1> QED
  BY <1>1, <1>2, <1>3, <1>4, <1>5

\* f has what a program returns from each instruction behind n on.
Evaluates(f, prog, call, n) ==
    /\ f \in [DOMAIN prog -> [Nat -> ActionNames]]
    /\ \A i \in DOMAIN prog : i > n => f[i] = [acc \in Nat |-> Execute(prog[i], i, acc, call, f)]

LEMMA EvaluatesBefore ==
  ASSUME NEW prog, WellFormed(prog), NEW call \in Calls, NEW n \in DOMAIN prog, NEW f,
         Evaluates(f, prog, call, n)
  PROVE  \E g : Evaluates(g, prog, call, n - 1)
<1> DEFINE row == [acc \in Nat |-> Execute(prog[n], n, acc, call, f)]
           g == [f EXCEPT ![n] = row]
<1>1. n \in Nat /\ DOMAIN prog \subseteq Nat
  BY Places
<1>2. f \in [DOMAIN prog -> [Nat -> ActionNames]]
  BY DEF Evaluates
<1>3. row \in [Nat -> ActionNames]
  BY <1>2, ExecuteType
<1> HIDE DEF row
<1>4. g \in [DOMAIN prog -> [Nat -> ActionNames]]
  BY <1>2, <1>3
<1>5. \A j \in DOMAIN prog : j > n => f[j] = g[j]
  BY <1>1, <1>2
<1>6. ASSUME NEW i \in DOMAIN prog, i > n - 1
      PROVE  g[i] = [acc \in Nat |-> Execute(prog[i], i, acc, call, g)]
  <2>1. \A j \in DOMAIN prog : j > i => f[j] = g[j]
    BY <1>1, <1>5, <1>6
  <2>2. \A acc \in Nat : Execute(prog[i], i, acc, call, f) = Execute(prog[i], i, acc, call, g)
    <3> HIDE DEF g
    <3> QED
      BY <2>1, ExecuteSame
  <2>3. [acc \in Nat |-> Execute(prog[i], i, acc, call, f)]
          = [acc \in Nat |-> Execute(prog[i], i, acc, call, g)]
    BY <2>2
  <2>4. CASE i = n
    BY <1>2, <2>3, <2>4 DEF row
  <2>5. CASE i # n
    <3>1. i > n
      BY <1>1, <1>6, <2>5
    <3>2. f[i] = [acc \in Nat |-> Execute(prog[i], i, acc, call, f)]
      BY <3>1 DEF Evaluates
    <3> QED
      BY <1>5, <2>3, <3>1, <3>2
  <2> QED
    BY <2>4, <2>5
<1>7. Evaluates(g, prog, call, n - 1)
  BY <1>4, <1>6 DEF Evaluates
<1> QED
  BY <1>7

LEMMA EvaluationExists ==
  ASSUME NEW prog, WellFormed(prog), NEW call \in Calls
  PROVE  \E f : Evaluates(f, prog, call, 0)
<1> DEFINE Good == {n \in 0..Len(prog) : \E f : Evaluates(f, prog, call, n)}
<1>1. Len(prog) \in Nat /\ DOMAIN prog = 1..Len(prog)
  BY Places
<1>2. Len(prog) \in Good
  <2> DEFINE f == [i \in DOMAIN prog |-> [acc \in Nat |-> "ALLOW"]]
  <2>1. f \in [DOMAIN prog -> [Nat -> ActionNames]]
    BY DEF ActionNames, Actions
  <2>2. Evaluates(f, prog, call, Len(prog))
    BY <1>1, <2>1 DEF Evaluates
  <2> QED
    BY <1>1, <2>2
<1>3. Good \in SUBSET Nat
  BY <1>1
<1>4. PICK n \in Good : \A m \in Good : n <= m
  <2> HIDE DEF Good
  <2> QED
    BY <1>2, <1>3, LeastNumber
<1>5. CASE n = 0
  BY <1>4, <1>5
<1>6. CASE n # 0
  <2>1. n \in DOMAIN prog /\ n - 1 \in 0..Len(prog) /\ n \in Nat
    BY <1>1, <1>4, <1>6
  <2>2. \E f : Evaluates(f, prog, call, n - 1)
    BY <1>4, <2>1, EvaluatesBefore
  <2>3. n - 1 \in Good
    BY <2>1, <2>2
  <2> QED
    BY <1>4, <2>1, <2>3
<1> QED
  BY <1>5, <1>6

LEMMA RunFromEquation ==
  ASSUME NEW prog, WellFormed(prog), NEW call \in Calls
  PROVE  /\ DOMAIN RunFrom(prog, call) = DOMAIN prog
         /\ \A i \in DOMAIN prog :
              /\ RunFrom(prog, call)[i] \in [Nat -> ActionNames]
              /\ \A acc \in Nat : RunFrom(prog, call)[i][acc] = Execute(prog[i], i, acc, call, RunFrom(prog, call))
<1> DEFINE R == RunFrom(prog, call)
<1>0. Len(prog) \in Nat /\ DOMAIN prog = 1..Len(prog)
  BY Places
<1>1. PICK f : Evaluates(f, prog, call, 0)
  BY EvaluationExists
<1>2. f = [i \in DOMAIN prog |-> [acc \in Nat |-> Execute(prog[i], i, acc, call, f)]]
  <2>1. f = [i \in DOMAIN prog |-> f[i]]
    BY <1>1 DEF Evaluates
  <2>2. \A i \in DOMAIN prog : f[i] = [acc \in Nat |-> Execute(prog[i], i, acc, call, f)]
    BY <1>0, <1>1 DEF Evaluates
  <2> QED
    BY <2>1, <2>2
<1>3. R = CHOOSE from : from = [i \in DOMAIN prog |->
                                   [acc \in Nat |-> Execute(prog[i], i, acc, call, from)]]
  BY DEF RunFrom
<1> HIDE DEF R
<1>4. R = [i \in DOMAIN prog |-> [acc \in Nat |-> Execute(prog[i], i, acc, call, R)]]
  BY <1>2, <1>3
<1>5. \A i \in DOMAIN prog : R[i] = [acc \in Nat |-> Execute(prog[i], i, acc, call, R)]
  BY <1>4
<1> DEFINE Bad == {n \in 0..Len(prog) : Len(prog) - n \in DOMAIN prog /\ R[Len(prog) - n] \notin [Nat -> ActionNames]}
<1>6. Bad = {}
  <2> SUFFICES ASSUME Bad # {} PROVE FALSE
    OBVIOUS
  <2>1. Bad \in SUBSET Nat
    OBVIOUS
  <2>2. PICK n \in Bad : \A m \in Bad : n <= m
    <3> HIDE DEF Bad
    <3> QED
      BY <2>1, LeastNumber
  <2> DEFINE i == Len(prog) - n
  <2>3. i \in DOMAIN prog /\ n \in Nat /\ i \in Nat
    BY <1>0, <2>2
  <2>4. \A j \in DOMAIN prog : j > i => R[j] \in [Nat -> ActionNames]
    <3> SUFFICES ASSUME NEW j \in DOMAIN prog, j > i, R[j] \notin [Nat -> ActionNames] PROVE FALSE
      OBVIOUS
    <3>1. Len(prog) - j \in 0..Len(prog) /\ Len(prog) - (Len(prog) - j) = j
      BY <1>0, SMTT(30)
    <3>2. Len(prog) - j \in Bad
      BY <3>1
    <3>3. n <= Len(prog) - j
      BY <2>2, <3>2
    <3> QED
      BY <1>0, <2>3, <3>3
  <2>5. \A acc \in Nat : Execute(prog[i], i, acc, call, R) \in ActionNames
    BY <2>3, <2>4, ExecuteType
  <2>6. R[i] \in [Nat -> ActionNames]
    BY <1>5, <2>3, <2>5
  <2> QED
    BY <2>2, <2>6
<1>7. \A i \in DOMAIN prog : R[i] \in [Nat -> ActionNames]
  <2> SUFFICES ASSUME NEW i \in DOMAIN prog, R[i] \notin [Nat -> ActionNames] PROVE FALSE
    OBVIOUS
  <2>1. Len(prog) - i \in 0..Len(prog) /\ Len(prog) - (Len(prog) - i) = i
    BY <1>0
  <2>2. Len(prog) - i \in Bad
    BY <2>1
  <2> QED
    BY <1>6, <2>2
<1>8. DOMAIN R = DOMAIN prog
  BY <1>4
<1> QED
  BY <1>5, <1>7, <1>8 DEF R

LEMMA RunSteps ==
  ASSUME NEW prog, WellFormed(prog), NEW call \in Calls, NEW i \in DOMAIN prog, NEW acc \in Nat
  PROVE  /\ RunFrom(prog, call)[i][acc] \in ActionNames
         /\ prog[i].op = "ret" => RunFrom(prog, call)[i][acc] = prog[i].action
         /\ prog[i].op = "ld" =>
              RunFrom(prog, call)[i][acc] = RunFrom(prog, call)[i + 1][call[prog[i].word]]
         /\ prog[i].op = "ja" =>
              RunFrom(prog, call)[i][acc] = RunFrom(prog, call)[i + 1 + prog[i].k][acc]
         /\ prog[i].op = "jeq" =>
              RunFrom(prog, call)[i][acc]
                = RunFrom(prog, call)[IF acc = prog[i].k THEN Yes(prog, i) ELSE No(prog, i)][acc]
         /\ prog[i].op = "jge" =>
              RunFrom(prog, call)[i][acc]
                = RunFrom(prog, call)[IF acc >= prog[i].k THEN Yes(prog, i) ELSE No(prog, i)][acc]
<1> DEFINE R == RunFrom(prog, call)
<1>1. R[i] \in [Nat -> ActionNames] /\ R[i][acc] = Execute(prog[i], i, acc, call, R)
  BY RunFromEquation
<1> HIDE DEF R
<1>2. R[i][acc] \in ActionNames
  BY <1>1
<1>3. prog[i].op = "ret" => R[i][acc] = prog[i].action
  BY <1>1 DEF Execute
<1>4. prog[i].op = "ld" => R[i][acc] = R[i + 1][call[prog[i].word]]
  BY <1>1 DEF Execute
<1>5. prog[i].op = "ja" => R[i][acc] = R[i + 1 + prog[i].k][acc]
  BY <1>1 DEF Execute
<1>6. prog[i].op = "jeq" => R[i][acc] = R[IF acc = prog[i].k THEN Yes(prog, i) ELSE No(prog, i)][acc]
  BY <1>1 DEF Execute, Yes, No
<1>7. prog[i].op = "jge" => R[i][acc] = R[IF acc >= prog[i].k THEN Yes(prog, i) ELSE No(prog, i)][acc]
  BY <1>1 DEF Execute, Yes, No
<1> QED
  BY <1>2, <1>3, <1>4, <1>5, <1>6, <1>7 DEF R

(***************************************************************************)
(* Following a program without running it.                                 *)
(***************************************************************************)
Answers   == ActionNames \cup {Custom}
Positions == Nat \ {0}

\* What from[n] is, if next is from[n + 1].
ResolveRow(prog, n, next) ==
    [i \in Positions |-> IF n = Steps \/ i > Len(prog) THEN Custom ELSE Follow(prog[i], i, next)]

LEMMA ResolveRowType ==
  ASSUME NEW prog, WellFormed(prog), NEW n \in 0..Steps, NEW next,
         n # Steps => next \in [Positions -> Answers]
  PROVE  ResolveRow(prog, n, next) \in [Positions -> Answers]
<1> SUFFICES ASSUME NEW i \in Positions, n # Steps, ~ i > Len(prog)
             PROVE  Follow(prog[i], i, next) \in Answers
  BY DEF ResolveRow, Answers
<1>1. i \in DOMAIN prog /\ next \in [Positions -> Answers] /\ DOMAIN prog \subseteq Positions
  BY Places DEF Positions
<1>2. prog[i].op \in {"ret", "ld", "ja", "jeq", "jge"}
  BY <1>1, Kinds
<1>3. CASE prog[i].op = "ret"
  BY <1>1, <1>3, Kinds DEF Follow, Answers
<1>4. CASE prog[i].op = "ld"
  <2>1. i + 1 \in Positions
    BY <1>1, <1>4, Kinds
  <2> QED
    BY <1>1, <1>4, <2>1 DEF Follow
<1>5. CASE prog[i].op = "ja"
  <2>1. i + 1 + prog[i].k \in Positions
    BY <1>1, <1>5, Kinds
  <2> QED
    BY <1>1, <1>5, <2>1 DEF Follow
<1>6. CASE prog[i].op \in {"jeq", "jge"}
  <2>1. i + 1 + prog[i].jt \in Positions
    BY <1>1, <1>6, Kinds DEF Yes
  <2> QED
    BY <1>1, <1>6, <2>1 DEF Follow
<1> QED
  BY <1>2, <1>3, <1>4, <1>5, <1>6

\* f has what is followed to after n steps and more.
Resolves(f, prog, n) ==
    /\ f \in [0..Steps -> [Positions -> Answers]]
    /\ \A d \in 0..Steps : d >= n => f[d] = ResolveRow(prog, d, f[d + 1])

LEMMA ResolvesBefore ==
  ASSUME NEW prog, WellFormed(prog), NEW n \in 1..Steps + 1, NEW f, Resolves(f, prog, n)
  PROVE  \E g : Resolves(g, prog, n - 1)
<1> DEFINE row == ResolveRow(prog, n - 1, f[n])
           g == [f EXCEPT ![n - 1] = row]
<1>0. Steps \in Nat
  BY DEF Steps
<1>1. n \in Nat /\ n - 1 \in 0..Steps
  BY <1>0
<1>2. f \in [0..Steps -> [Positions -> Answers]]
  BY DEF Resolves
<1>3. row \in [Positions -> Answers]
  <2>1. n - 1 # Steps => f[n] \in [Positions -> Answers]
    BY <1>0, <1>1, <1>2
  <2> QED
    BY <1>1, <2>1, ResolveRowType
<1> HIDE DEF row
<1>4. g \in [0..Steps -> [Positions -> Answers]]
  BY <1>2, <1>3
<1>5. \A d \in 0..Steps : d >= n => g[d] = f[d]
  BY <1>1, <1>2
<1>6. g[n - 1] = row
  BY <1>1, <1>2
<1>7. ASSUME NEW d \in 0..Steps, d >= n - 1
      PROVE  g[d] = ResolveRow(prog, d, g[d + 1])
  <2> HIDE DEF g
  <2>1. ResolveRow(prog, d, g[d + 1]) = ResolveRow(prog, d, f[d + 1])
    <3>1. CASE d = Steps
      BY <3>1 DEF ResolveRow
    <3>2. CASE d # Steps
      <4>1. d + 1 \in 0..Steps /\ d + 1 >= n
        BY <1>0, <1>1, <1>7, <3>2
      <4> QED
        BY <1>5, <4>1
    <3> QED
      BY <3>1, <3>2
  <2>2. CASE d = n - 1
    <3>1. d + 1 = n
      BY <1>1, <2>2
    <3> QED
      BY <1>6, <2>1, <2>2, <3>1 DEF row
  <2>3. CASE d # n - 1
    <3>1. d >= n
      BY <1>1, <1>7, <2>3
    <3> QED
      BY <1>5, <2>1, <3>1 DEF Resolves
  <2> QED
    BY <2>2, <2>3
<1>8. Resolves(g, prog, n - 1)
  BY <1>4, <1>7 DEF Resolves
<1> QED
  BY <1>8

LEMMA ResolutionExists ==
  ASSUME NEW prog, WellFormed(prog)
  PROVE  \E f : Resolves(f, prog, 0)
<1> DEFINE Good == {n \in 0..Steps + 1 : \E f : Resolves(f, prog, n)}
<1>0. Steps \in Nat
  BY DEF Steps
<1>1. Steps + 1 \in Good
  <2> DEFINE f == [d \in 0..Steps |-> [i \in Positions |-> Custom]]
  <2>1. f \in [0..Steps -> [Positions -> Answers]]
    BY DEF Answers
  <2>2. Resolves(f, prog, Steps + 1)
    <3> HIDE DEF f
    <3> QED
      BY <1>0, <2>1 DEF Resolves
  <2> QED
    BY <1>0, <2>2
<1>2. Good \in SUBSET Nat
  BY <1>0
<1>3. PICK n \in Good : \A m \in Good : n <= m
  <2> HIDE DEF Good
  <2> QED
    BY <1>1, <1>2, LeastNumber
<1>4. CASE n = 0
  BY <1>3, <1>4
<1>5. CASE n # 0
  <2>1. n \in 1..Steps + 1 /\ n - 1 \in 0..Steps + 1 /\ n \in Nat
    BY <1>0, <1>3, <1>5
  <2>2. \E f : Resolves(f, prog, n - 1)
    BY <1>3, <2>1, ResolvesBefore
  <2>3. n - 1 \in Good
    BY <2>1, <2>2
  <2> QED
    BY <1>3, <2>1, <2>3
<1> QED
  BY <1>4, <1>5

LEMMA ResolveFromEquation ==
  ASSUME NEW prog, WellFormed(prog)
  PROVE  /\ \A n \in 0..Steps : ResolveFrom(prog)[n] = ResolveRow(prog, n, ResolveFrom(prog)[n + 1])
         /\ \A n \in 0..Steps : ResolveFrom(prog)[n] \in [Positions -> Answers]
<1> DEFINE R == ResolveFrom(prog)
<1>0. Steps \in Nat
  BY DEF Steps
<1>1. PICK f : Resolves(f, prog, 0)
  BY ResolutionExists
<1>2. f = [n \in 0..Steps |-> ResolveRow(prog, n, f[n + 1])]
  <2>1. f = [n \in 0..Steps |-> f[n]]
    BY <1>1 DEF Resolves
  <2>2. \A n \in 0..Steps : f[n] = ResolveRow(prog, n, f[n + 1])
    BY <1>0, <1>1 DEF Resolves
  <2> QED
    BY <2>1, <2>2
<1>3. R = CHOOSE from : from = [n \in 0..Steps |-> ResolveRow(prog, n, from[n + 1])]
  BY DEF ResolveFrom, ResolveRow, Positions
<1> HIDE DEF R
<1>4. R = [n \in 0..Steps |-> ResolveRow(prog, n, R[n + 1])]
  BY <1>2, <1>3
<1>5. \A n \in 0..Steps : R[n] = ResolveRow(prog, n, R[n + 1])
  BY <1>4
<1> DEFINE Bad == {d \in 0..Steps : R[Steps - d] \notin [Positions -> Answers]}
<1>6. Bad = {}
  <2> SUFFICES ASSUME Bad # {} PROVE FALSE
    OBVIOUS
  <2>1. Bad \in SUBSET Nat
    BY <1>0
  <2>2. PICK d \in Bad : \A m \in Bad : d <= m
    <3> HIDE DEF Bad
    <3> QED
      BY <2>1, LeastNumber
  <2> DEFINE n == Steps - d
  <2>3. d \in 0..Steps /\ n \in 0..Steps /\ R[n] \notin [Positions -> Answers] /\ d \in Nat
    BY <1>0, <2>2
  <2>4. n # Steps => R[n + 1] \in [Positions -> Answers]
    <3> SUFFICES ASSUME n # Steps, R[n + 1] \notin [Positions -> Answers] PROVE FALSE
      OBVIOUS
    <3>1. d - 1 \in 0..Steps /\ Steps - (d - 1) = n + 1
      BY <1>0, <2>3
    <3>2. d - 1 \in Bad
      BY <3>1
    <3> QED
      BY <2>2, <2>3, <3>2
  <2>5. ResolveRow(prog, n, R[n + 1]) \in [Positions -> Answers]
    BY <2>3, <2>4, ResolveRowType
  <2> QED
    BY <1>5, <2>3, <2>5
<1>7. \A n \in 0..Steps : R[n] \in [Positions -> Answers]
  <2> SUFFICES ASSUME NEW n \in 0..Steps, R[n] \notin [Positions -> Answers] PROVE FALSE
    OBVIOUS
  <2>1. Steps - n \in 0..Steps /\ Steps - (Steps - n) = n
    BY <1>0
  <2>2. Steps - n \in Bad
    BY <2>1
  <2> QED
    BY <1>6, <2>2
<1> QED
  BY <1>5, <1>7 DEF R

LEMMA ResolveSteps ==
  ASSUME NEW prog, WellFormed(prog), NEW i \in DOMAIN prog, NEW n \in 0..Steps,
         ResolveFrom(prog)[n][i] # Custom
  PROVE  /\ n + 1 \in 0..Steps
         /\ prog[i].op = "ret" => ResolveFrom(prog)[n][i] = prog[i].action
         /\ prog[i].op = "ld" => ResolveFrom(prog)[n][i] = ResolveFrom(prog)[n + 1][i + 1]
         /\ prog[i].op = "ja" => ResolveFrom(prog)[n][i] = ResolveFrom(prog)[n + 1][i + 1 + prog[i].k]
         /\ prog[i].op \in {"jeq", "jge"} =>
              ResolveFrom(prog)[n][i] = ResolveFrom(prog)[n + 1][Yes(prog, i)]
<1> DEFINE R == ResolveFrom(prog)
<1>0. Steps \in Nat
  BY DEF Steps
<1>1. i \in Positions /\ ~ i > Len(prog)
  BY Places DEF Positions
<1>2. R[n] = ResolveRow(prog, n, R[n + 1])
  BY ResolveFromEquation
<1> HIDE DEF R
<1>3. R[n][i] = IF n = Steps \/ i > Len(prog) THEN Custom ELSE Follow(prog[i], i, R[n + 1])
  BY <1>1, <1>2 DEF ResolveRow
<1>4. n # Steps
  BY <1>3 DEF R
<1>5. R[n][i] = Follow(prog[i], i, R[n + 1])
  BY <1>1, <1>3, <1>4
<1>6. n + 1 \in 0..Steps
  BY <1>0, <1>4
<1>7. prog[i].op = "ret" => R[n][i] = prog[i].action
  BY <1>5 DEF Follow
<1>8. prog[i].op = "ld" => R[n][i] = R[n + 1][i + 1]
  BY <1>5 DEF Follow
<1>9. prog[i].op = "ja" => R[n][i] = R[n + 1][i + 1 + prog[i].k]
  BY <1>5 DEF Follow
<1>10. prog[i].op \in {"jeq", "jge"} => R[n][i] = R[n + 1][Yes(prog, i)]
  BY <1>5 DEF Follow, Yes
<1> QED
  BY <1>6, <1>7, <1>8, <1>9, <1>10 DEF R

\* Within ten steps: a return, or a jump to one.
LEMMA ResolveEnd ==
  ASSUME NEW prog, WellFormed(prog), NEW i \in DOMAIN prog, Ends(prog, i)
  PROVE  ResolveJumpAction(prog, i) = Outcome(prog, i)
<1> DEFINE R == ResolveFrom(prog)
<1>0. Steps = 10 /\ 0 \in 0..Steps /\ 1 \in 0..Steps
  BY DEF Steps
<1>1. /\ R[0] = ResolveRow(prog, 0, R[0 + 1])
      /\ R[1] = ResolveRow(prog, 1, R[1 + 1])
  BY <1>0, ResolveFromEquation
<1> HIDE DEF R
<1>2. \A j \in DOMAIN prog : j \in Positions /\ ~ j > Len(prog)
  BY Places DEF Positions
<1>3. \A j \in DOMAIN prog : R[0][j] = Follow(prog[j], j, R[1]) /\ R[1][j] = Follow(prog[j], j, R[2])
  BY <1>0, <1>1, <1>2 DEF ResolveRow
<1>4. CASE i \in Rets(prog)
  <2>1. prog[i].op = "ret" /\ R[0][i] = prog[i].action
    BY <1>3, <1>4 DEF Follow, Rets
  <2> QED
    BY <2>1 DEF ResolveJumpAction, Outcome, R
<1>5. CASE prog[i].op = "ja" /\ i + 1 + prog[i].k \in Rets(prog)
  <2> DEFINE j == i + 1 + prog[i].k
  <2>1. j \in DOMAIN prog /\ prog[j].op = "ret"
    BY <1>5 DEF Rets
  <2>2. R[1][j] = prog[j].action
    BY <1>3, <2>1 DEF Follow
  <2>3. R[0][i] = R[1][j]
    BY <1>3, <1>5 DEF Follow
  <2> QED
    BY <1>5, <2>2, <2>3 DEF ResolveJumpAction, Outcome, R
<1> QED
  BY <1>4, <1>5 DEF Ends

(***************************************************************************)
(* What the analysis takes from a program.                                 *)
(***************************************************************************)
LEMMA FirstOf ==
  ASSUME NEW S \in SUBSET Nat, S # {}
  PROVE  First(S) \in S /\ \A j \in S : First(S) <= j
<1>1. \E i \in S : \A j \in S : i <= j
  BY LeastNumber
<1> QED
  BY <1>1 DEF First

LEMMA LastOf ==
  ASSUME NEW N \in Nat, NEW S \in SUBSET (1..N), S # {}
  PROVE  Last(S) \in S /\ \A j \in S : j <= Last(S)
<1> DEFINE T == {d \in 0..N : N - d \in S}
<1>1. PICK x \in S : TRUE
  OBVIOUS
<1>2. N - x \in 0..N /\ N - (N - x) = x
  BY <1>1
<1>3. T \in SUBSET Nat /\ T # {}
  <2>1. N - x \in T
    BY <1>2
  <2>2. T \in SUBSET Nat
    OBVIOUS
  <2> HIDE DEF T
  <2> QED
    BY <2>1, <2>2
<1>4. PICK d \in T : \A e \in T : d <= e
  <2> HIDE DEF T
  <2> QED
    BY <1>3, LeastNumber
<1>5. ASSUME NEW j \in S PROVE j <= N - d
  <2>1. N - j \in 0..N /\ N - (N - j) = j
    OBVIOUS
  <2>2. d <= N - j
    BY <1>4, <2>1
  <2> QED
    BY <1>4, <2>2
<1>6. \E i \in S : \A j \in S : j <= i
  BY <1>4, <1>5
<1> QED
  BY <1>6 DEF Last

LEMMA DefaultRetIsAction ==
  ASSUME NEW prog, WellFormed(prog)
  PROVE  DefaultRet(prog) \in ActionNames
<1> DEFINE S == IF Rets(prog) \ JumpTargets(prog) # {} THEN Rets(prog) \ JumpTargets(prog) ELSE Rets(prog)
<1>1. /\ Len(prog) \in Nat /\ DOMAIN prog = 1..Len(prog) /\ Len(prog) \in Rets(prog)
  BY Places
<1>2. S \subseteq Rets(prog) /\ S # {}
  BY <1>1
<1>3. S \in SUBSET (1..Len(prog))
  BY <1>1, <1>2 DEF Rets
<1>4. DefaultRet(prog) = prog[Last(S)].action
  BY DEF DefaultRet
<1> HIDE DEF S
<1>5. Last(S) \in Rets(prog)
  BY <1>1, <1>2, <1>3, LastOf
<1> QED
  BY <1>4, <1>5, Kinds DEF Rets

LEMMA RuleOfIsRule ==
  ASSUME NEW prog, WellFormed(prog), NEW nr, Rules(prog, nr) # {}
  PROVE  /\ RuleOf(prog, nr) \in Rules(prog, nr)
         /\ \A i \in Rules(prog, nr) : RuleOf(prog, nr) <= i
         /\ RuleOf(prog, nr) \in DOMAIN prog /\ prog[RuleOf(prog, nr)].op = "jeq"
<1>1. Rules(prog, nr) \subseteq DOMAIN prog /\ DOMAIN prog \subseteq Nat
  BY Places DEF Rules, Conditions
<1>2. RuleOf(prog, nr) \in Rules(prog, nr) /\ \A i \in Rules(prog, nr) : RuleOf(prog, nr) <= i
  BY <1>1, FirstOf DEF RuleOf
<1> QED
  BY <1>1, <1>2 DEF Rules

LEMMA VerdictType ==
  ASSUME NEW prog, WellFormed(prog), NEW nr
  PROVE  CheckSyscallInBPF(prog, nr) \in Verdicts
<1>1. CASE Rules(prog, nr) = {}
  BY <1>1, DefaultRetIsAction DEF CheckSyscallInBPF, Verdicts, ActionNames
<1>2. CASE Rules(prog, nr) # {}
  <2> DEFINE i == RuleOf(prog, nr)
  <2>1. i \in DOMAIN prog /\ prog[i].op = "jeq"
    BY <1>2, RuleOfIsRule
  <2>2. i + 1 + prog[i].jt \in Positions
    BY <2>1, Kinds, Places DEF Yes, Positions
  <2>3. 0 \in 0..Steps
    BY DEF Steps
  <2>4. ResolveJumpAction(prog, i + 1 + prog[i].jt) \in Answers
    BY <2>2, <2>3, ResolveFromEquation DEF ResolveJumpAction
  <2> HIDE DEF i
  <2>5. CheckSyscallInBPF(prog, nr)
          = [evaluated |-> TRUE, action |-> ResolveJumpAction(prog, i + 1 + prog[i].jt)]
    BY <1>2 DEF CheckSyscallInBPF, i
  <2> QED
    BY <2>4, <2>5 DEF Verdicts, Answers, ActionNames
<1> QED
  BY <1>1, <1>2

(***************************************************************************)
(* The inductive invariant.                                                *)
(***************************************************************************)
Programs == UNION {UNION {Filters[m][i] : i \in 1..MaxFilters} : m \in Machines}

Details ==
    [mode : {None, "Disabled", "Strict", "Filter"},
     count : 0..MaxFilters,
     policy : {None, "Default-Allow", "Default-Deny"},
     fingerprint : {None, "Strict", "Blacklist", "Hardened", "Whitelist"},
     audited : {Empty} \cup [targetHighRiskSyscalls(machine) -> Verdicts],
     archBypassRisk : BOOLEAN,
     argInspection : BOOLEAN]

\* A process has filters of its machine, and none in strict mode.
StackInv ==
    /\ machine \in Machines /\ strict \in BOOLEAN
    /\ stack \in Seq(Programs) /\ Len(stack) <= MaxFilters
    /\ \A i \in DOMAIN stack : stack[i] \in Filters[machine][i]
    /\ strict => stack = <<>>

\* Between the status and the filter, the process has one; before, nothing is known.
AuditInv ==
    /\ pc \in {"status", "filter", "done"}
    /\ pc = "status" => details = NotRead
    /\ pc = "filter" => stack # <<>>
    /\ pc # "done" => fetched = 0
    /\ fetched \in 0..Len(stack)

\* What has been analyzed is what is reported, of the filter that it was read from.
DetailsInv ==
    /\ details \in Details
    /\ details.mode \in {"Strict", "Filter"} => details.count >= 1
    /\ fetched # 0 =>
         LET prog == stack[fetched] IN
         /\ details.policy = PolicyOf(prog)
         /\ details.audited = [nr \in targetHighRiskSyscalls(machine) |-> CheckSyscallInBPF(prog, nr)]
         /\ details.archBypassRisk = ~LoadsArch(prog)
         /\ details.argInspection = \E i \in Loads(prog) : prog[i].word = "arg"

BPFInv == StackInv /\ AuditInv /\ DetailsInv

LEMMA InvTypes == BPFInv => TypeOK
<1> SUFFICES ASSUME BPFInv PROVE TypeOK
  OBVIOUS
<1> QED
  BY DEF BPFInv, StackInv, AuditInv, DetailsInv, Details, TypeOK

LEMMA InstalledAreWritten ==
  ASSUME StackInv, NEW i \in DOMAIN stack
  PROVE  /\ WellFormed(stack[i]) /\ ChecksArch(stack[i], machine)
         /\ ListsRules(stack[i], machine) /\ WithoutWaste(stack[i], machine)
<1>1. machine \in Machines /\ i \in 1..MaxFilters /\ stack[i] \in Filters[machine][i]
  BY FiltersAssumption DEF StackInv
<1> QED
  BY <1>1, FiltersAssumption

LEMMA InitInv == Init => BPFInv
<1> SUFFICES ASSUME Init PROVE BPFInv
  OBVIOUS
<1>1. StackInv
  <2>1. stack = <<>> /\ strict = FALSE /\ machine \in Machines
    BY DEF Init
  <2>2. stack \in Seq(Programs) /\ Len(stack) = 0 /\ DOMAIN stack = {}
    BY <2>1
  <2>3. Len(stack) <= MaxFilters
    BY <2>2, FiltersAssumption
  <2>4. strict \in BOOLEAN /\ (strict => stack = <<>>)
    BY <2>1
  <2> QED
    BY <2>1, <2>2, <2>3, <2>4 DEF StackInv
<1>2. AuditInv
  BY DEF Init, AuditInv
<1>3. NotRead \in Details
  BY FiltersAssumption DEF NotRead, Details
<1>4. NotRead.mode \notin {"Strict", "Filter"}
  BY FiltersAssumption DEF NotRead
<1>5. DetailsInv
  BY <1>3, <1>4 DEF Init, DetailsInv
<1> QED
  BY <1>1, <1>2, <1>5 DEF BPFInv

(***************************************************************************)
(* The audit keeps the invariant.                                          *)
(***************************************************************************)
LEMMA Bounds == MaxFilters \in Nat /\ MaxFilters >= 1 /\ 1 \in 0..MaxFilters
<1>1. MaxFilters \in Nat /\ MaxFilters # 0
  BY FiltersAssumption
<1> QED
  BY <1>1

LEMMA NonEmpty ==
  ASSUME NEW T, NEW s \in Seq(T), s # <<>>
  PROVE  Len(s) \in Nat /\ Len(s) >= 1 /\ DOMAIN s = 1..Len(s)
OBVIOUS

LEMMA StackKept ==
  ASSUME BPFInv, UNCHANGED <<machine, strict, stack>>
  PROVE  StackInv' /\ Details' = Details
<1>1. machine' = machine /\ strict' = strict /\ stack' = stack
  OBVIOUS
<1>2. StackInv'
  BY <1>1 DEF BPFInv, StackInv
<1>3. Details' = Details
  BY <1>1 DEF Details
<1> QED
  BY <1>2, <1>3

LEMMA InstallKeeps ==
  ASSUME BPFInv, Install
  PROVE  BPFInv'
<1> USE DEF Install
<1>1. PICK prog \in Filters[machine][Len(stack) + 1] : stack' = Append(stack, prog)
  OBVIOUS
<1>2. /\ stack \in Seq(Programs) /\ Len(stack) \in Nat /\ machine \in Machines
      /\ Len(stack) + 1 \in 1..MaxFilters
  BY FiltersAssumption DEF BPFInv, StackInv
<1>3. prog \in Programs
  BY <1>2 DEF Programs
<1>4. /\ stack' \in Seq(Programs) /\ Len(stack') = Len(stack) + 1 /\ DOMAIN stack = 1..Len(stack)
      /\ DOMAIN stack' = 1..Len(stack) + 1
      /\ \A i \in DOMAIN stack : stack'[i] = stack[i]
      /\ stack'[Len(stack) + 1] = prog
  BY <1>1, <1>2, <1>3
<1>5. StackInv'
  <2>1. \A i \in DOMAIN stack' : stack'[i] \in Filters[machine][i]
    BY <1>2, <1>4 DEF BPFInv, StackInv
  <2>2. Len(stack') <= MaxFilters
    BY <1>2, <1>4
  <2> QED
    BY <1>4, <2>1, <2>2 DEF BPFInv, StackInv
<1>6. AuditInv'
  <2>1. fetched \in 0..Len(stack) /\ stack' # <<>>
    BY <1>4 DEF BPFInv, AuditInv
  <2>2. fetched \in 0..Len(stack')
    BY <1>2, <1>4, <2>1
  <2> QED
    BY <2>1, <2>2 DEF BPFInv, AuditInv
<1>7. DetailsInv'
  <2>1. fetched # 0 => stack'[fetched] = stack[fetched]
    BY <1>2, <1>4 DEF BPFInv, AuditInv
  <2>2. /\ details' = details /\ fetched' = fetched /\ machine' = machine
    OBVIOUS
  <2>3. Details' = Details
    BY <2>2 DEF Details
  <2> QED
    BY <2>1, <2>2, <2>3 DEF BPFInv, DetailsInv
<1> QED
  BY <1>5, <1>6, <1>7 DEF BPFInv

LEMMA EnterStrictKeeps ==
  ASSUME BPFInv, EnterStrict
  PROVE  BPFInv'
<1> USE DEF EnterStrict
<1>1. StackInv'
  BY DEF BPFInv, StackInv
<1>2. AuditInv'
  BY DEF BPFInv, AuditInv
<1>3. DetailsInv'
  <2>1. Details' = Details
    BY DEF Details
  <2> QED
    BY <2>1 DEF BPFInv, DetailsInv
<1> QED
  BY <1>1, <1>2, <1>3 DEF BPFInv

LEMMA ReadStatusKeeps ==
  ASSUME BPFInv, ReadStatus \/ ReadStatusOnly
  PROVE  BPFInv'
<1> USE DEF ReadStatus, ReadStatusOnly
<1>1. StackInv' /\ Details' = Details
  <2>1. UNCHANGED <<machine, strict, stack>>
    OBVIOUS
  <2> QED
    BY <2>1, StackKept
<1>2. AuditInv'
  BY DEF BPFInv, AuditInv
<1>3. details \in Details /\ fetched = 0 /\ fetched' = 0
  BY DEF BPFInv, AuditInv, DetailsInv
<1>4. CASE ReadStatus
  <2>1. PICK count \in CountedFilters : details' = [details EXCEPT !.mode = "Filter", !.count = count]
    BY <1>4
  <2>2. count \in 0..MaxFilters /\ count >= 1
    <3>1. stack # <<>> /\ stack \in Seq(Programs) /\ Len(stack) <= MaxFilters
      BY <1>4 DEF BPFInv, StackInv
    <3>2. Len(stack) \in Nat /\ Len(stack) >= 1
      BY <3>1, NonEmpty
    <3> QED
      BY <2>1, <3>1, <3>2, Bounds DEF CountedFilters
  <2>3. details' \in Details /\ details'.count = count
    BY <1>3, <2>1, <2>2 DEF Details
  <2> QED
    BY <1>1, <1>2, <1>3, <2>2, <2>3 DEF BPFInv, DetailsInv
<1>5. CASE ReadStatusOnly
  <2>1. CASE strict
    <3>1. details' = [details EXCEPT !.mode = "Strict", !.count = 1, !.policy = "Default-Deny",
                                     !.fingerprint = "Strict"]
      BY <1>5, <2>1
    <3>2. details' \in Details
      BY <1>3, <3>1, Bounds DEF Details
    <3>3. details'.count = 1
      BY <1>3, <3>1 DEF Details
    <3> HIDE DEF ReadStatus, ReadStatusOnly
    <3>4. DetailsInv'
      BY <1>1, <1>3, <3>2, <3>3 DEF DetailsInv
    <3> QED
      BY <1>1, <1>2, <3>4 DEF BPFInv
  <2>2. CASE ~strict
    <3>1. details' = [details EXCEPT !.mode = "Disabled"]
      BY <1>5, <2>2
    <3>2. details' \in Details /\ details'.mode = "Disabled"
      BY <1>3, <3>1 DEF Details
    <3> QED
      BY <1>1, <1>2, <1>3, <3>2 DEF BPFInv, DetailsInv
  <2> QED
    BY <2>1, <2>2
<1> QED
  BY <1>4, <1>5

\* What the analysis adds to a result, whatever the types of its fields.
LEMMA Analyzed ==
  ASSUME NEW M, NEW C, NEW P, NEW F, NEW A,
         NEW d \in [mode : M, count : C, policy : P, fingerprint : F, audited : A,
                    archBypassRisk : BOOLEAN, argInspection : BOOLEAN],
         NEW policy \in P, NEW fingerprint \in F, NEW audited \in A,
         NEW risk \in BOOLEAN, NEW inspects \in BOOLEAN, NEW e,
         e = [d EXCEPT !.policy = policy, !.fingerprint = fingerprint, !.audited = audited,
                       !.archBypassRisk = risk, !.argInspection = inspects]
  PROVE  /\ e \in [mode : M, count : C, policy : P, fingerprint : F, audited : A,
                   archBypassRisk : BOOLEAN, argInspection : BOOLEAN]
         /\ e.mode = d.mode /\ e.count = d.count
         /\ e.policy = policy /\ e.audited = audited
         /\ e.archBypassRisk = risk /\ e.argInspection = inspects
<1> DEFINE f == [mode |-> d.mode, count |-> d.count, policy |-> policy, fingerprint |-> fingerprint,
                 audited |-> audited, archBypassRisk |-> risk, argInspection |-> inspects]
<1>0. d.mode \in M /\ d.count \in C
  OBVIOUS
<1>1. d = [mode |-> d.mode, count |-> d.count, policy |-> d.policy, fingerprint |-> d.fingerprint,
           audited |-> d.audited, archBypassRisk |-> d.archBypassRisk, argInspection |-> d.argInspection]
  OBVIOUS
<1>2. e = f
  BY <1>1
<1>3. f \in [mode : M, count : C, policy : P, fingerprint : F, audited : A,
              archBypassRisk : BOOLEAN, argInspection : BOOLEAN]
  BY <1>0
<1>4. /\ f.mode = d.mode /\ f.count = d.count
      /\ f.policy = policy /\ f.audited = audited
      /\ f.archBypassRisk = risk /\ f.argInspection = inspects
  OBVIOUS
<1> QED
  BY <1>2, <1>3, <1>4

LEMMA FetchFilterKeeps ==
  ASSUME BPFInv, FetchFilter
  PROVE  BPFInv'
<1> USE DEF FetchFilter
<1>1. StackInv' /\ Details' = Details
  <2>1. UNCHANGED <<machine, strict, stack>>
    OBVIOUS
  <2> QED
    BY <2>1, StackKept
<1>2. PICK i \in {1, Len(stack)} : details' = AnalyzeSeccompBPF(stack[i], machine, details) /\ fetched' = i
  OBVIOUS
<1>3. i \in DOMAIN stack /\ i \in 0..Len(stack) /\ i # 0
  <2>1. stack # <<>> /\ stack \in Seq(Programs)
    BY DEF BPFInv, StackInv, AuditInv
  <2>2. Len(stack) \in Nat /\ Len(stack) >= 1 /\ DOMAIN stack = 1..Len(stack)
    BY <2>1, NonEmpty
  <2>3. i = 1 \/ i = Len(stack)
    BY <1>2
  <2> HIDE DEF FetchFilter
  <2>4. CASE i = 1
    BY <2>2, <2>4
  <2>5. CASE i = Len(stack)
    BY <2>2, <2>5
  <2> QED
    BY <2>3, <2>4, <2>5
<1>4. AuditInv'
  BY <1>2, <1>3 DEF BPFInv, AuditInv
<1>5. WellFormed(stack[i])
  BY <1>3, InstalledAreWritten DEF BPFInv
<1> DEFINE prog == stack[i]
           audited == [nr \in targetHighRiskSyscalls(machine) |-> CheckSyscallInBPF(prog, nr)]
<1>6. audited \in [targetHighRiskSyscalls(machine) -> Verdicts]
  BY <1>5, VerdictType
<1>7. PolicyOf(prog) \in {None, "Default-Allow", "Default-Deny"}
  BY DEF PolicyOf
<1>8. Fingerprint(PolicyOf(prog), audited) \in {None, "Strict", "Blacklist", "Hardened", "Whitelist"}
  BY DEF Fingerprint
<1> HIDE DEF audited, prog
<1>9. details' = [details EXCEPT !.policy = PolicyOf(prog),
                                 !.fingerprint = Fingerprint(PolicyOf(prog), audited),
                                 !.audited = audited,
                                 !.archBypassRisk = ~LoadsArch(prog),
                                 !.argInspection = \E j \in Loads(prog) : prog[j].word = "arg"]
  BY <1>2 DEF AnalyzeSeccompBPF, audited, prog
<1>10. details \in Details
  BY DEF BPFInv, DetailsInv
<1>11. LoadsArch(prog) \in BOOLEAN
  BY DEF LoadsArch
<1> DEFINE inspects == \E j \in Loads(prog) : prog[j].word = "arg"
<1>12. inspects \in BOOLEAN
  OBVIOUS
<1> HIDE DEF inspects
<1>13. /\ details' \in Details
       /\ details'.mode = details.mode /\ details'.count = details.count
       /\ details'.policy = PolicyOf(prog) /\ details'.audited = audited
       /\ details'.archBypassRisk = ~LoadsArch(prog) /\ details'.argInspection = inspects
  <2>1. details' = [details EXCEPT !.policy = PolicyOf(prog),
                                   !.fingerprint = Fingerprint(PolicyOf(prog), audited),
                                   !.audited = audited,
                                   !.archBypassRisk = ~LoadsArch(prog),
                                   !.argInspection = inspects]
    BY <1>9 DEF inspects
  <2> DEFINE policy == PolicyOf(prog)
             fingerprint == Fingerprint(PolicyOf(prog), audited)
             risk == ~LoadsArch(prog)
  <2>2. risk \in BOOLEAN
    BY <1>11
  <2> HIDE DEF policy, fingerprint, risk
  <2>3. details' = [details EXCEPT !.policy = policy, !.fingerprint = fingerprint, !.audited = audited,
                                   !.archBypassRisk = risk, !.argInspection = inspects]
    BY <2>1 DEF policy, fingerprint, risk
  <2> DEFINE Modes        == {None, "Disabled", "Strict", "Filter"}
             Counts       == 0..MaxFilters
             Policies     == {None, "Default-Allow", "Default-Deny"}
             Fingerprints == {None, "Strict", "Blacklist", "Hardened", "Whitelist"}
             Tables       == {Empty} \cup [targetHighRiskSyscalls(machine) -> Verdicts]
  <2>4. policy \in Policies /\ fingerprint \in Fingerprints /\ audited \in Tables
    BY <1>6, <1>7, <1>8 DEF policy, fingerprint
  <2>5. Details = [mode : Modes, count : Counts, policy : Policies, fingerprint : Fingerprints,
                   audited : Tables, archBypassRisk : BOOLEAN, argInspection : BOOLEAN]
    BY DEF Details
  <2>6. /\ details' \in Details
        /\ details'.mode = details.mode /\ details'.count = details.count
        /\ details'.policy = policy /\ details'.audited = audited
        /\ details'.archBypassRisk = risk /\ details'.argInspection = inspects
    <3> HIDE DEF Modes, Counts, Policies, Fingerprints, Tables, FetchFilter
    <3> QED
      BY <1>10, <1>12, <2>2, <2>3, <2>4, <2>5, Analyzed
  <2> QED
    BY <2>6 DEF policy, risk
<1>14. DetailsInv'
  <2>1. stack'[fetched'] = prog /\ machine' = machine
    BY <1>2 DEF prog
  <2>2. details.mode \in {"Strict", "Filter"} => details.count >= 1
    BY DEF BPFInv, DetailsInv
  <2> QED
    BY <1>1, <1>13, <2>1, <2>2 DEF DetailsInv, audited, inspects
<1> QED
  BY <1>1, <1>4, <1>14 DEF BPFInv

LEMMA AuditEndKeeps ==
  ASSUME BPFInv, FetchFilterFails \/ Again
  PROVE  BPFInv'
<1> USE DEF FetchFilterFails, Again
<1>1. StackInv' /\ Details' = Details
  <2>1. UNCHANGED <<machine, strict, stack>>
    OBVIOUS
  <2> QED
    BY <2>1, StackKept
<1>2. AuditInv'
  <2>1. 0 \in 0..Len(stack)
    BY DEF BPFInv, StackInv
  <2> QED
    BY <2>1 DEF BPFInv, AuditInv
<1>3. CASE FetchFilterFails
  BY <1>1, <1>2, <1>3 DEF BPFInv, DetailsInv
<1>4. CASE Again
  <2>1. details' = NotRead /\ fetched' = 0
    BY <1>4
  <2>2. NotRead \in Details /\ NotRead.mode \notin {"Strict", "Filter"}
    BY FiltersAssumption DEF NotRead, Details
  <2> QED
    BY <1>1, <1>2, <2>1, <2>2 DEF BPFInv, DetailsInv
<1> QED
  BY <1>3, <1>4

LEMMA BPFInvariant == Spec => []BPFInv
<1>1. BPFInv /\ [Next]_vars => BPFInv'
  <2> SUFFICES ASSUME BPFInv, [Next]_vars PROVE BPFInv'
    OBVIOUS
  <2>1. CASE Install
    BY <2>1, InstallKeeps
  <2>2. CASE EnterStrict
    BY <2>2, EnterStrictKeeps
  <2>3. CASE ReadStatus \/ ReadStatusOnly
    BY <2>3, ReadStatusKeeps
  <2>4. CASE FetchFilter
    BY <2>4, FetchFilterKeeps
  <2>5. CASE FetchFilterFails \/ Again
    BY <2>5, AuditEndKeeps
  <2>6. CASE UNCHANGED vars
    <3>1. StackInv' /\ AuditInv' /\ Details' = Details
      BY <2>6 DEF vars, BPFInv, StackInv, AuditInv, Details
    <3>2. DetailsInv'
      BY <2>6, <3>1 DEF vars, BPFInv, DetailsInv
    <3> QED
      BY <3>1, <3>2 DEF BPFInv
  <2> QED
    BY <2>1, <2>2, <2>3, <2>4, <2>5, <2>6 DEF Next
<1> QED
  BY <1>1, InitInv, PTL DEF Spec

(***************************************************************************)
(* The way of a call through a program.                                    *)
(***************************************************************************)
Written(prog, m) ==
    WellFormed(prog) /\ ChecksArch(prog, m) /\ ListsRules(prog, m) /\ WithoutWaste(prog, m)

\* The comparisons of the number that are for the machine's own calls.
Own(prog, m) == NumberTests(prog, AuditArch[m])

\* A rule's comparisons of the number and of the argument.
RuleTests(prog, m) == {t \in Own(prog, m) : prog[t].op = "jeq"} \cup Tests(prog, "arg")

\* Does no rule meet the number at i?
Passes(prog, i, nr) == prog[i].op = "jeq" => prog[i].k # nr

LEMMA Conditional ==
  ASSUME NEW prog, WellFormed(prog), NEW i \in Conditions(prog)
  PROVE  /\ i \in DOMAIN prog /\ i \in Nat \ {0} /\ prog[i].op \in {"jeq", "jge"}
         /\ prog[i].k \in Nat /\ prog[i].jt \in Nat /\ prog[i].jf \in Nat
         /\ Yes(prog, i) \in DOMAIN prog /\ No(prog, i) \in DOMAIN prog
         /\ Yes(prog, i) > i /\ No(prog, i) > i
<1>1. i \in DOMAIN prog /\ prog[i].op \in {"jeq", "jge"}
  BY DEF Conditions
<1>2. /\ i \in Nat \ {0}
      /\ prog[i].k \in Nat /\ prog[i].jt \in Nat /\ prog[i].jf \in Nat
      /\ Yes(prog, i) \in DOMAIN prog /\ No(prog, i) \in DOMAIN prog
  BY <1>1, Kinds
<1>3. Yes(prog, i) > i /\ No(prog, i) > i
  BY <1>2 DEF Yes, No
<1> QED
  BY <1>1, <1>2, <1>3

LEMMA TestsAreConditions ==
  ASSUME NEW prog, WellFormed(prog), NEW word
  PROVE  /\ Tests(prog, word) \subseteq Conditions(prog)
         /\ Tests(prog, word) \in SUBSET Nat
         /\ Tests(prog, word) \in SUBSET (1..Len(prog)) /\ Len(prog) \in Nat
<1>1. Conditions(prog) \subseteq DOMAIN prog /\ DOMAIN prog = 1..Len(prog) /\ Len(prog) \in Nat
  BY Places DEF Conditions
<1>2. Tests(prog, word) \subseteq Conditions(prog)
  BY DEF Tests
<1> QED
  BY <1>1, <1>2

LEMMA OwnAreTests ==
  ASSUME NEW prog, WellFormed(prog), NEW m
  PROVE  /\ Own(prog, m) \subseteq Tests(prog, "nr")
         /\ Own(prog, m) \subseteq Conditions(prog)
         /\ Own(prog, m) \in SUBSET Nat
         /\ Own(prog, m) \in SUBSET (1..Len(prog)) /\ Len(prog) \in Nat
<1>1. Own(prog, m) \subseteq Tests(prog, "nr")
  BY DEF Own, NumberTests
<1> QED
  BY <1>1, TestsAreConditions

\* What is loaded is compared next.
LEMMA LoadThenTest ==
  ASSUME NEW prog, NEW m, WellFormed(prog), WithoutWaste(prog, m), NEW i \in Loads(prog)
  PROVE  i \in DOMAIN prog /\ i + 1 \in Tests(prog, prog[i].word)
BY DEF WithoutWaste, Loads

LEMMA EndsRun ==
  ASSUME NEW prog, WellFormed(prog), NEW call \in Calls, NEW i \in DOMAIN prog, NEW acc \in Nat,
         Ends(prog, i)
  PROVE  RunFrom(prog, call)[i][acc] = Outcome(prog, i)
<1>1. CASE i \in Rets(prog)
  <2>1. prog[i].op = "ret"
    BY <1>1 DEF Rets
  <2> QED
    BY <2>1, RunSteps DEF Outcome
<1>2. CASE prog[i].op = "ja" /\ i + 1 + prog[i].k \in Rets(prog)
  <2> DEFINE j == i + 1 + prog[i].k
  <2>1. j \in DOMAIN prog /\ prog[j].op = "ret"
    BY <1>2 DEF Rets
  <2>2. RunFrom(prog, call)[i][acc] = RunFrom(prog, call)[j][acc]
    BY <1>2, RunSteps
  <2> HIDE DEF j
  <2>3. RunFrom(prog, call)[j][acc] = prog[j].action
    BY <2>1, RunSteps
  <2> QED
    BY <1>2, <2>2, <2>3 DEF Outcome, j
<1> QED
  BY <1>1, <1>2 DEF Ends

LEMMA EndsResolve ==
  ASSUME NEW prog, WellFormed(prog), NEW i \in DOMAIN prog, NEW n \in 0..Steps, Ends(prog, i),
         ResolveFrom(prog)[n][i] # Custom
  PROVE  ResolveFrom(prog)[n][i] = Outcome(prog, i)
<1>1. CASE i \in Rets(prog)
  <2>1. prog[i].op = "ret"
    BY <1>1 DEF Rets
  <2> QED
    BY <2>1, ResolveSteps DEF Outcome
<1>2. CASE prog[i].op = "ja" /\ i + 1 + prog[i].k \in Rets(prog)
  <2> DEFINE j == i + 1 + prog[i].k
  <2>1. j \in DOMAIN prog /\ prog[j].op = "ret"
    BY <1>2 DEF Rets
  <2>2. ResolveFrom(prog)[n][i] = ResolveFrom(prog)[n + 1][j] /\ n + 1 \in 0..Steps
    BY <1>2, ResolveSteps
  <2> HIDE DEF j
  <2>3. ResolveFrom(prog)[n + 1][j] = prog[j].action
    BY <2>1, <2>2, ResolveSteps
  <2> QED
    BY <1>2, <2>2, <2>3 DEF Outcome, j
<1> QED
  BY <1>1, <1>2 DEF Ends

\* A comparison that the number does not meet is followed by the next one, and
\* the last one by the end of the program.
LEMMA FallsOn ==
  ASSUME NEW prog, NEW m, Written(prog, m), NEW call \in Calls, call.nr \in NumbersOf(m),
         NEW i \in Own(prog, m), Passes(prog, i, call.nr),
         NEW later, later = {t \in Own(prog, m) : t > i}
  PROVE  RunFrom(prog, call)[i][call.nr]
           = IF later = {} THEN Outcome(prog, No(prog, i))
             ELSE RunFrom(prog, call)[First(later)][call.nr]
<1> DEFINE R == RunFrom(prog, call)
           nr == call.nr
           j == No(prog, i)
<1>0. WellFormed(prog) /\ WithoutWaste(prog, m) /\ ListsRules(prog, m)
  BY DEF Written
<1>1. i \in Conditions(prog) /\ nr \in Nat
  BY OwnAreTests DEF Written, Calls
<1>2. /\ i \in DOMAIN prog /\ prog[i].op \in {"jeq", "jge"} /\ prog[i].k \in Nat
      /\ j \in DOMAIN prog
  BY <1>0, <1>1, Conditional
<1>3. R[i][nr] = R[j][nr]
  <2>1. CASE prog[i].op = "jeq"
    <3>1. nr # prog[i].k
      BY <2>1 DEF Passes
    <3> QED
      BY <1>0, <1>1, <1>2, <2>1, <3>1, RunSteps
  <2>2. CASE prog[i].op = "jge"
    <3>1. nr < prog[i].k
      BY <1>0, <2>2 DEF ListsRules, Own
    <3>2. ~ nr >= prog[i].k
      BY <1>1, <1>2, <3>1
    <3> QED
      BY <1>0, <1>1, <1>2, <2>2, <3>2, RunSteps
  <2> QED
    BY <1>2, <2>1, <2>2
<1>4. GoesOn(prog, Own(prog, m), i, j)
  BY <1>0 DEF ListsRules, Own
<1>5. CASE later = {}
  <2>1. Ends(prog, j)
    BY <1>4, <1>5 DEF GoesOn
  <2>2. R[j][nr] = Outcome(prog, j)
    BY <1>0, <1>1, <1>2, <2>1, EndsRun
  <2> QED
    BY <1>3, <1>5, <2>2
<1>6. CASE later # {}
  <2>1. \/ j = First(later)
        \/ j + 1 = First(later) /\ j \in Loads(prog) /\ prog[j].word = "nr"
    BY <1>4, <1>6 DEF GoesOn
  <2>2. R[j][nr] = R[First(later)][nr]
    <3>1. CASE j = First(later)
      BY <3>1
    <3>2. CASE j + 1 = First(later) /\ j \in Loads(prog) /\ prog[j].word = "nr"
      <4>1. prog[j].op = "ld"
        BY <3>2 DEF Loads
      <4>2. R[j][nr] = R[j + 1][call[prog[j].word]]
        BY <1>0, <1>1, <1>2, <4>1, RunSteps
      <4> QED
        BY <3>2, <4>2
    <3> QED
      BY <2>1, <3>1, <3>2
  <2> QED
    BY <1>3, <1>6, <2>2
<1> QED
  BY <1>5, <1>6

\* The next of a set of places.
After(T, p) == First({t \in T : t > p})

\* What leads from each of a set of places to the next leads from the first to all.
LEMMA Chain ==
  ASSUME NEW prog, WellFormed(prog), NEW T, T \subseteq Conditions(prog), NEW f, NEW q \in T,
         \A p \in T : p < q => f[p] = f[After(T, p)]
  PROVE  f[q] = f[First(T)]
<1> DEFINE Bad == {t \in T : t <= q /\ f[t] # f[First(T)]}
<1>0. /\ T \in SUBSET Nat /\ q \in Nat
      /\ Len(prog) \in Nat /\ T \in SUBSET (1..Len(prog))
  BY Places DEF Conditions
<1> SUFFICES ASSUME Bad # {} PROVE FALSE
  BY <1>0
<1>2. PICK b \in Bad : \A t \in Bad : b <= t
  <2>1. Bad \in SUBSET Nat
    BY <1>0
  <2> HIDE DEF Bad
  <2> QED
    BY <2>1, LeastNumber
<1>3. b \in T /\ b <= q /\ f[b] # f[First(T)] /\ b \in Nat
  BY <1>0, <1>2
<1> DEFINE before == {t \in T : t < b}
<1>4. CASE before = {}
  <2>1. First(T) \in T /\ First(T) <= b
    BY <1>0, <1>3, FirstOf
  <2>2. ~ First(T) < b
    BY <1>4, <2>1
  <2>3. First(T) = b
    <3>1. First(T) \in Nat
      BY <1>0, <2>1
    <3> QED
      BY <1>3, <2>1, <2>2, <3>1
  <2> QED
    BY <1>3, <2>3
<1>5. CASE before # {}
  <2> DEFINE p == Last(before)
  <2>1. p \in before /\ \A t \in before : t <= p
    <3>1. before \in SUBSET (1..Len(prog))
      BY <1>0
    <3> HIDE DEF before
    <3> QED
      BY <1>0, <1>5, <3>1, LastOf
  <2> HIDE DEF p
  <2>2. p \in T /\ p < b /\ p \in Nat /\ p < q
    BY <1>0, <1>3, <2>1
  <2>3. f[p] = f[First(T)]
    <3>1. p \notin Bad
      BY <1>2, <1>3, <2>2
    <3> QED
      BY <1>0, <2>2, <3>1
  <2> DEFINE later == {t \in T : t > p}
  <2>4. b \in later /\ later \in SUBSET Nat
    BY <1>0, <1>3, <2>2
  <2>5. \A t \in later : b <= t
    <3> SUFFICES ASSUME NEW t \in later, ~ b <= t PROVE FALSE
      OBVIOUS
    <3>1. t \in T /\ t > p /\ t \in Nat
      BY <1>0
    <3>2. t \in before
      BY <1>3, <3>1
    <3> QED
      BY <2>1, <2>2, <3>1, <3>2
  <2>6. First(later) = b
    <3>1. First(later) \in later /\ \A t \in later : First(later) <= t
      <4> HIDE DEF later
      <4> QED
        BY <2>4, FirstOf
    <3>2. First(later) <= b /\ b <= First(later) /\ First(later) \in Nat
      BY <2>4, <2>5, <3>1
    <3> QED
      BY <1>3, <3>2
  <2>7. f[p] = f[First(later)]
    BY <2>2 DEF After
  <2> QED
    BY <1>3, <2>3, <2>6, <2>7
<1> QED
  BY <1>4, <1>5

\* An equality with the word of an architecture, and where the first one is.
LEMMA ArchTests ==
  ASSUME NEW prog, NEW m, Written(prog, m), Tests(prog, "arch") # {}
  PROVE  /\ 1 \in DOMAIN prog /\ prog[1].op = "ld" /\ prog[1].word = "arch"
         /\ \A i \in Tests(prog, "arch") :
               i \in Conditions(prog) /\ i \in DOMAIN prog /\ i \in Nat /\ i >= 2 /\ prog[i].op = "jeq"
         /\ 2 \in Tests(prog, "arch") /\ First(Tests(prog, "arch")) = 2
<1> DEFINE A == Tests(prog, "arch")
<1>0. WellFormed(prog) /\ WithoutWaste(prog, m) /\ ChecksArch(prog, m)
  BY DEF Written
<1>1. 1 \in Loads(prog) /\ 1 \in DOMAIN prog /\ prog[1].op = "ld" /\ prog[1].word = "arch"
  BY <1>0 DEF ChecksArch, Loads
<1>2. 1 + 1 \in A /\ 1 + 1 = 2
  BY <1>0, <1>1, LoadThenTest
<1>3. ASSUME NEW i \in A
      PROVE  i \in Conditions(prog) /\ i \in DOMAIN prog /\ i \in Nat /\ i >= 2 /\ prog[i].op = "jeq"
  <2>1. i \in Conditions(prog) /\ Compared(prog, i) = "arch"
    BY DEF Tests
  <2>2. i \in DOMAIN prog /\ i \in Nat \ {0} /\ prog[i].op \in {"jeq", "jge"}
    BY <1>0, <2>1, Conditional
  <2>3. i # 1
    BY <1>1, <2>2
  <2>4. prog[i].op = "jeq"
    BY <1>0 DEF ChecksArch
  <2> QED
    BY <2>1, <2>2, <2>3, <2>4
<1>4. First(A) = 2
  <2>1. A \in SUBSET Nat /\ 2 \in A
    BY <1>0, <1>2, TestsAreConditions
  <2> HIDE DEF A
  <2>2. First(A) \in A /\ First(A) <= 2
    BY <2>1, FirstOf
  <2>3. First(A) >= 2 /\ First(A) \in Nat
    BY <1>3, <2>2
  <2> QED
    BY <2>2, <2>3
<1> QED
  BY <1>1, <1>2, <1>3, <1>4
\* The calls of the machine come to the number, and then to their first comparison.
LEMMA Enters ==
  ASSUME NEW prog, NEW m, Written(prog, m), NEW call \in Calls, call.arch = AuditArch[m],
         Own(prog, m) # {}
  PROVE  /\ Entry(prog, AuditArch[m]) \in Loads(prog)
         /\ Run(prog, call) = RunFrom(prog, call)[Entry(prog, AuditArch[m]) + 1][call.nr]
<1> DEFINE R == RunFrom(prog, call)
           a == AuditArch[m]
           A == Tests(prog, "arch")
           e == Entry(prog, a)
           met == {i \in A : prog[i].k = a}
<1>0. WellFormed(prog) /\ WithoutWaste(prog, m) /\ ChecksArch(prog, m)
  BY DEF Written
<1>1. e \in Loads(prog) /\ prog[e].op = "ld" /\ e \in DOMAIN prog
  BY DEF Own, NumberTests, Loads
<1>2. prog[e].word = "nr"
  BY <1>0, <1>1 DEF ChecksArch, Rets
<1>3. call.nr \in Nat /\ call.arch \in Nat /\ 0 \in Nat /\ a \in Nat
  BY DEF Calls
<1>4. \A acc \in Nat : R[e][acc] = R[e + 1][call.nr]
  <2> HIDE DEF e
  <2> QED
    BY <1>0, <1>1, <1>2, RunSteps
<1>5. CASE A = {}
  <2>1. e = 1
    BY <1>5 DEF Entry
  <2> QED
    BY <1>1, <1>3, <1>4, <2>1 DEF Run
<1>6. CASE A # {}
  <2>1. /\ 1 \in DOMAIN prog /\ prog[1].op = "ld" /\ prog[1].word = "arch"
        /\ A \subseteq Conditions(prog)
        /\ \A i \in A : i \in DOMAIN prog /\ i \in Nat /\ prog[i].op = "jeq"
        /\ First(A) = 2
    BY <1>6, ArchTests
  <2>2. A \in SUBSET (1..Len(prog)) /\ Len(prog) \in Nat /\ A \in SUBSET Nat
    BY <1>0, TestsAreConditions
  <2>3. Run(prog, call) = R[2][a]
    <3>1. R[1][0] = R[1 + 1][call[prog[1].word]]
      BY <1>0, <1>3, <2>1, RunSteps
    <3> QED
      BY <2>1, <3>1 DEF Run
  <2>4. ASSUME NEW i \in A, i \notin met
        PROVE  R[i][a] = R[No(prog, i)][a]
    <3>1. a # prog[i].k
      BY <2>4
    <3> QED
      BY <1>0, <1>3, <2>1, <3>1, RunSteps
  <2>5. ASSUME NEW q \in A, \A i \in A : i < q => i \notin met
        PROVE  R[q][a] = Run(prog, call)
    <3> DEFINE f == [i \in A |-> R[i][a]]
    <3>1. ASSUME NEW i \in A, i < q
          PROVE  f[i] = f[After(A, i)]
      <4> DEFINE later == {j \in A : j > i}
      <4>1. later # {} /\ later \in SUBSET Nat
        BY <2>2, <2>5, <3>1
      <4>2. First(later) \in A
        <5> HIDE DEF later
        <5>1. First(later) \in later
          BY <4>1, FirstOf
        <5> QED
          BY <5>1 DEF later
      <4>3. No(prog, i) = First(later)
        BY <1>0, <4>1 DEF ChecksArch
      <4>4. R[i][a] = R[No(prog, i)][a]
        BY <2>4, <2>5, <3>1
      <4>5. After(A, i) = First(later)
        BY DEF After
      <4> QED
        BY <4>2, <4>3, <4>4, <4>5
    <3>2. f[First(A)] = Run(prog, call)
      <4>1. 2 \in A
        BY <1>6, ArchTests
      <4> QED
        BY <2>1, <2>3, <4>1
    <3>3. f[q] = R[q][a]
      OBVIOUS
    <3> HIDE DEF f, A
    <3>4. f[q] = Run(prog, call)
      BY <1>0, <2>1, <2>5, <3>1, <3>2, Chain
    <3> QED
      BY <3>3, <3>4
  <2>6. CASE met # {}
    <3> DEFINE q == First(met)
    <3>1. q \in met /\ \A i \in met : q <= i
      <4>1. met \in SUBSET Nat
        BY <2>2
      <4> HIDE DEF met
      <4> QED
        BY <2>6, <4>1, FirstOf
    <3>2. e = Yes(prog, q)
      BY <1>6, <2>6 DEF Entry
    <3> HIDE DEF q, e
    <3>3. q \in A /\ prog[q].k = a /\ q \in Nat
      BY <2>1, <3>1
    <3>4. \A i \in A : i < q => i \notin met
      BY <2>1, <3>1, <3>3
    <3>5. R[q][a] = Run(prog, call)
      BY <2>5, <3>3, <3>4
    <3>6. R[q][a] = R[Yes(prog, q)][a]
      BY <1>0, <1>3, <2>1, <3>3, RunSteps
    <3> QED
      BY <1>1, <1>3, <1>4, <3>2, <3>5, <3>6 DEF e
  <2>7. CASE met = {}
    <3> DEFINE q == Last(A)
    <3>1. q \in A
      BY <1>6, <2>2, LastOf
    <3>2. e = No(prog, q)
      BY <1>6, <2>7 DEF Entry
    <3> HIDE DEF q, e
    <3>3. R[q][a] = Run(prog, call)
      BY <2>5, <2>7, <3>1
    <3>4. R[q][a] = R[No(prog, q)][a]
      BY <2>4, <2>7, <3>1
    <3> QED
      BY <1>1, <1>3, <1>4, <3>2, <3>3, <3>4 DEF e
  <2> QED
    BY <2>6, <2>7
<1> QED
  BY <1>1, <1>5, <1>6

LEMMA Arrives ==
  ASSUME NEW prog, NEW m, Written(prog, m), NEW call \in Calls, call.arch = AuditArch[m],
         Own(prog, m) # {}
  PROVE  Run(prog, call) = RunFrom(prog, call)[First(Own(prog, m))][call.nr]
<1> DEFINE e == Entry(prog, AuditArch[m])
           N == Own(prog, m)
<1>0. WellFormed(prog) /\ WithoutWaste(prog, m) /\ ChecksArch(prog, m) /\ N \in SUBSET Nat
  BY OwnAreTests DEF Written
<1>1. e \in Loads(prog) /\ e \in DOMAIN prog /\ e \in Nat /\ prog[e].op = "ld"
  BY <1>0, Enters, Places DEF Loads
<1>2. prog[e].word = "nr"
  BY <1>0, <1>1 DEF ChecksArch, Rets
<1>3. e + 1 \in Tests(prog, "nr")
  <2> HIDE DEF e
  <2> QED
    BY <1>0, <1>1, <1>2, LoadThenTest
<1>4. \A x \in Entries(prog) : x \in Nat /\ x # e + 1
  <2> SUFFICES ASSUME NEW x \in Entries(prog) PROVE x \in Nat /\ x # e + 1
    OBVIOUS
  <2>1. x \in Rets(prog) \cup Loads(prog) \cup Tests(prog, "arch")
    BY <1>0 DEF ChecksArch
  <2>2. x \in DOMAIN prog /\ x \notin Tests(prog, "nr")
    BY <2>1 DEF Rets, Loads, Tests, Conditions
  <2> HIDE DEF e
  <2> QED
    BY <1>0, <1>3, <2>2, Places
<1>5. e + 1 \in N
  <2> HIDE DEF e
  <2>1. \A x \in Entries(prog) : ~(e < x /\ x <= e + 1)
    BY <1>1, <1>4
  <2>2. e < e + 1
    BY <1>1
  <2> QED
    BY <1>1, <1>3, <2>1, <2>2 DEF Own, NumberTests, e
<1>6. \A t \in N : e + 1 <= t
  <2> SUFFICES ASSUME NEW t \in N PROVE e + 1 <= t
    OBVIOUS
  <2>1. e < t /\ t \in Nat
    BY <1>0 DEF Own, NumberTests
  <2> HIDE DEF e
  <2> QED
    BY <1>1, <2>1
<1> HIDE DEF N
<1>7. First(N) \in N /\ \A t \in N : First(N) <= t
  BY <1>0, <1>5, FirstOf
<1>8. First(N) = e + 1
  <2> HIDE DEF e
  <2>1. First(N) \in Nat /\ First(N) <= e + 1 /\ e + 1 <= First(N)
    BY <1>0, <1>5, <1>6, <1>7 DEF N
  <2> QED
    BY <1>1, <2>1
<1> QED
  BY <1>8, Enters DEF N

\* It comes to each comparison of the number that no earlier one keeps it from.
LEMMA Reaches ==
  ASSUME NEW prog, NEW m, Written(prog, m), NEW call \in Calls, call.arch = AuditArch[m],
         call.nr \in NumbersOf(m), NEW q \in Own(prog, m),
         \A i \in Own(prog, m) : i < q => Passes(prog, i, call.nr)
  PROVE  RunFrom(prog, call)[q][call.nr] = Run(prog, call)
<1> DEFINE N == Own(prog, m)
           f == [i \in N |-> RunFrom(prog, call)[i][call.nr]]
<1>1. N \subseteq Conditions(prog) /\ N \in SUBSET Nat /\ WellFormed(prog)
  BY OwnAreTests DEF Written
<1>2. f[First(N)] = Run(prog, call)
  <2>1. First(N) \in N
    BY <1>1, FirstOf
  <2> QED
    BY <2>1, Arrives
<1>3. ASSUME NEW p \in N, p < q
      PROVE  f[p] = f[After(N, p)]
  <2> DEFINE later == {t \in N : t > p}
  <2>1. later # {} /\ later \in SUBSET Nat
    BY <1>1, <1>3
  <2>2. First(later) \in N
    <3> HIDE DEF later
    <3>1. First(later) \in later
      BY <2>1, FirstOf
    <3> QED
      BY <3>1 DEF later
  <2>3. later = {t \in Own(prog, m) : t > p} /\ Passes(prog, p, call.nr)
    BY <1>3
  <2> HIDE DEF later
  <2>4. RunFrom(prog, call)[p][call.nr] = RunFrom(prog, call)[First(later)][call.nr]
    BY <2>1, <2>3, FallsOn
  <2>5. After(N, p) = First(later)
    BY DEF After, later
  <2> QED
    BY <2>2, <2>4, <2>5
<1>4. f[q] = RunFrom(prog, call)[q][call.nr]
  OBVIOUS
<1> HIDE DEF f, N
<1>5. q \in N
  BY DEF N
<1>6. f[q] = Run(prog, call)
  BY <1>1, <1>2, <1>3, <1>5, Chain
<1> QED
  BY <1>4, <1>6

\* A call that no rule is about meets the default.
LEMMA Defaults ==
  ASSUME NEW prog, NEW m, Written(prog, m), NEW call \in Calls, call.arch = AuditArch[m],
         call.nr \in NumbersOf(m), Own(prog, m) # {},
         \A i \in Own(prog, m) : Passes(prog, i, call.nr)
  PROVE  Run(prog, call) = Default(prog, AuditArch[m])
<1> DEFINE N == Own(prog, m)
           q == Last(N)
<1>0. /\ WellFormed(prog) /\ N \in SUBSET (1..Len(prog)) /\ Len(prog) \in Nat /\ N # {}
  BY OwnAreTests DEF Written
<1>1. q \in N /\ \A t \in N : t <= q
  <2> HIDE DEF N
  <2> QED
    BY <1>0, LastOf
<1> HIDE DEF q
<1>2. RunFrom(prog, call)[q][call.nr] = Run(prog, call)
  BY <1>1, Reaches
<1> DEFINE later == {t \in N : t > q}
<1>3. later = {}
  BY <1>0, <1>1
<1>4. later = {t \in Own(prog, m) : t > q}
  OBVIOUS
<1> HIDE DEF later
<1>5. RunFrom(prog, call)[q][call.nr] = Outcome(prog, No(prog, q))
  <2> HIDE DEF N
  <2>1. q \in Own(prog, m) /\ Passes(prog, q, call.nr)
    BY <1>1 DEF N
  <2> QED
    BY <1>3, <1>4, <2>1, FallsOn
<1> QED
  BY <1>2, <1>5 DEF Default, q, Own

\* The comparisons of one rule hold together, and behind them is its return: what
\* is followed to within ten steps.
LEMMA RuleLeads ==
  ASSUME NEW prog, NEW m, Written(prog, m), NEW call \in Calls,
         \A t \in Tests(prog, "arg") : prog[t].op = "jeq" /\ prog[t].k = call.arg,
         NEW i \in RuleTests(prog, m), NEW acc \in Nat
  PROVE  \A n \in 0..Steps :
            ResolveFrom(prog)[n][Yes(prog, i)] # Custom =>
                ResolveFrom(prog)[n][Yes(prog, i)] = RunFrom(prog, call)[Yes(prog, i)][acc]
<1> DEFINE R == RunFrom(prog, call)
           F == ResolveFrom(prog)
           Good(t, a) == \A n \in 0..Steps :
                              F[n][Yes(prog, t)] # Custom => F[n][Yes(prog, t)] = R[Yes(prog, t)][a]
           Bad == {d \in 0..Len(prog) : \E t \in RuleTests(prog, m), a \in Nat :
                                           t = Len(prog) - d /\ ~ Good(t, a)}
<1>0. /\ WellFormed(prog) /\ WithoutWaste(prog, m) /\ ListsRules(prog, m)
      /\ Len(prog) \in Nat
      /\ RuleTests(prog, m) \subseteq Conditions(prog) /\ RuleTests(prog, m) \in SUBSET (1..Len(prog))
  BY TestsAreConditions, OwnAreTests DEF Written, RuleTests
<1>1. ASSUME NEW t \in RuleTests(prog, m), NEW a \in Nat, ~ Good(t, a)
      PROVE  Len(prog) - t \in Bad
  <2>1. Len(prog) - t \in 0..Len(prog) /\ t = Len(prog) - (Len(prog) - t)
    BY <1>0
  <2> HIDE DEF Good
  <2> QED
    BY <1>1, <2>1
<1> SUFFICES ASSUME Bad # {} PROVE FALSE
  <2> SUFFICES ASSUME ~ Good(i, acc) PROVE FALSE
    OBVIOUS
  <2> HIDE DEF Good, Bad
  <2> QED
    BY <1>1
<1>2. PICK d \in Bad : \A e \in Bad : d <= e
  <2>1. Bad \in SUBSET Nat
    BY <1>0
  <2> HIDE DEF Bad
  <2> QED
    BY <2>1, LeastNumber
<1>3. PICK t \in RuleTests(prog, m), a \in Nat : t = Len(prog) - d /\ ~ Good(t, a)
  <2> HIDE DEF Good
  <2> QED
    BY <1>2
<1>4. ASSUME NEW u \in RuleTests(prog, m), u > t, NEW b \in Nat
      PROVE  Good(u, b)
  <2> SUFFICES ASSUME ~ Good(u, b) PROVE FALSE
    OBVIOUS
  <2> HIDE DEF Good, Bad
  <2>1. Len(prog) - u \in Bad
    BY <1>1
  <2>2. d <= Len(prog) - u /\ d \in Nat /\ u \in Nat
    <3>1. d \in 0..Len(prog)
      BY <1>2 DEF Bad
    <3> QED
      BY <1>0, <1>2, <2>1, <3>1
  <2> QED
    BY <1>0, <1>3, <1>4, <2>2
<1>5. t \in Conditions(prog) /\ t \in Nat
  BY <1>0
<1>6. Yes(prog, t) \in DOMAIN prog /\ prog[t].jt \in Nat
  BY <1>0, <1>5, Conditional
<1>7. \/ Ends(prog, Yes(prog, t))
      \/ prog[t].jt = 0 /\ t + 1 \in Loads(prog) /\ prog[t + 1].word = "arg"
  BY <1>0 DEF ListsRules, RuleTests, Own
<1>8. CASE Ends(prog, Yes(prog, t))
  <2>1. R[Yes(prog, t)][a] = Outcome(prog, Yes(prog, t))
    BY <1>0, <1>6, <1>8, EndsRun
  <2>2. ASSUME NEW n \in 0..Steps, F[n][Yes(prog, t)] # Custom
        PROVE  F[n][Yes(prog, t)] = Outcome(prog, Yes(prog, t))
    BY <1>0, <1>6, <1>8, <2>2, EndsResolve
  <2> HIDE DEF R, F
  <2>3. Good(t, a)
    BY <2>1, <2>2
  <2> HIDE DEF Good
  <2> QED
    BY <1>3, <2>3
<1>9. CASE prog[t].jt = 0 /\ t + 1 \in Loads(prog) /\ prog[t + 1].word = "arg"
  <2> DEFINE u == t + 2
  <2>1. Yes(prog, t) = t + 1
    BY <1>5, <1>9 DEF Yes
  <2>2. t + 1 \in DOMAIN prog /\ prog[t + 1].op = "ld" /\ t + 1 + 1 = t + 2
    BY <1>5, <1>9 DEF Loads
  <2>3. u \in Tests(prog, "arg")
    BY <1>0, <1>9, <2>2, LoadThenTest
  <2>4. u \in RuleTests(prog, m) /\ u > t /\ prog[u].op = "jeq" /\ prog[u].k = call.arg
    BY <1>5, <2>3 DEF RuleTests
  <2>5. u \in DOMAIN prog /\ call.arg \in Nat
    BY <1>0, <2>4, Conditional DEF Calls
  <2>6. R[t + 1][a] = R[u][call.arg]
    BY <1>0, <1>9, <2>2, RunSteps, SMTT(30)
  <2>7. R[u][call.arg] = R[Yes(prog, u)][call.arg]
    <3> HIDE DEF u
    <3> QED
      BY <1>0, <2>4, <2>5, RunSteps, SMTT(30)
  <2>8. Good(u, call.arg)
    <3> HIDE DEF Good, u
    <3> QED
      BY <1>4, <2>4, <2>5
  <2>9. ASSUME NEW n \in 0..Steps, F[n][t + 1] # Custom
        PROVE  F[n][t + 1] = R[t + 1][a]
    <3>1. F[n][t + 1] = F[n + 1][u] /\ n + 1 \in 0..Steps
      <4> DEFINE j == t + 1
      <4>1. j \in DOMAIN prog /\ prog[j].op = "ld" /\ F[n][j] # Custom /\ j + 1 = u
        BY <2>2, <2>9
      <4> HIDE DEF j, u
      <4>2. F[n][j] = F[n + 1][j + 1] /\ n + 1 \in 0..Steps
        BY <1>0, <4>1, ResolveSteps, SMTT(30)
      <4> QED
        BY <4>1, <4>2 DEF j
    <3>2. F[n + 1][u] = F[n + 1 + 1][Yes(prog, u)] /\ n + 1 + 1 \in 0..Steps
      <4>1. F[n + 1][u] # Custom
        BY <2>9, <3>1
      <4> HIDE DEF u
      <4> QED
        BY <1>0, <2>4, <2>5, <3>1, <4>1, ResolveSteps, SMTT(30)
    <3> HIDE DEF R, F, u
    <3>3. F[n + 1 + 1][Yes(prog, u)] = R[Yes(prog, u)][call.arg]
      BY <2>8, <2>9, <3>1, <3>2
    <3> QED
      BY <2>6, <2>7, <3>1, <3>2, <3>3
  <2> HIDE DEF R, F, u
  <2>10. Good(t, a)
    BY <2>1, <2>9
  <2> HIDE DEF Good
  <2> QED
    BY <1>3, <2>10
<1> QED
  BY <1>7, <1>8, <1>9

\* A call with a rule takes the true branch of the rule's comparison.
LEMMA MeetsRule ==
  ASSUME NEW prog, NEW m, Written(prog, m), NEW call \in Calls, call.arch = AuditArch[m],
         call.nr \in NumbersOf(m), NEW q \in Own(prog, m),
         prog[q].op = "jeq", prog[q].k = call.nr,
         \A i \in Own(prog, m) : i < q => Passes(prog, i, call.nr)
  PROVE  Run(prog, call) = RunFrom(prog, call)[Yes(prog, q)][call.nr]
<1>1. WellFormed(prog) /\ q \in DOMAIN prog /\ call.nr \in Nat
  BY OwnAreTests DEF Written, Calls, Conditions
<1>2. Run(prog, call) = RunFrom(prog, call)[q][call.nr]
  BY Reaches
<1> QED
  BY <1>1, <1>2, RunSteps

\* The first comparison with a number that there is, as a rule of it.
LEMMA FirstRule ==
  ASSUME NEW prog, WellFormed(prog), NEW m, NEW nr, NEW q \in Own(prog, m),
         q \in Rules(prog, nr), \A i \in Rules(prog, nr) : q <= i
  PROVE  /\ prog[q].op = "jeq" /\ prog[q].k = nr
         /\ \A i \in Own(prog, m) : i < q => Passes(prog, i, nr)
<1>1. prog[q].op = "jeq" /\ prog[q].k = nr
  BY DEF Rules
<1>2. ASSUME NEW i \in Own(prog, m), i < q, ~ Passes(prog, i, nr)
      PROVE  FALSE
  <2>1. i \in Rules(prog, nr)
    BY <1>2, OwnAreTests DEF Passes, Rules
  <2>2. q <= i /\ i \in Nat /\ q \in Nat
    BY <2>1, OwnAreTests
  <2> QED
    BY <1>2, <2>2
<1> QED
  BY <1>1, <1>2

\* A program that does not load the architecture is blind to it.
LEMMA BlindToArch ==
  ASSUME NEW prog, WellFormed(prog), ~ LoadsArch(prog), NEW call \in Calls, NEW other \in Calls,
         call.nr = other.nr, call.arg = other.arg
  PROVE  Run(prog, call) = Run(prog, other)
<1> DEFINE R == RunFrom(prog, call)
           Q == RunFrom(prog, other)
           Bad == {d \in 0..Len(prog) : \E i \in DOMAIN prog, acc \in Nat :
                                           i = Len(prog) - d /\ R[i][acc] # Q[i][acc]}
<1>0. Len(prog) \in Nat /\ DOMAIN prog = 1..Len(prog) /\ 1 \in DOMAIN prog
  BY Places
<1>1. ASSUME NEW i \in DOMAIN prog, NEW acc \in Nat, R[i][acc] # Q[i][acc]
      PROVE  Len(prog) - i \in Bad
  <2>1. Len(prog) - i \in 0..Len(prog) /\ i = Len(prog) - (Len(prog) - i)
    BY <1>0
  <2> HIDE DEF R, Q
  <2> QED
    BY <1>1, <2>1
<1> SUFFICES ASSUME Bad # {} PROVE FALSE
  <2> SUFFICES ASSUME R[1][0] # Q[1][0] PROVE FALSE
    BY DEF Run
  <2> HIDE DEF R, Q, Bad
  <2> QED
    BY <1>0, <1>1
<1>2. PICK d \in Bad : \A e \in Bad : d <= e
  <2>1. Bad \in SUBSET Nat
    BY <1>0
  <2> HIDE DEF Bad
  <2> QED
    BY <2>1, LeastNumber
<1>3. PICK i \in DOMAIN prog, acc \in Nat : i = Len(prog) - d /\ R[i][acc] # Q[i][acc]
  <2> HIDE DEF R, Q
  <2> QED
    BY <1>2
<1>4. ASSUME NEW j \in DOMAIN prog, j > i, NEW a \in Nat
      PROVE  R[j][a] = Q[j][a]
  <2> SUFFICES ASSUME R[j][a] # Q[j][a] PROVE FALSE
    OBVIOUS
  <2> HIDE DEF R, Q, Bad
  <2>1. Len(prog) - j \in Bad
    BY <1>1
  <2>2. d <= Len(prog) - j /\ d \in Nat
    <3>1. d \in 0..Len(prog)
      BY <1>2 DEF Bad
    <3> QED
      BY <1>0, <1>2, <2>1, <3>1
  <2> QED
    BY <1>0, <1>3, <1>4, <2>2
<1>5. i \in Nat /\ prog[i].op \in {"ret", "ld", "ja", "jeq", "jge"}
  BY Kinds
<1>6. CASE prog[i].op = "ret"
  <2>1. R[i][acc] = prog[i].action /\ Q[i][acc] = prog[i].action
    BY <1>6, RunSteps
  <2> QED
    BY <1>3, <2>1
<1>7. CASE prog[i].op = "ld"
  <2>1. i + 1 \in DOMAIN prog /\ i + 1 > i /\ prog[i].word \in {"nr", "arg"}
    BY <1>5, <1>7, Kinds DEF LoadsArch, Loads
  <2>2. call[prog[i].word] = other[prog[i].word] /\ call[prog[i].word] \in Nat
    BY <2>1, CallWord
  <2>3. R[i][acc] = R[i + 1][call[prog[i].word]] /\ Q[i][acc] = Q[i + 1][other[prog[i].word]]
    BY <1>7, RunSteps
  <2> HIDE DEF R, Q
  <2> QED
    BY <1>3, <1>4, <2>1, <2>2, <2>3
<1>8. CASE prog[i].op = "ja"
  <2> DEFINE j == i + 1 + prog[i].k
  <2>1. j \in DOMAIN prog /\ j > i
    BY <1>5, <1>8, Kinds, SMTT(30)
  <2>2. R[i][acc] = R[j][acc] /\ Q[i][acc] = Q[j][acc]
    BY <1>8, RunSteps
  <2> HIDE DEF R, Q, j
  <2> QED
    BY <1>3, <1>4, <2>1, <2>2
<1>9. CASE prog[i].op \in {"jeq", "jge"}
  <2> DEFINE j == IF prog[i].op = "jeq"
                  THEN IF acc = prog[i].k THEN Yes(prog, i) ELSE No(prog, i)
                  ELSE IF acc >= prog[i].k THEN Yes(prog, i) ELSE No(prog, i)
  <2>1. j \in DOMAIN prog /\ j > i
    <3>1. i \in Conditions(prog)
      BY <1>9 DEF Conditions
    <3> QED
      BY <3>1, Conditional
  <2>2. R[i][acc] = R[j][acc]
    BY <1>9, RunSteps
  <2>3. Q[i][acc] = Q[j][acc]
    BY <1>9, RunSteps
  <2> HIDE DEF R, Q, j
  <2> QED
    BY <1>3, <1>4, <2>1, <2>2, <2>3
<1> QED
  BY <1>5, <1>6, <1>7, <1>8, <1>9

(***************************************************************************)
(* The policy.                                                             *)
(***************************************************************************)

\* What a comparison looks at was loaded before it.
LEMMA LoadedBefore ==
  ASSUME NEW prog, NEW m, Written(prog, m), NEW i \in Conditions(prog), ~IsArchTest(prog, i)
  PROVE  \E l \in Loads(prog) : /\ l < i /\ prog[l].word = Compared(prog, i)
                                /\ \A j \in Loads(prog) : j < i => j <= l
<1> DEFINE S == {j \in Loads(prog) : j < i}
<1>1. WellFormed(prog) /\ ChecksArch(prog, m)
  BY DEF Written
<1>2. 1 \in Loads(prog) /\ prog[1].op = "ld"
  BY <1>1 DEF ChecksArch, Loads
<1>3. i \in Nat \ {0} /\ prog[i].op \in {"jeq", "jge"}
  BY <1>1, Conditional
<1>4. 1 < i
  <2>1. i # 1
    BY <1>2, <1>3
  <2> QED
    BY <1>3, <2>1
<1>5. S \in SUBSET (1..Len(prog)) /\ Len(prog) \in Nat
  BY <1>1, Places DEF Loads
<1>6. 1 \in S
  BY <1>2, <1>4
<1> HIDE DEF S
<1>7. Last(S) \in S /\ \A j \in S : j <= Last(S)
  BY <1>5, <1>6, LastOf
<1>8. Compared(prog, i) = prog[Last(S)].word
  BY DEF Compared, LoadedLast, S
<1> QED
  BY <1>7, <1>8 DEF S

LEMMA ComparedWords ==
  ASSUME NEW prog, NEW m, Written(prog, m), NEW i \in Conditions(prog)
  PROVE  Compared(prog, i) \in {"nr", "arch", "arg"}
<1>1. CASE IsArchTest(prog, i)
  BY <1>1 DEF Compared
<1>2. CASE ~IsArchTest(prog, i)
  <2>1. PICK l \in Loads(prog) : prog[l].word = Compared(prog, i)
    BY <1>2, LoadedBefore
  <2>2. l \in DOMAIN prog /\ prog[l].op = "ld"
    BY DEF Loads
  <2> QED
    BY <2>1, <2>2, Kinds DEF Written
<1> QED
  BY <1>1, <1>2

\* What is done with a call without a rule is written at a return.
LEMMA DefaultReturn ==
  ASSUME NEW prog, NEW m, Written(prog, m), FallsThrough(prog), OneArch(prog, AuditArch[m])
  PROVE  /\ DefaultRet(prog) = Default(prog, AuditArch[m])
         /\ Default(prog, AuditArch[m]) \in Returns(prog)
<1> DEFINE N == Tests(prog, "nr")
           q == Last(N)
           r == No(prog, q)
           untargeted == Rets(prog) \ JumpTargets(prog)
<1>0. /\ WellFormed(prog) /\ ChecksArch(prog, m) /\ WithoutWaste(prog, m)
      /\ N \in SUBSET (1..Len(prog)) /\ Len(prog) \in Nat /\ N # {}
      /\ DOMAIN prog = 1..Len(prog)
  BY TestsAreConditions, Places DEF Written, ListsRules
<1>1. q \in N /\ \A t \in N : t <= q
  <2> HIDE DEF N
  <2> QED
    BY <1>0, LastOf
<1>2. r \in untargeted /\ prog[r].op = "ret"
  BY <1>0 DEF WithoutWaste, Rets
<1>3. /\ Default(prog, AuditArch[m]) = prog[r].action
      /\ Default(prog, AuditArch[m]) \in Returns(prog)
  BY <1>2 DEF Default, Outcome, Returns, OneArch
<1>4. q \in Conditions(prog) /\ q \in Nat /\ Compared(prog, q) = "nr"
  BY <1>0, <1>1 DEF Tests
<1> HIDE DEF q
<1>5. r = q + 1
  <2>1. prog[q].jf = 0
    BY <1>4 DEF FallsThrough
  <2> QED
    BY <1>4, <2>1 DEF No
<1>6. ASSUME NEW s \in untargeted, s > r
      PROVE  FALSE
  <2> DEFINE p == s - 1
  <2>1. /\ s \in DOMAIN prog /\ prog[s].op = "ret" /\ s \notin JumpTargets(prog) /\ s \in Nat
        /\ p \in DOMAIN prog /\ p \in Nat /\ p > q /\ s > 1 /\ p + 1 = s
    BY <1>0, <1>4, <1>5, <1>6 DEF Rets
  <2>2. prog[p].op \in {"ret", "ld", "ja", "jeq", "jge"}
    BY <1>0, <2>1, Kinds
  <2>3. prog[p].op \notin {"ret", "ja"}
    BY <1>0, <2>1 DEF WithoutWaste
  <2>4. prog[p].op # "ld"
    <3> SUFFICES ASSUME prog[p].op = "ld" PROVE FALSE
      OBVIOUS
    <3>1. p \in Loads(prog)
      BY <2>1 DEF Loads
    <3>2. s \in Conditions(prog)
      <4> HIDE DEF p
      <4>1. s \in Tests(prog, prog[p].word)
        BY <1>0, <2>1, <3>1 DEF WithoutWaste
      <4> QED
        BY <4>1 DEF Tests
    <3> QED
      BY <2>1, <3>2 DEF Conditions
  <2> HIDE DEF p
  <2>5. p \in Conditions(prog)
    BY <2>1, <2>2, <2>3, <2>4 DEF Conditions
  <2>6. Compared(prog, p) # "nr"
    <3> SUFFICES ASSUME Compared(prog, p) = "nr" PROVE FALSE
      OBVIOUS
    <3>1. p \in N
      BY <2>5 DEF Tests
    <3> QED
      BY <1>1, <1>4, <2>1, <3>1
  <2>7. Compared(prog, p) # "arg"
    <3> SUFFICES ASSUME Compared(prog, p) = "arg" PROVE FALSE
      OBVIOUS
    <3>1. ~IsArchTest(prog, p)
      BY DEF Compared
    <3>2. PICK l \in Loads(prog) : prog[l].word = "arg"
      BY <2>5, <3>1, LoadedBefore
    <3>3. l - 1 \in Conditions(prog) /\ prog[l - 1].jt = 0
      BY <1>0, <3>2 DEF WithoutWaste
    <3>4. prog[l - 1].jt > 0
      BY <3>3 DEF FallsThrough
    <3> QED
      BY <3>3, <3>4
  <2>8. Compared(prog, p) # "arch"
    <3> SUFFICES ASSUME Compared(prog, p) = "arch" PROVE FALSE
      OBVIOUS
    <3> DEFINE A == Tests(prog, "arch")
               before == {t \in A : t < q}
               i == Last(before)
               later == {t \in A : t > i}
    <3>1. p \in A /\ q \notin A
      BY <1>4, <2>5 DEF Tests
    <3>2. 2 \in A /\ 1 \in DOMAIN prog /\ prog[1].op = "ld" /\ A \in SUBSET (1..Len(prog))
      BY <1>0, <3>1, ArchTests, TestsAreConditions
    <3>3. q > 2
      <4>1. q # 1 /\ q # 2
        BY <1>4, <3>1, <3>2 DEF Conditions
      <4>2. q # 0
        BY <1>0, <1>1
      <4> QED
        BY <1>4, <4>1, <4>2
    <3>4. i \in before /\ \A t \in before : t <= i
      <4>1. 2 \in before /\ before \in SUBSET (1..Len(prog))
        BY <3>2, <3>3
      <4> HIDE DEF before
      <4> QED
        BY <1>0, <4>1, LastOf
    <3> HIDE DEF i
    <3>5. i \in A /\ i < q /\ i \in Nat
      BY <3>2, <3>4
    <3>6. later # {} /\ later \in SUBSET Nat
      <4>1. p > i
        BY <1>4, <2>1, <3>5
      <4> QED
        BY <3>1, <3>2, <4>1
    <3>7. No(prog, i) = First(later)
      BY <1>0, <3>5, <3>6 DEF ChecksArch
    <3>8. No(prog, i) = i + 1
      <4>1. i \in Conditions(prog)
        BY <3>5 DEF Tests
      <4>2. prog[i].jf = 0
        BY <4>1 DEF FallsThrough
      <4> QED
        BY <3>5, <4>2 DEF No
    <3>9. i + 1 \in A
      <4> HIDE DEF later
      <4>1. First(later) \in later
        BY <3>6, FirstOf
      <4> QED
        BY <3>7, <3>8, <4>1 DEF later
    <3>10. i + 1 < q
      <4>1. i + 1 # q
        BY <3>1, <3>9
      <4> QED
        BY <1>4, <3>5, <4>1
    <3>11. i + 1 <= i
      BY <3>4, <3>9, <3>10
    <3> QED
      BY <3>5, <3>11
  <2> QED
    BY <1>0, <2>5, <2>6, <2>7, <2>8, ComparedWords
<1>7. Last(untargeted) = r
  <2>1. untargeted \in SUBSET (1..Len(prog))
    BY <1>0 DEF Rets
  <2> HIDE DEF untargeted, r
  <2>2. Last(untargeted) \in untargeted /\ \A j \in untargeted : j <= Last(untargeted)
    BY <1>0, <1>2, <2>1, LastOf
  <2>3. r <= Last(untargeted) /\ ~ Last(untargeted) > r
    BY <1>2, <1>6, <2>2
  <2>4. Len(prog) \in Nat
    BY <1>0
  <2>5. Last(untargeted) \in 1..Len(prog) /\ r \in 1..Len(prog)
    BY <1>2, <2>1, <2>2
  <2> QED
    BY <2>3, <2>4, <2>5
<1>8. DefaultRet(prog) = prog[r].action
  <2>1. untargeted # {}
    BY <1>2
  <2> HIDE DEF r
  <2> QED
    BY <1>7, <2>1 DEF DefaultRet
<1> QED
  BY <1>3, <1>8

LEMMA CallOf ==
  ASSUME machine \in Machines, NEW nr \in NumbersOf(machine), NEW arg \in Args, NEW arch \in Arches
  PROVE  /\ Call(nr, arch, arg) \in Calls /\ Call(nr, arch, arg).nr = nr
         /\ Call(nr, arch, arg).arch = arch /\ Call(nr, arch, arg).arg = arg
<1>1. nr \in Nat
  BY FiltersAssumption DEF NumbersOf, targetHighRiskSyscalls
<1>2. arg \in Nat /\ arch \in Nat
  BY FiltersAssumption
<1> QED
  BY <1>1, <1>2 DEF Call, Calls

LEMMA NativeCall ==
  ASSUME machine \in Machines, NEW nr \in NumbersOf(machine), NEW arg \in Args
  PROVE  /\ Native(nr, arg) \in Calls /\ Native(nr, arg).nr = nr
         /\ Native(nr, arg).arch = AuditArch[machine] /\ Native(nr, arg).arg = arg
<1>1. AuditArch[machine] \in Arches
  BY FiltersAssumption
<1> QED
  BY <1>1, CallOf DEF Native

LEMMA NoRulePasses ==
  ASSUME NEW prog, NEW nr, Rules(prog, nr) = {}
  PROVE  \A i \in Tests(prog, "nr") : Passes(prog, i, nr)
BY DEF Rules, Tests, Passes

LEMMA FetchedIsWritten ==
  ASSUME BPFInv, fetched # 0
  PROVE  /\ fetched \in DOMAIN stack /\ machine \in Machines /\ Written(stack[fetched], machine)
<1>1. stack \in Seq(Programs) /\ fetched \in 0..Len(stack) /\ machine \in Machines
  BY DEF BPFInv, StackInv, AuditInv
<1>2. fetched \in DOMAIN stack
  BY <1>1
<1> QED
  BY <1>1, <1>2, InstalledAreWritten DEF BPFInv, Written

LEMMA PolicyHolds ==
  ASSUME BPFInv
  PROVE  PolicyRight
<1> DEFINE prog == stack[fetched]
<1> SUFFICES ASSUME fetched # 0, FallsThrough(prog), OneArch(prog, AuditArch[machine]),
                    "LOG" \notin Returns(prog),
                    NEW nr \in AllNumbers, Rules(prog, nr) = {}, NEW arg \in Args
             PROVE  details.policy = "Default-Allow" <=> Run(prog, Native(nr, arg)) \in Proceeds
  BY DEF PolicyRight
<1>1. machine \in Machines /\ Written(prog, machine) /\ nr \in NumbersOf(machine)
  BY FetchedIsWritten DEF AllNumbers
<1>2. details.policy = PolicyOf(prog)
  BY DEF BPFInv, DetailsInv
<1> HIDE DEF prog
<1>3. DefaultRet(prog) = Default(prog, AuditArch[machine]) /\ DefaultRet(prog) # "LOG"
  BY <1>1, DefaultReturn
<1>4. Run(prog, Native(nr, arg)) = Default(prog, AuditArch[machine])
  <2>1. /\ \A i \in Own(prog, machine) : Passes(prog, i, nr)
        /\ Own(prog, machine) # {}
    BY <1>1, NoRulePasses DEF Own, OneArch, Written, ListsRules
  <2>2. /\ Native(nr, arg) \in Calls /\ Native(nr, arg).nr = nr
        /\ Native(nr, arg).arch = AuditArch[machine]
    BY <1>1, NativeCall
  <2> QED
    BY <1>1, <2>1, <2>2, Defaults
<1> QED
  BY <1>2, <1>3, <1>4 DEF PolicyOf, Proceeds

(***************************************************************************)
(* The verdicts.                                                           *)
(***************************************************************************)
LEMMA ReportedHolds ==
  ASSUME BPFInv
  PROVE  ReportedActionOccurs
<1> DEFINE prog == stack[fetched]
<1> SUFFICES ASSUME fetched # 0, NEW nr \in DOMAIN details.audited,
                    details.audited[nr].evaluated, details.audited[nr].action # Custom,
                    IsOwnRule(prog, nr)
             PROVE  \E arg \in Args : Run(prog, Native(nr, arg)) = details.audited[nr].action
  BY DEF ReportedActionOccurs
<1>1. machine \in Machines /\ Written(prog, machine)
  BY FetchedIsWritten
<1>2. /\ nr \in NumbersOf(machine)
      /\ details.audited[nr] = CheckSyscallInBPF(prog, nr)
  BY DEF BPFInv, DetailsInv, NumbersOf
<1> HIDE DEF prog
<1> DEFINE q == RuleOf(prog, nr)
<1>3. Rules(prog, nr) # {} /\ details.audited[nr].action = ResolveJumpAction(prog, Yes(prog, q))
  BY <1>2 DEF CheckSyscallInBPF, Yes
<1>4. WellFormed(prog) /\ ListsRules(prog, machine)
  BY <1>1 DEF Written
<1>5. q \in Rules(prog, nr) /\ \A i \in Rules(prog, nr) : q <= i
  BY <1>3, <1>4, RuleOfIsRule
<1> HIDE DEF q
<1>6. q \in Own(prog, machine)
  BY DEF IsOwnRule, Own, q, prog
<1>7. prog[q].op = "jeq" /\ prog[q].k = nr /\ \A i \in Own(prog, machine) : i < q => Passes(prog, i, nr)
  BY <1>4, <1>5, <1>6, FirstRule
<1>8. PICK arg \in Args : \A i \in Tests(prog, "arg") : prog[i].op = "jeq" /\ prog[i].k = arg
  BY <1>4 DEF ListsRules
<1> DEFINE call == Native(nr, arg)
<1>9. call \in Calls /\ call.nr = nr /\ call.arch = AuditArch[machine] /\ call.arg = arg /\ nr \in Nat
  BY <1>1, <1>2, NativeCall DEF Calls
<1> HIDE DEF call
<1>10. Run(prog, call) = RunFrom(prog, call)[Yes(prog, q)][nr]
  BY <1>1, <1>2, <1>6, <1>7, <1>9, MeetsRule
<1>11. q \in RuleTests(prog, machine)
  BY <1>6, <1>7 DEF RuleTests
<1>12. 0 \in 0..Steps
  BY DEF Steps
<1>13. ResolveFrom(prog)[0][Yes(prog, q)] # Custom =>
         ResolveFrom(prog)[0][Yes(prog, q)] = RunFrom(prog, call)[Yes(prog, q)][nr]
  BY <1>1, <1>8, <1>9, <1>11, <1>12, RuleLeads
<1> QED
  BY <1>3, <1>10, <1>13 DEF ResolveJumpAction, call

\* What one filter refuses, all of them together refuse.
LEMMA StrictestRefuses ==
  ASSUME NEW filters, NEW call, NEW i \in DOMAIN filters,
         Run(filters[i], call) \in ActionNames, Run(filters[i], call) \notin Proceeds
  PROVE  Effective(filters, call) \notin Proceeds
<1> DEFINE returned == {Run(filters[j], call) : j \in DOMAIN filters}
           Found(k) == Actions[k] \in returned /\ \A j \in 1..k - 1 : Actions[j] \notin returned
<1>1. Effective(filters, call) = Actions[CHOOSE k \in DOMAIN Actions : Found(k)]
  BY DEF Effective
<1>2. DOMAIN Actions = 1..8
  BY DEF Actions
<1>3. PICK b \in 1..8 : Actions[b] = Run(filters[i], call)
  BY <1>2 DEF ActionNames
<1>4. b <= 6
  <2>1. b # 7 /\ b # 8
    BY <1>3 DEF Actions, Proceeds
  <2> QED
    BY <2>1
<1>5. Actions[b] \in returned
  BY <1>3
<1> HIDE DEF returned
<1>6. \E k \in 1..8 : Found(k)
  <2> DEFINE S == {k \in 1..8 : Actions[k] \in returned}
  <2>1. PICK k \in S : \A j \in S : k <= j
    <3>1. S \in SUBSET Nat /\ b \in S
      BY <1>5
    <3> HIDE DEF S
    <3> QED
      BY <3>1, LeastNumber
  <2>2. \A j \in 1..k - 1 : Actions[j] \notin returned
    <3> SUFFICES ASSUME NEW j \in 1..k - 1, Actions[j] \in returned PROVE FALSE
      OBVIOUS
    <3>1. j \in S /\ j < k
      OBVIOUS
    <3> QED
      BY <2>1, <3>1
  <2> QED
    BY <2>1, <2>2
<1> DEFINE c == CHOOSE k \in DOMAIN Actions : Found(k)
<1>7. c \in 1..8 /\ Found(c)
  BY <1>2, <1>6
<1>8. c <= b
  <2> SUFFICES ASSUME ~ c <= b PROVE FALSE
    OBVIOUS
  <2> HIDE DEF c
  <2>1. b \in 1..c - 1
    BY <1>7
  <2> QED
    BY <1>5, <1>7, <2>1
<1>9. Effective(filters, call) = Actions[c]
  BY <1>1
<1> HIDE DEF c, Found
<1>10. c \in 1..6
  BY <1>4, <1>7, <1>8
<1> QED
  BY <1>9, <1>10 DEF Actions, Proceeds

LEMMA OutcomeReturned ==
  ASSUME NEW prog, NEW i, Ends(prog, i)
  PROVE  Outcome(prog, i) \in Returns(prog)
<1>1. CASE i \in Rets(prog)
  BY <1>1 DEF Outcome, Returns, Rets
<1>2. CASE prog[i].op = "ja" /\ i + 1 + prog[i].k \in Rets(prog)
  BY <1>2 DEF Outcome, Returns
<1> QED
  BY <1>1, <1>2 DEF Ends

LEMMA BlockedAreRefused ==
  ASSUME BPFInv
  PROVE  BlockedHolds
<1> DEFINE prog == stack[fetched]
<1> SUFFICES ASSUME fetched # 0, ~details.argInspection, "LOG" \notin Returns(prog),
                    NEW nr \in Blocked(details.audited), NEW arg \in Args,
                    IF details.audited[nr].evaluated THEN IsOwnRule(prog, nr)
                    ELSE FallsThrough(prog) /\ OneArch(prog, AuditArch[machine])
             PROVE  Effective(stack, Native(nr, arg)) \notin Proceeds
  BY DEF BlockedHolds
<1>1. fetched \in DOMAIN stack /\ machine \in Machines /\ Written(prog, machine)
  BY FetchedIsWritten
<1>2. /\ nr \in NumbersOf(machine)
      /\ details.audited[nr] = CheckSyscallInBPF(prog, nr)
      /\ details.audited[nr].action # "ALLOW"
      /\ \A i \in Loads(prog) : prog[i].word # "arg"
  BY DEF BPFInv, DetailsInv, NumbersOf, Blocked
<1> HIDE DEF prog
<1> DEFINE call == Native(nr, arg)
<1>3. call \in Calls /\ call.nr = nr /\ call.arch = AuditArch[machine] /\ nr \in Nat
  BY <1>1, <1>2, NativeCall DEF Calls
<1> HIDE DEF call
<1>4. WellFormed(prog) /\ ListsRules(prog, machine) /\ ChecksArch(prog, machine)
  BY <1>1 DEF Written
<1>5. Run(prog, call) = details.audited[nr].action /\ Run(prog, call) \in Returns(prog)
  <2>1. CASE Rules(prog, nr) = {}
    <3>1. /\ ~details.audited[nr].evaluated
          /\ details.audited[nr].action = DefaultRet(prog)
      BY <1>2, <2>1 DEF CheckSyscallInBPF
    <3>2. FallsThrough(prog) /\ OneArch(prog, AuditArch[machine])
      BY <3>1 DEF prog
    <3>3. Own(prog, machine) = Tests(prog, "nr") /\ Own(prog, machine) # {}
      BY <1>4, <3>2 DEF Own, OneArch, ListsRules
    <3>4. Run(prog, call) = Default(prog, AuditArch[machine])
      BY <1>1, <1>2, <1>3, <2>1, <3>3, NoRulePasses, Defaults
    <3> QED
      BY <1>1, <3>1, <3>2, <3>4, DefaultReturn
  <2>2. CASE Rules(prog, nr) # {}
    <3> DEFINE q == RuleOf(prog, nr)
    <3>1. details.audited[nr].action = ResolveJumpAction(prog, Yes(prog, q))
      BY <1>2, <2>2 DEF CheckSyscallInBPF, Yes
    <3>2. q \in Rules(prog, nr) /\ \A i \in Rules(prog, nr) : q <= i
      BY <1>4, <2>2, RuleOfIsRule
    <3> HIDE DEF q
    <3>3. q \in Conditions(prog) /\ prog[q].op = "jeq" /\ prog[q].k = nr
      BY <3>2 DEF Rules
    <3>4. details.audited[nr].evaluated
      BY <1>2, <2>2 DEF CheckSyscallInBPF
    <3>5. q \in Own(prog, machine)
      BY <3>4 DEF IsOwnRule, Own, q, prog
    <3>6. \A i \in Own(prog, machine) : i < q => Passes(prog, i, nr)
      BY <1>4, <3>2, <3>5, FirstRule
    <3>7. Ends(prog, Yes(prog, q))
      BY <1>2, <1>4, <3>3, <3>5 DEF ListsRules, Own
    <3>8. Yes(prog, q) \in DOMAIN prog
      BY <1>4, <3>3, Conditional
    <3>9. Run(prog, call) = RunFrom(prog, call)[Yes(prog, q)][nr]
      BY <1>1, <1>2, <1>3, <3>3, <3>5, <3>6, MeetsRule
    <3>10. RunFrom(prog, call)[Yes(prog, q)][nr] = Outcome(prog, Yes(prog, q))
      BY <1>3, <1>4, <3>7, <3>8, EndsRun
    <3> QED
      BY <1>4, <3>1, <3>7, <3>8, <3>9, <3>10, ResolveEnd, OutcomeReturned
  <2> QED
    BY <2>1, <2>2
<1>6. Run(prog, call) \in ActionNames
  <2>1. 1 \in DOMAIN prog /\ 0 \in Nat
    BY <1>4, Places
  <2> HIDE DEF prog, call
  <2> QED
    BY <1>3, <1>4, <2>1, RunSteps DEF Run
<1>7. Run(prog, call) \notin Proceeds
  BY <1>2, <1>5 DEF Proceeds
<1> QED
  BY <1>1, <1>6, <1>7, StrictestRefuses DEF call, prog

(***************************************************************************)
(* The bypass.                                                             *)
(***************************************************************************)
LEMMA RisksAreNamed ==
  ASSUME BPFInv
  PROVE  ArchRiskNamed
<1> DEFINE prog == stack[fetched]
<1> SUFFICES ASSUME fetched # 0, details.archBypassRisk,
                    NEW nr \in AllNumbers, NEW arg \in Args, NEW arch \in Arches
             PROVE  Run(prog, Call(nr, arch, arg)) = Run(prog, Native(nr, arg))
  BY DEF ArchRiskNamed
<1>1. machine \in Machines /\ WellFormed(prog) /\ nr \in NumbersOf(machine)
  BY FetchedIsWritten DEF AllNumbers, Written
<1>2. ~LoadsArch(prog)
  BY DEF BPFInv, DetailsInv
<1> HIDE DEF prog
<1> QED
  BY <1>1, <1>2, CallOf, NativeCall, BlindToArch

(***************************************************************************)
(* Theorems.                                                               *)
(***************************************************************************)

\* However long the programs and however many the filters, the result has the
\* modes, policies and fingerprints of the code and one verdict for each call
\* that is looked for; in strict mode there are no filters, and where a mode of
\* seccomp is reported, so is at least one filter (seccomp.go:206-295, 590-724).
THEOREM BPFTypeCorrect == Spec => []TypeOK
  BY BPFInvariant, InvTypes, PTL

\* For a program whose rules are for the calls of the machine only, and fall
\* through to their default, the last return that no jump leads to is that default,
\* and so the policy reported is what the kernel does with a call that has no rule
\* (seccomp.go:636-683).
THEOREM PolicyIsRight == Spec => []PolicyRight
  BY BPFInvariant, PolicyHolds, PTL

\* Where the first comparison with the number is one for the calls of the machine,
\* and its action was found within ten steps along the branches that match, the
\* call with the argument that the rule asks for gets it: whatever comparisons come
\* before, and whatever architectures the program has rules for beside
\* (seccomp.go:727-761).
THEOREM ReportedActionsOccur == Spec => []ReportedActionOccurs
  BY BPFInvariant, ReportedHolds, PTL

\* A filter installed over the one analyzed, before the analysis or after, never
\* undoes a refusal: the strictest action counts (seccomp.go:685-712).
THEOREM BlockedIsRefused == Spec => []BlockedHolds
  BY BPFInvariant, BlockedAreRefused, PTL

\* In a program of any form that never loads the word of the architecture no branch
\* depends on it, so that the calls of another architecture get what is meant for
\* other calls of this one (seccomp.go:601-634).
THEOREM ArchRiskIsNamed == Spec => []ArchRiskNamed
  BY BPFInvariant, RisksAreNamed, PTL
=============================================================================
