----------------------------- MODULE MCSeccompBPF -----------------------------
(***************************************************************************)
(* Instances of SeccompBPF for TLC: the programs that compilers of rules   *)
(* and authors of macros make of a list of rules.                          *)
(***************************************************************************)
EXTENDS SeccompBPF

X32 == 1073741824

MCMachines  == {"amd64", "arm64"}
MCAuditArch == [amd64 |-> 1001, arm64 |-> 1002]
Foreign     == 1003
MCArches    == {1001, 1002, 1003}

\* The address family that Docker's profile keeps from socket(2).
AfVsock == 40
MCArgs  == {0, AfVsock}

ReadNr   == [amd64 |-> 0, arm64 |-> 63]
SocketNr == [amd64 |-> 41, arm64 |-> 198]
Mount    == [amd64 |-> 165, arm64 |-> 40]
Unshare  == [amd64 |-> 272, arm64 |-> 97]
MCNumbers == {0, 63, 41, 198, 64}

\* The lists of rules: calls, and how many comparisons of an argument the last
\* one makes.
Lists(m) ==
    {[calls |-> <<Unshare[m]>>, checks |-> 0],
     [calls |-> <<ReadNr[m], Mount[m]>>, checks |-> 0],
     [calls |-> <<Mount[m], SocketNr[m]>>, checks |-> 1],
     [calls |-> <<ReadNr[m], SocketNr[m]>>, checks |-> 1],
     [calls |-> <<ReadNr[m], Unshare[m]>>, checks |-> 6]}

\* Instructions at a position, with the positions they branch to.
Ld(word)   == [op |-> "ld", word |-> word]
Ret(act)   == [op |-> "ret", action |-> act]
Ja(at, to) == [op |-> "ja", k |-> to - at - 1]
If(op, value, at, yes, no) ==
    [op |-> op, k |-> value, jt |-> yes - at - 1, jf |-> no - at - 1]

\* The check of the architecture: none; a return of its own; or a jump to the
\* return at position bad, with the check of x32 numbers that libseccomp adds.
Prologue(arch, check, refused, bad) ==
    CASE check = "none" -> <<Ld("nr")>>
      [] check = "inline" ->
           <<Ld("arch"), If("jeq", arch, 2, 4, 3), Ret(refused), Ld("nr")>>
      [] check = "shared" ->
           <<Ld("arch"), If("jeq", arch, 2, 3, bad), Ld("nr"),
             If("jge", X32, 4, bad, 5)>>
PrologueLength(check) == IF check = "none" THEN 1 ELSE 4

\* The last rule, of which every comparison must hold.
LastRule(nr, checks, at, yes, no) ==
    [i \in 1 .. 2 * checks + 1 |->
        IF i = 1 THEN If("jeq", nr, at, IF checks = 0 THEN yes ELSE at + 1, no)
        ELSE IF i % 2 = 0 THEN Ld("arg")
        ELSE If("jeq", AfVsock, at + i - 1, IF i = 2 * checks + 1 THEN yes ELSE at + i, no)]

\* Rules that begin behind position h and all jump to one return.  It is behind
\* that of the default, or before.
BodyLength(list) == Len(list.calls) + 2 * list.checks + 2
Body(list, act, default, actFirst, h) ==
    LET n == Len(list.calls)
        tail == h + n + 2 * list.checks + 1
        yes == IF actFirst THEN tail ELSE tail + 1
        no  == IF actFirst THEN tail + 1 ELSE tail
    IN  [i \in 1 .. n - 1 |-> If("jeq", list.calls[i], h + i, yes, h + i + 1)]
        \o LastRule(list.calls[n], list.checks, h + n, yes, no)
        \o (IF actFirst THEN <<Ret(act), Ret(default)>> ELSE <<Ret(default), Ret(act)>>)

\* A program for the calls of one architecture: others are refused, or are killed by
\* a return of the rules if one does that.
Block(arch, list, check, refused, act, default, actFirst) ==
    LET h == PrologueLength(check)
        tail == h + BodyLength(list) - 1
        bad == IF act = "KILL_PROCESS" THEN (IF actFirst THEN tail ELSE tail + 1)
               ELSE IF default = "KILL_PROCESS" THEN (IF actFirst THEN tail + 1 ELSE tail)
               ELSE tail + 2
    IN  Prologue(arch, check, refused, bad)
        \o Body(list, act, default, actFirst, h)
        \o (IF check = "shared" /\ bad = tail + 2 THEN <<Ret("KILL_PROCESS")>> ELSE <<>>)

\* A program with rules for each of the architectures, as Docker's default is: when
\* the first comparison does not hold, the second follows behind the first rules.
Blocks(archs, lists, act, default, refused) ==
    LET second == 4 + BodyLength(lists[1])
        bad == second + 2 + BodyLength(lists[2])
    IN  <<Ld("arch"), If("jeq", archs[1], 2, 3, second), Ld("nr")>>
        \o Body(lists[1], act, default, FALSE, 3)
        \o <<If("jeq", archs[2], second, second + 1, bad), Ld("nr")>>
        \o Body(lists[2], act, default, FALSE, second + 1)
        \o <<Ret(refused)>>

\* Each rule is followed by its return, or by a jump to the one they share, which
\* is too far for a condition.
Macros(arch, list, check, act, default, far) ==
    LET n == Len(list.calls)
        h == PrologueLength(check)
        at == h + 2 * n - 1
        yes == at + 2 * list.checks + 1
    IN  Prologue(arch, check, "ALLOW", yes + 1)
        \o [i \in 1 .. 2 * n - 2 |->
              IF i % 2 = 1 THEN If("jeq", list.calls[(i + 1) \div 2], h + i, h + i + 1, h + i + 2)
              ELSE IF far THEN Ja(h + i, yes) ELSE Ret(act)]
        \o LastRule(list.calls[n], list.checks, at, yes, yes + 1)
        \o <<Ret(act), Ret(default)>>

\* The action of the rules and that of all other calls.
Policies == {<<"ERRNO", "ALLOW">>, <<"ALLOW", "KILL_PROCESS">>, <<"ALLOW", "ERRNO">>,
             <<"KILL_PROCESS", "ALLOW">>, <<"ERRNO", "LOG">>}

\* Programs of one architecture, which is another for some, as of those that
\* systemd installs, one for each that there is; and of two.
Programs(m) ==
    UNION {
      {Block(MCAuditArch[m], list, check, "KILL_PROCESS", p[1], p[2], first) :
          list \in Lists(m), check \in {"none", "inline", "shared"}, p \in Policies,
          first \in BOOLEAN},
      {Block(Foreign, list, "inline", "ALLOW", p[1], p[2], FALSE) :
          list \in Lists(m), p \in Policies},
      {Macros(arch, list, check, p[1], p[2], far) :
          arch \in {MCAuditArch[m], Foreign}, list \in Lists(m), check \in {"none", "inline"},
          p \in Policies, far \in BOOLEAN},
      {Blocks(archs, <<first, second>>, p[1], p[2], refused) :
          archs \in {<<MCAuditArch[m], Foreign>>, <<Foreign, MCAuditArch[m]>>},
          first \in Lists(m), second \in Lists(m),
          p \in {<<"ERRNO", "ALLOW">>, <<"ALLOW", "ERRNO">>}, refused \in {"KILL_PROCESS", "ALLOW"}}}

\* What is installed over it: a filter of one rule, that refuses or that allows.
LaterPrograms(m) ==
    {Block(MCAuditArch[m], [calls |-> <<ReadNr[m]>>, checks |-> 0], "shared", "KILL_PROCESS",
           p[1], p[2], FALSE) :
        p \in {<<"KILL_PROCESS", "ALLOW">>, <<"ALLOW", "ERRNO">>}}

MCFilters == [m \in MCMachines |-> <<Programs(m), LaterPrograms(m)>>]
=============================================================================
