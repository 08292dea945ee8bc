----------------------------- MODULE FollowUp ---------------------------------
(***************************************************************************)
(* What is computed from other files, and what every program that writes   *)
(* such a file, or one it is computed from, is like: it goes on to compute *)
(* the file again, whatever happens on the way, unless Leaves says that it *)
(* does not.  Provisioning assumes so of the programs of an instance.      *)
(***************************************************************************)
EXTENDS StepRun

Pools == {Pool(d) : d \in Domains}
Confs == {Conf(d) : d \in Domains}
Followers == {Served, BackupCron, DomainMap} \cup Confs \cup Pools

\* What a follower is computed from; a pool, from the PHP settings of one of
\* the domains that share it.
Origins(F) ==
  IF F \in Pools THEN {{Php(e)} : e \in {d \in Domains : Pool(d) = F}} ELSE {ComputedFrom(F)}
Sources(F) == UNION Origins(F)

\* The entries of its sources some followers show; the others show them all.
Picking == {BackupCron, DomainMap} \cup Pools
Shown(F) ==
  CASE F = BackupCron -> {Paused} \cup {Row(d) : d \in Domains}
    [] F = DomainMap -> UNION {{Row(d), Off(d)} : d \in Domains \ AliasDomains}
    [] OTHER -> {Default(v) : v \in Items}

Makes(s, F) ==
  /\ s.f = F /\ s.src \in Origins(F) /\ s.add = {} /\ s.del = {}
  /\ s.op \in {"save", "swap"} \/ (s.op = "reload" /\ F = Served)

\* The step before one that makes F computes it, and no other leads here.
Prepared(prog, j) ==
  /\ j > 1 /\ prog[j - 1].op = "render" /\ prog[j - 1].next = 1 /\ prog[j - 1].catch # 1
  /\ prog[j - 1].f = prog[j].f /\ prog[j - 1].src = prog[j].src
  /\ prog[j - 1].has = prog[j].has /\ prog[j - 1].lacks = prog[j].lacks
  /\ \A k \in 1..j - 2 : j \notin Jumps(prog, k)

\* A step that writes a source of F back with the entries F shows as they were.
Spares(s, F) ==
  /\ s.op = "save" /\ WritesBack(s) /\ s.catch = 0
  /\ F \in Picking /\ s.f # F /\ (s.add \cup s.del) \cap Shown(F) = {}

Affects(s, F) == s.op \in WriteOps /\ FilesOf(s) \cap ({F} \cup Sources(F)) # {}

-----------------------------------------------------------------------------
\* From a step of cover on, F is made or excused: it is written by a step ahead;
\* wherever the step goes on is in cover, or makes F; where it is skipped, cover
\* goes on to a step that is not; a failure leads into cover or skips F.
WrittenFrom(prog, i) ==
  UNION {FilesOf(prog[j]) : j \in {k \in i..Len(prog) : prog[k].op \in WriteOps}}
Always(s) == s.has = {} /\ s.lacks = {}

Covers(prog, F, i, cover) ==
  /\ F \in WrittenFrom(prog, i)
  /\ Makes(prog[i], F) \/ (i + prog[i].next \in cover /\ (prog[i].op = "strip" => {i + 1, i + 2} \subseteq cover))
  /\ Always(prog[i]) \/ \E m \in i + 1..Len(prog) : Always(prog[m]) /\ i + 1..m \subseteq cover
  /\ prog[i].catch = 0 \/ i + prog[i].catch \in cover
       \/ (i + prog[i].catch <= Len(prog) + 1 /\ F \notin Surely(prog, i + prog[i].catch))

Cover(prog, F) ==
  LET from[i \in 1..Len(prog) + 1] ==
        IF i > Len(prog) THEN {}
        ELSE LET later == from[i + 1] IN later \cup (IF Covers(prog, F, i, later) THEN {i} ELSE {})
  IN  {i \in DOMAIN prog : i \in from[1]}

CoverOf == [c \in Command |-> [F \in Followers |-> Cover(Program[c], F)]]

FollowedUp(prog, leaves, cover, F) ==
  \A i \in DOMAIN prog :
    /\ i \in cover => Covers(prog, F, i, cover)
    /\ Affects(prog[i], F) =>
         \/ Makes(prog[i], F) /\ (prog[i].op # "reload" => Prepared(prog, i))
         \/ ~Makes(prog[i], F) /\ (Spares(prog[i], F) \/ F \in leaves \/ i \in cover)

Follows(c, F) == FollowedUp(Program[c], Leaves(c), CoverOf[c][F], F)

ASSUME FollowAssumption == \A c \in Command : \A F \in Followers \cap Files : Follows(c, F)
===============================================================================
