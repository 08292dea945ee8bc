--------------------------- MODULE ProvisioningProofs ---------------------------
(***************************************************************************)
(* What is computed from the JSON files follows them, whatever the         *)
(* commands: theorems about any table of programs of which FollowUp's      *)
(* assumption holds, any number of processes, domains, items, commands and *)
(* failures.                                                               *)
(***************************************************************************)
EXTENDS ProvisioningInv, StepRunProofs

-----------------------------------------------------------------------------
(* What is computed from what.                                             *)

\* The names of the files; files of different names differ.
LEMMA Names ==
  /\ Served[1] = "nginx" /\ BackupCron[1] = "crontab" /\ DomainMap[1] = "qadbak-domains"
  /\ AliasMap[1] = "qadbak-virtual" /\ Vmailbox[1] = "qadbak-vmailbox" /\ Linked[1] = "sites-enabled"
  /\ Registry[1] = "native-domains.json" /\ Postfix[1] = "postfix"
  /\ \A d \in Domains :
       /\ Conf(d)[1] = "vhost" /\ Conf(d)[2] = d /\ Pool(d)[1] = "php-fpm pool" /\ Pool(d)[2] = Owner[d]
       /\ Php(d)[1] = "php.json" /\ Php(d)[2] = d /\ Schedule(d)[1] = "backup-schedule.json"
       /\ Redirects(d)[1] = "redirects.json" /\ Proxies(d)[1] = "proxies.json" /\ Website(d)[1] = "website.json"
       /\ Modsecurity(d)[1] = "modsecurity.json" /\ Cert(d)[1] = "letsencrypt"
BY DEF Served, BackupCron, DomainMap, AliasMap, Vmailbox, Linked, Registry, Postfix, Conf, Pool, Php, Schedule,
       Redirects, Proxies, Website, Modsecurity, Cert, Cfg, Sys

\* nginx loads everything there is to load.
LEMMA ServedShowsAll == Served \notin Picking
BY Names DEF Picking, Pools

\* What one and the other kind of follower is computed from.
LEMMA Kinds ==
  ASSUME NEW F \in Followers, NEW src \in Origins(F)
  PROVE  \/ F = Served /\ src = {Linked} \cup {Conf(d) : d \in Domains}
         \/ F = BackupCron /\ src = CronSources
         \/ F = DomainMap /\ src = {Registry}
         \/ \E d \in Domains : F = Conf(d) /\ src = VhostSources(d)
         \/ \E d, e \in Domains : F = Pool(d) /\ Pool(e) = Pool(d) /\ src = {Php(e)}
<1>1. CASE F \in Pools
  <2>1. PICK e \in {d \in Domains : Pool(d) = F} : src = {Php(e)}
    BY <1>1 DEF Origins
  <2> QED
    BY <2>1
<1>2. CASE F \notin Pools
  <2>1. src = ComputedFrom(F)
    BY <1>2 DEF Origins
  <2>2. CASE F = Served
    <3>1. F # Vmailbox
      BY <2>2, Names
    <3>2. ComputedFrom(F) = {Linked} \cup {Conf(d) : d \in Domains}
      BY <2>2, <3>1 DEF ComputedFrom
    <3> QED
      BY <2>1, <2>2, <3>2
  <2>3. ASSUME NEW d \in Domains, F = Conf(d) PROVE src = VhostSources(d)
    <3>1. /\ F[1] = "vhost" /\ F[2] = d /\ F # Served /\ F # Vmailbox
          /\ F \notin {AliasMap, DomainMap, BackupCron}
      BY <2>3, Names
    <3> DEFINE v == VhostSources(F[2])
    <3>2. v = VhostSources(d)
      BY <3>1
    <3> HIDE DEF v
    <3>3. Basis(F) = v
      BY <3>1 DEF Basis, v
    <3>4. ComputedFrom(F) = Basis(F)
      BY <3>1 DEF ComputedFrom
    <3> QED
      BY <2>1, <3>2, <3>3, <3>4
  <2>4. CASE F = BackupCron \/ F = DomainMap
    <3>1. /\ F[1] \notin {"vhost", "php-fpm pool"} /\ F # Served /\ F # Vmailbox /\ F # AliasMap
          /\ BackupCron # DomainMap
      <4>1. F[1] = "crontab" \/ F[1] = "qadbak-domains"
        BY <2>4, Names
      <4> QED
        BY <4>1, Names
    <3>2. ComputedFrom(F) = Basis(F)
      BY <3>1 DEF ComputedFrom
    <3>3. F = DomainMap => Basis(F) = {Registry}
      <4> HIDE DEF DomainMap
      <4> QED
        BY <3>1 DEF Basis
    <3>4. F = BackupCron => Basis(F) = CronSources
      BY <3>1 DEF Basis
    <3> QED
      BY <2>1, <2>4, <3>2, <3>3, <3>4
  <2> QED
    BY <1>2, <2>2, <2>3, <2>4 DEF Followers, Confs
<1> QED
  BY <1>1, <1>2

\* How each kind is computed.
LEMMA Derivations ==
  ASSUME NEW from, NEW seen
  PROVE  /\ Derived(Served, from, seen) = Loaded(seen)
         /\ Derived(BackupCron, from, seen) = CronLines(seen)
         /\ Derived(DomainMap, from, seen) = {Row(d) : d \in MailDomains(seen)}
         /\ \A d \in Domains : Derived(Conf(d), from, seen) = Tagged(seen, from)
         /\ \A d \in Domains : Derived(Pool(d), from, seen) =
              {x \in UNION {seen[g] : g \in from} : x \in {Default(v) : v \in Items}}
<1> DEFINE a1 == {x \in UNION {seen[g] : g \in from} : x \in {Default(v) : v \in Items}}
           a2 == {Row(d) : d \in MailDomains(seen)}
           a3 == AliasEntries(seen)
           a4 == VmailboxEntries(seen)
           a5 == CronLines(seen)
           a6 == Loaded(seen)
           a7 == Tagged(seen, from)
<1>1. \A f : Derived(f, from, seen) =
        CASE f[1] = "php-fpm pool" -> a1
          [] f = DomainMap -> a2
          [] f = AliasMap -> a3
          [] f = Vmailbox -> a4
          [] f = BackupCron -> a5
          [] f = Served -> a6
          [] OTHER -> a7
  BY DEF Derived
<1> HIDE DEF a1, a2, a3, a4, a5, a6, a7
<1>2. /\ Served[1] # "php-fpm pool" /\ BackupCron[1] # "php-fpm pool" /\ DomainMap[1] # "php-fpm pool"
      /\ Served \notin {DomainMap, AliasMap, Vmailbox, BackupCron}
      /\ BackupCron \notin {DomainMap, AliasMap, Vmailbox}
      /\ DomainMap \notin {AliasMap, Vmailbox}
  BY Names
<1>3. ASSUME NEW d \in Domains
      PROVE  /\ Conf(d)[1] # "php-fpm pool" /\ Pool(d)[1] = "php-fpm pool"
             /\ Conf(d) \notin {DomainMap, AliasMap, Vmailbox, BackupCron, Served}
  BY Names
<1>4. Derived(Served, from, seen) = a6
  BY <1>1, <1>2
<1>5. Derived(BackupCron, from, seen) = a5
  BY <1>1, <1>2
<1>6. Derived(DomainMap, from, seen) = a2
  BY <1>1, <1>2
<1>7. ASSUME NEW d \in Domains PROVE Derived(Conf(d), from, seen) = a7 /\ Derived(Pool(d), from, seen) = a1
  <2>1. Pool(d) \notin {DomainMap, AliasMap, Vmailbox, BackupCron, Served}
    BY Names
  <2> QED
    BY <1>1, <1>3, <2>1
<1> QED
  BY <1>4, <1>5, <1>6, <1>7 DEF a1, a2, a5, a6, a7

\* A computed file depends on what it is computed from and on nothing else.
LEMMA SameSources ==
  ASSUME NEW F \in Followers, NEW src \in Origins(F), NEW a, NEW b, \A S \in src : a[S] = b[S]
  PROVE  Derived(F, src, a) = Derived(F, src, b)
<1>1. CASE F = Served /\ src = {Linked} \cup {Conf(d) : d \in Domains}
  <2>1. a[Linked] = b[Linked] /\ \A d \in Domains : a[Conf(d)] = b[Conf(d)]
    BY <1>1
  <2>2. Loaded(a) = Loaded(b)
    BY <2>1 DEF Loaded
  <2> QED
    BY <1>1, <2>2, Derivations
<1>2. CASE F = BackupCron /\ src = CronSources
  <2>1. a[Registry] = b[Registry] /\ \A d \in Domains : a[Schedule(d)] = b[Schedule(d)]
    BY <1>2 DEF CronSources
  <2>2. CronLines(a) = CronLines(b)
    BY <2>1 DEF CronLines
  <2> QED
    BY <1>2, <2>2, Derivations
<1>3. CASE F = DomainMap /\ src = {Registry}
  <2>1. MailDomains(a) = MailDomains(b)
    BY <1>3 DEF MailDomains
  <2> QED
    BY <1>3, <2>1, Derivations
<1>4. ASSUME NEW d \in Domains, F = Conf(d) PROVE Derived(F, src, a) = Derived(F, src, b)
  <2>1. Tagged(a, src) = Tagged(b, src)
    BY DEF Tagged
  <2> QED
    BY <1>4, <2>1, Derivations
<1>5. ASSUME NEW d \in Domains, F = Pool(d) PROVE Derived(F, src, a) = Derived(F, src, b)
  <2> DEFINE show(seen) == {x \in UNION {seen[g] : g \in src} : x \in {Default(v) : v \in Items}}
  <2>1. show(a) = show(b)
    OBVIOUS
  <2>2. Derived(F, src, a) = show(a) /\ Derived(F, src, b) = show(b)
    BY <1>5, Derivations
  <2> QED
    BY <2>1, <2>2
<1>6. \/ F = Served /\ src = {Linked} \cup {Conf(d) : d \in Domains}
      \/ F = BackupCron /\ src = CronSources
      \/ F = DomainMap /\ src = {Registry}
      \/ \E d \in Domains : F = Conf(d)
      \/ \E d \in Domains : F = Pool(d)
  BY Kinds
<1> QED
  BY <1>1, <1>2, <1>3, <1>4, <1>5, <1>6

\* Some show only certain entries of their sources.
LEMMA SameEntries ==
  ASSUME NEW F \in Followers \cap Picking, NEW src \in Origins(F), NEW a, NEW b,
         \A S \in src : \A x \in Shown(F) : x \in a[S] <=> x \in b[S]
  PROVE  Derived(F, src, a) = Derived(F, src, b)
<1>0. /\ BackupCron \notin Pools /\ DomainMap \notin Pools /\ BackupCron # DomainMap /\ Served \notin Picking
      /\ \A d \in Domains : Conf(d) \notin Picking
  BY Names DEF Picking, Pools
<1>2. CASE F = BackupCron /\ src = CronSources
  <2>1. Shown(F) = {Paused} \cup {Row(d) : d \in Domains}
    BY <1>0, <1>2 DEF Shown
  <2>2. \A d \in Domains : /\ Row(d) \in a[Registry] <=> Row(d) \in b[Registry]
                           /\ Paused \in a[Schedule(d)] <=> Paused \in b[Schedule(d)]
    BY <1>2, <2>1 DEF CronSources
  <2>3. CronLines(a) = CronLines(b)
    BY <2>2 DEF CronLines
  <2> QED
    BY <1>2, <2>3, Derivations
<1>3. CASE F = DomainMap /\ src = {Registry}
  <2>1. Shown(F) = UNION {{Row(d), Off(d)} : d \in Domains \ AliasDomains}
    BY <1>0, <1>3 DEF Shown
  <2>2. \A d \in Domains \ AliasDomains : /\ Row(d) \in a[Registry] <=> Row(d) \in b[Registry]
                                          /\ Off(d) \in a[Registry] <=> Off(d) \in b[Registry]
    BY <1>3, <2>1
  <2>3. MailDomains(a) = MailDomains(b)
    BY <2>2 DEF MailDomains
  <2> QED
    BY <1>3, <2>3, Derivations
<1>5. ASSUME NEW d \in Domains, F = Pool(d) PROVE Derived(F, src, a) = Derived(F, src, b)
  <2>1. Shown(F) = {Default(v) : v \in Items}
    <3>1. F # BackupCron /\ F # DomainMap
      BY <1>0, <1>5 DEF Pools
    <3> QED
      BY <3>1 DEF Shown
  <2> DEFINE show(seen) == {x \in UNION {seen[g] : g \in src} : x \in {Default(v) : v \in Items}}
  <2>2. show(a) = show(b)
    BY <2>1
  <2>3. Derived(F, src, a) = show(a) /\ Derived(F, src, b) = show(b)
    BY <1>5, Derivations
  <2> QED
    BY <2>2, <2>3
<1> QED
  BY <1>0, <1>2, <1>3, <1>5, Kinds

\* Nothing is computed from itself or from nothing.
LEMMA SourcesApart ==
  ASSUME NEW F \in Followers, NEW src \in Origins(F)
  PROVE  src # {} /\ F \notin src /\ src \subseteq Sources(F) /\ F \notin Sources(F)
<1>1. ASSUME NEW from \in Origins(F) PROVE from # {} /\ F \notin from
  <2>1. CASE F = Served /\ from = {Linked} \cup {Conf(d) : d \in Domains}
    BY <2>1, Names
  <2>2. CASE F = BackupCron /\ from = CronSources
    BY <2>2, Names DEF CronSources
  <2>3. CASE F = DomainMap /\ from = {Registry}
    BY <2>3, Names
  <2>4. ASSUME NEW d \in Domains, F = Conf(d), from = VhostSources(d) PROVE from # {} /\ F \notin from
    BY <2>4, Names DEF VhostSources
  <2>5. ASSUME NEW d \in Domains, NEW e \in Domains, F = Pool(d), from = {Php(e)} PROVE from # {} /\ F \notin from
    BY <2>5, Names
  <2> QED
    BY <2>1, <2>2, <2>3, <2>4, <2>5, Kinds
<1> QED
  BY <1>1 DEF Sources

-----------------------------------------------------------------------------
(* A process that is bound to compute a file again.                        *)

\* A step of the cover is a step of the program, and has what Covers asks.
LEMMA Covered ==
  ASSUME NEW c \in Command, NEW F \in Followers \cap Files
  PROVE  \A i \in CoverOf[c][F] : i \in 1..Len(Program[c]) /\ Covers(Program[c], F, i, CoverOf[c][F])
<1>1. CoverOf[c][F] = Cover(Program[c], F)
  BY DEF CoverOf
<1>2. Cover(Program[c], F) \subseteq DOMAIN Program[c]
  BY DEF Cover
<1>3. DOMAIN Program[c] = 1..Len(Program[c])
  BY ProgramFacts
<1>4. Follows(c, F)
  BY FollowAssumption
<1> QED
  BY <1>1, <1>2, <1>3, <1>4 DEF Follows, FollowedUp

\* A step that touches F or a source of it makes F, or spares it, or F is left
\* behind, or the step is in the cover.
LEMMA Touching ==
  ASSUME NEW c \in Command, NEW F \in Followers \cap Files, NEW i \in 1..Len(Program[c]), Affects(Program[c][i], F)
  PROVE  \/ Makes(Program[c][i], F) /\ (Program[c][i].op # "reload" => Prepared(Program[c], i))
         \/ /\ ~Makes(Program[c][i], F)
            /\ Spares(Program[c][i], F) \/ F \in Leaves(c) \/ i \in CoverOf[c][F]
<1>1. DOMAIN Program[c] = 1..Len(Program[c])
  BY ProgramFacts
<1>2. Follows(c, F)
  BY FollowAssumption
<1> QED
  BY <1>1, <1>2 DEF Follows, FollowedUp

\* Whatever is skipped, the next step is in the cover, too.
LEMMA StaysCovered ==
  ASSUME NEW c \in Command, NEW F \in Followers \cap Files, NEW i \in CoverOf[c][F], NEW mem
  PROVE  Landing(Program[c], i, mem) \in CoverOf[c][F]
<1> DEFINE p == Program[c]
           cov == CoverOf[c][F]
           later == {k \in i..Len(p) : Performed(p[k], mem)}
<1>1. i \in 1..Len(p) /\ Covers(p, F, i, cov) /\ Len(p) \in Nat
  BY Covered, ProgramFacts
<1>2. PICK m \in i..Len(p) : Always(p[m]) /\ i..m \subseteq cov
  <2>1. CASE Always(p[i])
    BY <1>1, <2>1
  <2>2. CASE \E m \in i + 1..Len(p) : Always(p[m]) /\ i + 1..m \subseteq cov
    <3>1. PICK m \in i + 1..Len(p) : Always(p[m]) /\ i + 1..m \subseteq cov
      BY <2>2
    <3>2. i..m \subseteq cov /\ m \in i..Len(p)
      BY <1>1, <3>1
    <3> QED
      BY <3>1, <3>2
  <2> QED
    BY <1>1, <2>1, <2>2 DEF Covers
<1>3. Performed(p[m], mem)
  BY <1>2 DEF Always, Performed
<1>4. m \in later /\ later \in SUBSET Nat
  BY <1>1, <1>2, <1>3
<1> HIDE DEF later
<1>5. PICK j \in later : \A k \in later : j <= k
  BY <1>4, Least
<1>6. Landing(p, i, mem) \in later /\ \A k \in later : Landing(p, i, mem) <= k
  BY <1>4, <1>5 DEF Landing, later
<1>7. Landing(p, i, mem) \in i..m
  BY <1>1, <1>2, <1>4, <1>6 DEF later
<1> QED
  BY <1>2, <1>7

\* A process that is bound to make F, or leaves it behind at the end.
Bound(h, F, i) == F \in Leaves(run[h].cmd) \/ i \in CoverOf[run[h].cmd][F]

\* It goes on at t: it is bound still, or F is excused.
LEMMA Pursues ==
  ASSUME SInv, NEW h \in Helpers, Running(h), NEW F \in Followers \cap Files,
         NEW t \in Jumps(Prog(h), run[h].pc), NEW mem, NEW w, NEW x,
         Continue(h, t, mem, w, x), Bound(h, F, t), run[h].wrote \/ w # {}
  PROVE  Due(h, F)' \/ F \in excused'
<1> DEFINE p == Prog(h)
           j == Landing(p, t, mem)
           ends == j > Len(p)
           next == [run[h] EXCEPT !.pc = j, !.mem = Remembered(h, j, mem), !.open = "no",
                                  !.wrote = @ \/ w # {}]
<1>1. /\ run'[h] = IF ends THEN Idle ELSE next
      /\ excused' = x \cup (IF ends THEN Leaves(run[h].cmd) \cap Files ELSE {})
  BY DEF Continue
<1>2. DOMAIN run[h] = DOMAIN Idle /\ run[h].cmd \in Command /\ Len(p) \in Nat
  <2>1. DOMAIN run[h] = DOMAIN Idle /\ run[h].cmd \in Command
    BY DEF SInv, RunInv, RunOK
  <2> QED
    BY <2>1, ProgramFacts DEF Prog
<1>3. t \in CoverOf[run[h].cmd][F] => j \in CoverOf[run[h].cmd][F] /\ ~ends
  <2> SUFFICES ASSUME t \in CoverOf[run[h].cmd][F] PROVE j \in CoverOf[run[h].cmd][F] /\ ~ends
    OBVIOUS
  <2>1. j \in CoverOf[run[h].cmd][F]
    BY <1>2, StaysCovered DEF Prog
  <2>2. j \in 1..Len(p)
    BY <1>2, <2>1, Covered DEF Prog
  <2> QED
    BY <1>2, <2>1, <2>2
<1>4. CASE ends
  BY <1>1, <1>3, <1>4 DEF Bound
<1>5. CASE ~ends
  <2>1. run'[h] = next
    BY <1>1, <1>5
  <2>2. next.cmd = run[h].cmd /\ next.pc = j /\ next.wrote
    <3> HIDE DEF j
    <3> QED
      BY <1>2 DEF Idle
  <2> HIDE DEF next
  <2>3. next # Idle
    <3>1. ~Idle.wrote
      BY DEF Idle
    <3> QED
      BY <2>2, <3>1
  <2> QED
    BY <1>3, <2>1, <2>2, <2>3 DEF Due, Running, Bound
<1> QED
  BY <1>4, <1>5

\* So does one at a step that does not make F, once the step is done.
LEMMA GoesOnBound ==
  ASSUME SInv, NEW h \in Helpers, Running(h), NEW F \in Followers \cap Files, ~Makes(Step(h), F),
         Bound(h, F, run[h].pc)
  PROVE  /\ Bound(h, F, run[h].pc + Step(h).next)
         /\ Step(h).op = "strip" => Bound(h, F, run[h].pc + 1) /\ Bound(h, F, run[h].pc + 2)
<1>1. run[h].cmd \in Command
  BY AtStep
<1> QED
  BY <1>1, Covered DEF Bound, Covers, Step, Prog

\* A process stopped after it has written has what it was still to write excused.
LEMMA Stopped ==
  ASSUME SInv, NEW h \in Helpers, Running(h), NEW F \in Followers \cap Files, Stop(h),
         Bound(h, F, run[h].pc), run[h].wrote
  PROVE  F \in excused'
<1>1. run[h].cmd \in Command
  BY AtStep
<1>2. run[h].pc \in CoverOf[run[h].cmd][F] => F \in Ahead(h, run[h].pc)
  BY <1>1, Covered DEF Covers, WrittenFrom, Ahead, Prog
<1> QED
  BY <1>2 DEF Stop, Bound

\* One that skips what it was to write has it excused.
LEMMA Skipped ==
  ASSUME SInv, NEW h \in Helpers, Running(h), NEW F \in Followers \cap Files, GiveUp(h), Due(h, F)
  PROVE  Due(h, F)' \/ F \in excused'
<1> DEFINE c == run[h].cmd
           i == run[h].pc
           t == i + Step(h).catch
           x == excused \cup (Ahead(h, i) \ Certain[c][t])
           w == {}
<1>1. c \in Command /\ i \in 1..Len(Prog(h)) /\ Step(h).catch \in Nat /\ Len(Prog(h)) \in Nat
  BY AtStep, ProgramFacts DEF Prog
<1>2. CASE Step(h).catch = 0
  <2>1. Stop(h)
    BY <1>2 DEF GiveUp
  <2> QED
    BY <2>1, Stopped DEF Due, Bound
<1>3. CASE Step(h).catch # 0
  <2>1. Continue(h, t, run[h].mem, w, x) /\ t \in Jumps(Prog(h), i)
    BY <1>1, <1>3, AtStep DEF GiveUp
  <2>2. CASE Bound(h, F, t)
    <3> HIDE DEF t, x, w
    <3> QED
      BY <2>1, <2>2, Pursues DEF Due
  <2>3. CASE ~Bound(h, F, t)
    <3>1. i \in CoverOf[c][F]
      BY <2>3 DEF Due, Bound
    <3>2. Covers(Prog(h), F, i, CoverOf[c][F]) /\ t \notin CoverOf[c][F]
      BY <1>1, <2>3, <3>1, Covered DEF Bound, Prog
    <3>3. F \in Ahead(h, i)
      BY <3>2 DEF Covers, WrittenFrom, Ahead
    <3>4. t <= Len(Prog(h)) + 1 /\ F \notin Surely(Prog(h), t)
      BY <1>3, <3>2 DEF Covers, Step
    <3>5. Certain[c][t] = Surely(Prog(h), t)
      <4>1. t \in 1..Len(Program[c]) + 1
        BY <1>1, <3>4 DEF Prog
      <4> QED
        BY <1>1, <4>1 DEF Certain, Prog
    <3>6. F \in x
      BY <3>3, <3>4, <3>5
    <3>7. x \subseteq excused'
      <4> HIDE DEF x
      <4> QED
        BY <2>1 DEF Continue
    <3> QED
      BY <3>6, <3>7
  <2> QED
    BY <2>2, <2>3
<1> QED
  BY <1>2, <1>3

-----------------------------------------------------------------------------
(* The other processes at a step of h.                                     *)

\* A process is where it was, with its file open if it was.
LEMMA Remains ==
  ASSUME SInv, NEW g \in Helpers, NEW w, Told(g, w), Running(g)
  PROVE  /\ Running(g)' /\ run'[g].cmd = run[g].cmd /\ run'[g].pc = run[g].pc /\ Prog(g)' = Prog(g)
         /\ Step(g)' = Step(g) /\ run'[g].wrote = run[g].wrote /\ (run[g].open # "no" => run'[g].open # "no")
<1>1. DOMAIN run[g] = DOMAIN Idle /\ CopiesOfFiles(run[g].mem) /\ run[g].pc \in Nat \ {0}
  BY AtStep DEF SInv, RunInv, RunOK
<1>2. /\ SameRun(run[g], run'[g])
      /\ run'[g].open # run[g].open => (run'[g].open = "crossed" /\ run[g].open # "no" /\ Step(g).f \in w)
  BY <1>1, Hears DEF CopiesOfFiles
<1>3. run'[g] # Idle
  BY <1>1, <1>2 DEF SameRun, Idle
<1> QED
  BY <1>2, <1>3 DEF SameRun, Running, Prog, Step

\* It is due, if it was.
LEMMA OthersDue ==
  ASSUME SInv, NEW g \in Helpers, NEW w, Told(g, w), NEW F, Due(g, F)
  PROVE  Due(g, F)'
BY Remains DEF Due

\* What it has open is open.
LEMMA OthersOpened ==
  ASSUME SInv, NEW h \in Helpers, NEW w, \A g \in Helpers \ {h} : Told(g, w), NEW S, NEW F, Opened(S, F),
         ~(Running(h) /\ run[h].open # "no" /\ Step(h).f = S /\ Spares(Step(h), F))
  PROVE  Opened(S, F)'
<1>1. PICK g \in Helpers : Running(g) /\ run[g].open # "no" /\ Step(g).f = S /\ Spares(Step(g), F)
  BY DEF Opened
<1>2. g # h
  BY <1>1
<1>3. Running(g)' /\ run'[g].open # "no" /\ Step(g)' = Step(g)
  BY <1>1, <1>2, Remains
<1> QED
  BY <1>1, <1>3 DEF Opened

-----------------------------------------------------------------------------
(* A follower at a step of h.                                              *)

\* What is due is due, or excused, or h was to see to it.
LEMMA DueStays ==
  ASSUME SInv, NEW h \in Helpers, NEW w, \A g \in Helpers \ {h} : Told(g, w), NEW F,
         Due(h, F) => Due(h, F)' \/ F \in excused', \E g \in Helpers : Due(g, F)
  PROVE  F \in excused' \/ \E g \in Helpers : Due(g, F)'
BY OthersDue

\* h looks at files, or stops.
LEMMA LookFollows ==
  ASSUME SInv, NEW h \in Helpers, UNCHANGED <<disk, torn>>, excused \subseteq excused',
         \A g \in Helpers \ {h} : run'[g] = run[g], NEW F, CurrentOrDue(F),
         Due(h, F) => Due(h, F)' \/ F \in excused',
         Running(h) /\ run[h].open # "no" /\ Spares(Step(h), F) => Step(h).f \in excused'
  PROVE  CurrentOrDue(F)'
<1> DEFINE w == {}
<1>1. \A g \in Helpers \ {h} : Told(g, w)
  BY DEF Told
<1> HIDE DEF w
<1>2. CASE F \in torn \cup excused
  BY <1>2 DEF CurrentOrDue
<1>3. ASSUME NEW src \in Origins(F), src \subseteq Files, Current(F, src)
      PROVE  Current(F, src)'
  <2>1. Seen' = Seen
    BY DEF Seen
  <2>2. CASE F = Served
    BY <1>3, <2>1, <2>2 DEF Current
  <2>3. CASE F # Served /\ src \cap excused # {}
    BY <2>3 DEF Current
  <2>4. CASE F # Served /\ \E S \in src : S \in excused'
    BY <2>4 DEF Current
  <2>5. CASE F # Served /\ src \cap excused = {} /\ ~\E S \in src : S \in excused'
    <3>1. disk[F] = Derived(F, src, disk) /\ \A S \in src \cap torn : Opened(S, F)
      BY <1>3, <2>5 DEF Current
    <3>2. ASSUME NEW S \in src \cap torn PROVE Opened(S, F)'
      <4>1. ~(Running(h) /\ run[h].open # "no" /\ Step(h).f = S /\ Spares(Step(h), F))
        BY <2>5
      <4> QED
        BY <1>1, <3>1, <4>1, OthersOpened
    <3> QED
      BY <2>5, <3>1, <3>2 DEF Current
  <2> QED
    BY <2>2, <2>3, <2>4, <2>5
<1>4. CASE \E g \in Helpers : Due(g, F)
  BY <1>1, <1>4, DueStays DEF CurrentOrDue
<1> QED
  BY <1>2, <1>3, <1>4 DEF CurrentOrDue

\* h truncates a file.
LEMMA OpenFollows ==
  ASSUME SInv, NEW h \in Helpers, OpenFile(h), NEW F \in Followers \cap Files, CurrentOrDue(F)
  PROVE  CurrentOrDue(F)'
<1>0. PICK f : f = Step(h).f
  OBVIOUS
<1> DEFINE w == {f}
           r == [run[h] EXCEPT !.open = "mine", !.wrote = TRUE]
<1>1. /\ Running(h) /\ Step(h).op = "save" /\ run[h].open = "no" /\ torn' = torn \cup {f} /\ disk' = disk
      /\ excused' = excused /\ run'[h] = r /\ \A g \in Helpers \ {h} : Told(g, w)
  BY <1>0 DEF OpenFile, At, history, Told
<1>2. DOMAIN run[h] = DOMAIN Idle /\ run[h].cmd \in Command /\ run[h].pc \in 1..Len(Prog(h)) /\ FilesOf(Step(h)) = {f}
  BY <1>0, <1>1, AtStep DEF SInv, RunInv, RunOK
<1>3. r.cmd = run[h].cmd /\ r.pc = run[h].pc /\ r.wrote /\ r.open = "mine"
  BY <1>2 DEF Idle
<1> HIDE DEF r
<1>4. run'[h] # Idle
  BY <1>1, <1>3 DEF Idle
<1>5. Running(h)' /\ run'[h].wrote /\ run'[h].open = "mine" /\ Step(h)' = Step(h) /\ run'[h].cmd = run[h].cmd /\ run'[h].pc = run[h].pc
  BY <1>1, <1>3, <1>4 DEF Running, Step, Prog
<1>6. Bound(h, F, run[h].pc) => Due(h, F)'
  BY <1>5 DEF Bound, Due
<1> HIDE DEF w
<1>7. ASSUME NEW S, Opened(S, F) PROVE Opened(S, F)'
  BY <1>1, <1>7, OthersOpened
<1>8. CASE f = F
  BY <1>1, <1>8 DEF CurrentOrDue
<1>9. CASE F \in torn \cup excused
  BY <1>1, <1>9 DEF CurrentOrDue
<1>10. CASE \E g \in Helpers : Due(g, F)
  <2>1. Due(h, F) => Due(h, F)'
    BY <1>6 DEF Due, Bound
  <2> QED
    BY <1>1, <1>10, <2>1, DueStays DEF CurrentOrDue
<1>11. ASSUME NEW src \in Origins(F), src \subseteq Files, Current(F, src), f # F
       PROVE  CurrentOrDue(F)'
  <2>1. CASE f \notin Sources(F)
    <3>1. f \notin src
      BY <2>1, SourcesApart
    <3>2. \A S \in src : Seen'[S] = Seen[S]
      BY <1>1, <1>11, <3>1 DEF Seen
    <3>3. CASE F = Served
      <4>1. Derived(F, src, Seen') = Derived(F, src, Seen)
        BY <3>2, SameSources
      <4>2. disk[F] = Derived(F, src, Seen)
        BY <1>11, <3>3 DEF Current
      <4>3. disk'[F] = Derived(F, src, Seen')
        BY <1>1, <4>1, <4>2
      <4>4. Current(F, src)'
        BY <3>3, <4>3 DEF Current
      <4> QED
        BY <1>11, <4>4 DEF CurrentOrDue
    <3>4. CASE F # Served
      BY <1>1, <1>7, <1>11, <3>1, <3>4 DEF Current, CurrentOrDue
    <3> QED
      BY <3>3, <3>4
  <2>2. CASE f \in Sources(F)
    <3>1. Affects(Step(h), F) /\ ~Makes(Step(h), F)
      BY <1>0, <1>1, <1>2, <1>11, <2>2 DEF Affects, Makes, WriteOps
    <3>2. \/ Spares(Step(h), F) \/ Bound(h, F, run[h].pc)
      BY <1>2, <3>1, Touching DEF Step, Prog, Bound
    <3>3. CASE Spares(Step(h), F)
      <4>1. F # Served
        BY <3>3, ServedShowsAll DEF Spares
      <4>2. Opened(f, F)'
        BY <1>0, <1>5, <3>3 DEF Opened
      <4>3. \A S \in src \cap torn' : S \in src \cap torn \/ S = f
        BY <1>1
      <4>4. CASE src \cap excused # {}
        <5>1. Current(F, src)'
          BY <1>1, <4>1, <4>4 DEF Current
        <5> QED
          BY <1>11, <5>1 DEF CurrentOrDue
      <4>5. CASE disk[F] = Derived(F, src, disk) /\ \A S \in src \cap torn : Opened(S, F)
        <5>1. \A S \in src \cap torn' : Opened(S, F)'
          BY <1>7, <4>2, <4>3, <4>5
        <5>2. disk'[F] = Derived(F, src, disk')
          BY <1>1, <4>5
        <5>3. Current(F, src)'
          BY <4>1, <5>1, <5>2 DEF Current
        <5> QED
          BY <1>11, <5>3 DEF CurrentOrDue
      <4> QED
        BY <1>11, <4>1, <4>4, <4>5 DEF Current
    <3> QED
      BY <1>6, <3>2, <3>3 DEF CurrentOrDue
  <2> QED
    BY <2>1, <2>2
<1> QED
  BY <1>8, <1>9, <1>10, <1>11 DEF CurrentOrDue

\* h changes the files of its step, all of w, and goes on.
Writing(h, w) ==
  /\ Running(h) /\ Step(h).op \in WriteOps /\ w = FilesOf(Step(h))
  /\ OnlyIn(w) /\ \A f \in Files \ w : f \in torn' <=> f \in torn
  /\ \A f \in excused \ w : f \in excused'
  /\ \A g \in Helpers \ {h} : Told(g, w)
  /\ \E mem, x : Continue(h, run[h].pc + Step(h).next, mem, w, x)

\* The steps that do.
LEMMA Writers ==
  ASSUME SInv, NEW h \in Helpers, WriteFile(h) \/ ChangeInOnePiece(h) \/ ReloadService(h),
         NEW w, w = FilesOf(Step(h))
  PROVE  Writing(h, w)
<1>1. Running(h) /\ Step(h).op \in WriteOps
  BY DEF WriteFile, ChangeInOnePiece, ReloadService, At, WriteOps
<1>2. Step(h).op \notin {"wipe", "unpack"} => w = {Step(h).f} /\ Step(h).f \in Files
  BY <1>1, AtStep
<1>3. DOMAIN disk = Files
  BY DEF SInv, DiskInv
<1>4. ASSUME NEW mem, NEW x, Continue(h, run[h].pc + Step(h).next, mem, w, x),
             \A f \in excused \ w : f \in x, OnlyIn(w), \A f \in Files \ w : f \in torn' <=> f \in torn
      PROVE  Writing(h, w)
  <2>1. x \subseteq excused' /\ \A g \in Helpers \ {h} : Told(g, w)
    BY <1>4 DEF Continue, Told
  <2> QED
    BY <1>1, <1>4, <2>1 DEF Writing
<1>5. \A f \in excused \ {Step(h).f} : f \in Recorded(h)
  BY DEF Recorded
<1>6. CASE WriteFile(h)
  <2> DEFINE value == NewValue(h)
             mem == Taken(run[h].mem, Step(h).f, [Kept(h, Step(h)) EXCEPT !.val = value])
  <2>1. /\ Continue(h, run[h].pc + Step(h).next, mem, {Step(h).f}, Recorded(h))
        /\ disk' = [disk EXCEPT ![Step(h).f] = value]
        /\ torn' = torn \ {Step(h).f} \/ torn' = torn \cup {Step(h).f}
        /\ Step(h).op = "save"
    BY <1>6 DEF WriteFile, Onward, At
  <2> HIDE DEF value, mem
  <2>2. OnlyIn(w) /\ \A f \in Files \ w : f \in torn' <=> f \in torn
    BY <1>2, <1>3, <2>1 DEF OnlyIn
  <2> QED
    BY <1>2, <1>4, <1>5, <2>1, <2>2
<1>7. CASE ChangeInOnePiece(h)
  <2> DEFINE x == IF At(h, "swap") THEN Recorded(h) ELSE excused
  <2>1. /\ Continue(h, run[h].pc + Step(h).next, run[h].mem, w, x)
        /\ disk' = [f \in Files |-> IF f \in w THEN After(h, f) ELSE disk[f]]
        /\ torn' = torn \ w
    BY <1>7 DEF ChangeInOnePiece, Onward
  <2>2. OnlyIn(w) /\ \A f \in Files \ w : f \in torn' <=> f \in torn
    BY <2>1 DEF OnlyIn
  <2>3. \A f \in excused \ w : f \in x
    <3>1. At(h, "swap") => w = {Step(h).f}
      BY <1>2 DEF At
    <3> QED
      BY <1>5, <3>1
  <2> HIDE DEF x
  <2> QED
    BY <1>4, <2>1, <2>2, <2>3
<1>8. CASE ReloadService(h)
  <2> DEFINE x == IF Step(h).f = Served THEN excused \ {Step(h).f} ELSE excused
  <2>1. PICK value : /\ Continue(h, run[h].pc + Step(h).next, run[h].mem, {Step(h).f}, x)
                     /\ disk' = [disk EXCEPT ![Step(h).f] = value] /\ torn' = torn /\ Step(h).op = "reload"
    BY <1>8 DEF ReloadService, Onward, At
  <2>2. OnlyIn(w) /\ \A f \in Files \ w : f \in torn' <=> f \in torn
    BY <1>2, <1>3, <2>1 DEF OnlyIn
  <2>3. \A f \in excused \ w : f \in x
    BY <1>2, <2>1
  <2> HIDE DEF x
  <2> QED
    BY <1>2, <1>4, <2>1, <2>2, <2>3
<1> QED
  BY <1>6, <1>7, <1>8

\* h is due after a step that does not make F, if it is bound to make it.
LEMMA WriterBound ==
  ASSUME SInv, NEW h \in Helpers, NEW w, Writing(h, w), NEW F \in Followers \cap Files, ~Makes(Step(h), F),
         Bound(h, F, run[h].pc), run[h].wrote \/ w # {}
  PROVE  Due(h, F)' \/ F \in excused'
<1>1. PICK mem, x : Continue(h, run[h].pc + Step(h).next, mem, w, x)
  BY DEF Writing
<1>2. Bound(h, F, run[h].pc + Step(h).next) /\ run[h].pc + Step(h).next \in Jumps(Prog(h), run[h].pc)
  BY GoesOnBound, AtStep DEF Writing
<1> QED
  BY <1>1, <1>2, Pursues DEF Writing

\* A step that touches neither F nor what it is computed from.
LEMMA WriteApart ==
  ASSUME SInv, NEW h \in Helpers, NEW w, Writing(h, w), NEW F \in Followers \cap Files, CurrentOrDue(F),
         ~Affects(Step(h), F)
  PROVE  CurrentOrDue(F)'
<1>1. F \notin w /\ w \cap Sources(F) = {} /\ ~Makes(Step(h), F)
  BY DEF Writing, Affects, Makes, FilesOf, WriteOps
<1>2. \A g \in Helpers \ {h} : Told(g, w)
  BY DEF Writing
<1>3. CASE F \in torn \cup excused
  BY <1>1, <1>3 DEF CurrentOrDue, Writing
<1>4. CASE \E g \in Helpers : Due(g, F)
  <2>1. Due(h, F) => Due(h, F)' \/ F \in excused'
    BY <1>1, WriterBound DEF Due, Bound
  <2> QED
    BY <1>2, <1>4, <2>1, DueStays DEF CurrentOrDue
<1>5. ASSUME NEW src \in Origins(F), src \subseteq Files, Current(F, src)
      PROVE  Current(F, src)'
  <2>1. \A S \in src : S \in Files \ w
    BY <1>1, <1>5, SourcesApart
  <2>2. disk'[F] = disk[F] /\ \A S \in src : disk'[S] = disk[S] /\ (S \in torn' <=> S \in torn)
    BY <1>1, <2>1 DEF Writing, OnlyIn
  <2>3. CASE F = Served
    <3>1. \A S \in src : Seen'[S] = Seen[S]
      BY <2>1, <2>2 DEF Seen
    <3>2. Derived(F, src, Seen') = Derived(F, src, Seen)
      BY <3>1, SameSources
    <3>3. disk[F] = Derived(F, src, Seen)
      BY <1>5, <2>3 DEF Current
    <3>4. disk'[F] = Derived(F, src, Seen')
      BY <2>2, <3>2, <3>3
    <3> QED
      BY <2>3, <3>4 DEF Current
  <2>4. CASE F # Served /\ src \cap excused # {}
    BY <2>1, <2>4 DEF Current, Writing
  <2>5. CASE F # Served /\ src \cap excused = {}
    <3>1. disk[F] = Derived(F, src, disk) /\ \A S \in src \cap torn : Opened(S, F)
      BY <1>5, <2>5 DEF Current
    <3>2. ASSUME NEW S \in src \cap torn PROVE Opened(S, F)'
      <4>1. ~(Running(h) /\ run[h].open # "no" /\ Step(h).f = S /\ Spares(Step(h), F))
        BY <2>1, AtStep DEF Writing, Spares
      <4> QED
        BY <1>2, <3>1, <4>1, OthersOpened
    <3>3. Derived(F, src, disk') = Derived(F, src, disk)
      BY <2>2, SameSources
    <3>4. \A S \in src \cap torn' : Opened(S, F)'
      BY <2>2, <3>2
    <3>5. disk'[F] = Derived(F, src, disk')
      BY <2>2, <3>1, <3>3
    <3> QED
      BY <2>5, <3>4, <3>5 DEF Current
  <2> QED
    BY <2>3, <2>4, <2>5
<1> QED
  BY <1>3, <1>4, <1>5 DEF CurrentOrDue

\* A step that touches F, or a source of it, and whose process sees to F.
LEMMA WriteTouches ==
  ASSUME SInv, NEW h \in Helpers, NEW w, Writing(h, w), NEW F \in Followers \cap Files,
         Affects(Step(h), F), ~Makes(Step(h), F), Bound(h, F, run[h].pc)
  PROVE  CurrentOrDue(F)'
<1>1. w # {}
  BY DEF Writing, Affects
<1> QED
  BY <1>1, WriterBound DEF CurrentOrDue

\* The copy a process is about to write back.
LEMMA CopyHeld ==
  ASSUME SInv, NEW h \in Helpers, Running(h), WritesBack(Step(h)), NEW f, f = Step(h).f
  PROVE  /\ f \in DOMAIN run[h].mem /\ run[h].mem[f].src = {f} /\ Kept(h, Step(h)) = run[h].mem[f]
         /\ ~run[h].mem[f].old => run[h].mem[f].val = disk[f]
<1> DEFINE p == Prog(h)
           i == run[h].pc
<1>1. run[h].cmd \in Command /\ i \in 1..Len(p) /\ Performed(Step(h), run[h].mem) /\ CopyOK(h)
  BY DEF SInv, RunInv, RunOK, CopyInv
<1>2. Len(p) \in Nat /\ DOMAIN p = 1..Len(p) /\ ReadsFirst(p)
  BY <1>1, ProgramFacts DEF Prog
<1>3. PICK j \in 1..i - 1 : ReadFor(p, j, i)
  BY <1>1, <1>2 DEF ReadsFirst, Step
<1>4. Pair(p, j, i) /\ j \in 1..Len(p) /\ j < i /\ i <= i
  BY <1>1, <1>2, <1>3 DEF Pair, Step
<1>5. Performed(p[j], run[h].mem)
  BY <1>1, <1>3 DEF ReadFor, Asks, Performed, Step
<1>6. CopyOf(run[h].mem, p[i].f, disk[p[i].f], Doubt(p[j]))
  BY <1>1, <1>4, <1>5 DEF CopyOK
<1>7. p[i] = Step(h)
  BY DEF Step
<1> QED
  BY <1>6, <1>7 DEF CopyOf, Kept, Held, WritesBack

\* A source is written back with the entries F shows as they were.
LEMMA WriteSpares ==
  ASSUME SInv, CrossedOldInv, NEW h \in Helpers, WriteFile(h), NEW F \in Followers \cap Files, CurrentOrDue(F),
         Affects(Step(h), F), ~Makes(Step(h), F), Spares(Step(h), F)
  PROVE  CurrentOrDue(F)'
<1>1. PICK f, w : f = Step(h).f /\ w = {f}
  OBVIOUS
<1>2. /\ Running(h) /\ Step(h).op = "save" /\ WritesBack(Step(h)) /\ F \in Picking /\ F # f
      /\ (Step(h).add \cup Step(h).del) \cap Shown(F) = {}
  BY <1>1 DEF Spares, WriteFile, At
<1>3. FilesOf(Step(h)) = w /\ f \in Files /\ f \in Sources(F)
  BY <1>1, <1>2, AtStep DEF Affects
<1>4. Writing(h, w) /\ \A g \in Helpers \ {h} : Told(g, w)
  BY <1>3, Writers DEF Writing
<1>5. /\ disk' = [disk EXCEPT ![f] = NewValue(h)]
      /\ torn' = torn \ {f} \/ (run[h].open = "crossed" /\ torn' = torn \cup {f})
      /\ Recorded(h) \subseteq excused'
  BY <1>1 DEF WriteFile, Onward, Continue
<1>6. /\ f \in DOMAIN run[h].mem /\ run[h].mem[f].src = {f} /\ Kept(h, Step(h)) = run[h].mem[f]
      /\ ~run[h].mem[f].old => run[h].mem[f].val = disk[f]
  BY <1>1, <1>2, CopyHeld
<1>7. DOMAIN disk = Files /\ F # Served
  BY <1>2, ServedShowsAll DEF SInv, DiskInv
<1>8. disk'[f] = NewValue(h) /\ \A S \in Files \ {f} : disk'[S] = disk[S]
  BY <1>3, <1>5, <1>7
<1>9. CASE F \in torn \cup excused
  BY <1>1, <1>2, <1>4, <1>9 DEF CurrentOrDue, Writing
<1>10. CASE \E g \in Helpers : Due(g, F)
  <2>1. Due(h, F) => Due(h, F)' \/ F \in excused'
    BY <1>4, WriterBound DEF Due, Bound
  <2> QED
    BY <1>4, <1>10, <2>1, DueStays DEF CurrentOrDue
<1>11. ASSUME NEW src \in Origins(F), src \subseteq Files, Current(F, src)
      PROVE  Current(F, src)'
  <2>1. CASE src \cap excused' # {}
    BY <1>7, <2>1 DEF Current
  <2>2. CASE src \cap excused' = {}
    <3>1. src \cap excused = {} /\ (f \in src => ~run[h].mem[f].old)
      <4>1. \A S \in excused \ {f} : S \in excused'
        BY <1>1, <1>4 DEF Writing
      <4>2. run[h].mem[f].old => f \in excused'
        BY <1>1, <1>5, <1>6 DEF Recorded
      <4>3. ~run[h].mem[f].old => excused \subseteq excused'
        BY <1>1, <1>5, <1>6 DEF Recorded
      <4> QED
        BY <2>2, <4>1, <4>2, <4>3
    <3>2. disk[F] = Derived(F, src, disk) /\ \A S \in src \cap torn : Opened(S, F)
      BY <1>7, <1>11, <3>1 DEF Current
    <3>3. ASSUME NEW S \in src, NEW x \in Shown(F) PROVE x \in disk[S] <=> x \in disk'[S]
      <4>1. CASE S = f
        <5>1. disk'[f] = (disk[f] \ Step(h).del) \cup Step(h).add
          BY <1>6, <1>8, <3>1, <3>3, <4>1 DEF NewValue
        <5> QED
          BY <1>2, <4>1, <5>1
      <4>2. CASE S # f
        BY <1>8, <1>11, <4>2
      <4> QED
        BY <4>1, <4>2
    <3>4. Derived(F, src, disk) = Derived(F, src, disk')
      BY <1>2, <3>3, SameEntries
    <3>5. disk'[F] = disk[F]
      BY <1>2, <1>8
    <3>6. \A S \in src \cap torn' : S \in src \cap torn /\ S # f
      <4>1. f \in src => torn' = torn \ {f}
        BY <1>1, <1>2, <1>5, <3>1 DEF CrossedOldInv
      <4> QED
        BY <1>5, <4>1
    <3>7. ASSUME NEW S \in src \cap torn' PROVE Opened(S, F)'
      <4>1. S \in src \cap torn /\ ~(Running(h) /\ run[h].open # "no" /\ Step(h).f = S /\ Spares(Step(h), F))
        BY <1>1, <3>6
      <4> QED
        BY <1>4, <3>2, <4>1, OthersOpened
    <3> QED
      BY <1>7, <3>2, <3>4, <3>5, <3>7 DEF Current
  <2> QED
    BY <2>1, <2>2
<1> QED
  BY <1>9, <1>10, <1>11 DEF CurrentOrDue

\* F is made: from files that have not changed since they were looked at, or it
\* is excused.
LEMMA WriteMakes ==
  ASSUME SInv, PreparedInv, NEW h \in Helpers, WriteFile(h) \/ ChangeInOnePiece(h) \/ ReloadService(h),
         NEW F \in Followers \cap Files, Makes(Step(h), F)
  PROVE  CurrentOrDue(F)'
<1>1. PICK src : src = Step(h).src
  OBVIOUS
<1>2. /\ Running(h) /\ Step(h).f = F /\ src \in Origins(F) /\ Step(h).add = {} /\ Step(h).del = {}
      /\ Step(h).op \in {"save", "swap"} \/ (Step(h).op = "reload" /\ F = Served)
  BY <1>1 DEF Makes, WriteFile, ChangeInOnePiece, ReloadService, At
<1>3. src \subseteq Files /\ src # {} /\ F \notin src /\ FilesOf(Step(h)) = {F} /\ DOMAIN disk = Files
  BY <1>1, <1>2, AtStep, SourcesApart DEF SInv, DiskInv
<1> DEFINE w == {F}
<1>4. Writing(h, w)
  BY <1>3, Writers
<1>5. \A S \in src : S \in Files \ w /\ disk'[S] = disk[S] /\ (S \in torn' <=> S \in torn)
  BY <1>3, <1>4 DEF Writing, OnlyIn
<1> HIDE DEF w
<1>6. CASE Step(h).op = "reload"
  <2>1. ReloadService(h) /\ F = Served
    BY <1>2, <1>6 DEF WriteFile, ChangeInOnePiece, ReloadService, At
  <2>2. disk'[F] = Derived(F, src, Seen)
    BY <1>1, <1>2, <1>3, <2>1 DEF ReloadService
  <2>3. \A S \in src : Seen'[S] = Seen[S]
    BY <1>5 DEF Seen
  <2>4. Derived(F, src, Seen') = Derived(F, src, Seen)
    BY <1>2, <2>3, SameSources
  <2>5. disk'[F] = Derived(F, src, Seen')
    BY <2>2, <2>4
  <2>6. Current(F, src)'
    BY <2>1, <2>5 DEF Current
  <2> QED
    BY <1>2, <1>3, <2>6 DEF CurrentOrDue
<1>7. CASE Step(h).op # "reload"
  <2> DEFINE copy == run[h].mem[F]
  <2>1. PreparedOK(h)
    BY <1>2 DEF PreparedInv
  <2>2. F \in DOMAIN run[h].mem /\ Fresh(copy, F, src)
    BY <1>1, <1>7, <2>1 DEF PreparedOK
  <2>3. Kept(h, Step(h)) = copy /\ copy.src = src
    BY <1>1, <1>2, <1>3, <2>2 DEF Kept, Held, Fresh
  <2>4. NewValue(h) = copy.val
    BY <1>2, <2>3 DEF NewValue
  <2>5. disk'[F] = copy.val /\ Recorded(h) \subseteq excused'
    <3>1. CASE Step(h).op = "save"
      <4>1. disk' = [disk EXCEPT ![F] = NewValue(h)] /\ Recorded(h) \subseteq excused'
        BY <1>2, <3>1 DEF WriteFile, ChangeInOnePiece, ReloadService, At, Onward, Continue
      <4> QED
        BY <1>3, <2>4, <4>1
    <3>2. CASE Step(h).op = "swap"
      <4>1. /\ disk' = [f \in Files |-> IF f \in FilesOf(Step(h)) THEN After(h, f) ELSE disk[f]]
            /\ Recorded(h) \subseteq excused'
        BY <1>2, <3>2 DEF WriteFile, ChangeInOnePiece, ReloadService, At, Onward, Continue
      <4>2. After(h, F) = NewValue(h)
        BY <3>2 DEF After
      <4> QED
        BY <1>3, <2>4, <4>1, <4>2
    <3> QED
      BY <1>2, <1>7, <3>1, <3>2
  <2>6. CASE copy.old
    BY <1>2, <2>3, <2>5, <2>6 DEF Recorded, CurrentOrDue
  <2>7. CASE ~copy.old /\ F # Served
    <3>1. src \cap torn = {} /\ disk'[F] = Derived(F, src, disk)
      BY <2>2, <2>5, <2>7 DEF Fresh
    <3>2. Derived(F, src, disk') = Derived(F, src, disk)
      BY <1>2, <1>5, SameSources
    <3>3. disk'[F] = Derived(F, src, disk') /\ src \cap torn' = {}
      BY <1>5, <3>1, <3>2
    <3>4. Current(F, src)'
      BY <2>7, <3>3 DEF Current
    <3> QED
      BY <1>2, <1>3, <3>4 DEF CurrentOrDue
  <2>8. CASE ~copy.old /\ F = Served
    <3>1. src \cap torn = {} /\ disk'[F] = Derived(F, src, disk)
      BY <2>2, <2>5, <2>8 DEF Fresh
    <3>2. \A S \in src : Seen'[S] = disk[S]
      BY <1>5, <3>1 DEF Seen
    <3>3. Derived(F, src, Seen') = Derived(F, src, disk)
      BY <1>2, <3>2, SameSources
    <3>4. disk'[F] = Derived(F, src, Seen')
      BY <3>1, <3>3
    <3>5. Current(F, src)'
      BY <2>8, <3>4 DEF Current
    <3> QED
      BY <1>2, <1>3, <3>5 DEF CurrentOrDue
  <2> QED
    BY <2>6, <2>7, <2>8
<1> QED
  BY <1>6, <1>7

-----------------------------------------------------------------------------
(* What follows, step by step.                                             *)

\* h goes on without a write.
LEMMA PassingFollows ==
  ASSUME SInv, NEW h \in Helpers, Running(h), NEW t \in Jumps(Prog(h), run[h].pc), NEW mem, NEW w, w = {},
         Continue(h, t, mem, w, excused), UNCHANGED <<disk, torn>>, Step(h).op \notin WriteOps,
         NEW F \in Followers \cap Files, CurrentOrDue(F), Bound(h, F, run[h].pc) => Bound(h, F, t)
  PROVE  CurrentOrDue(F)'
<1>1. excused \subseteq excused' /\ \A g \in Helpers \ {h} : run'[g] = run[g]
  BY DEF Continue
<1>2. run[h].open = "no"
  BY AtStep DEF WriteOps
<1>3. Due(h, F) => Due(h, F)' \/ F \in excused'
  BY Pursues DEF Due, Bound
<1> QED
  BY <1>1, <1>2, <1>3, LookFollows

\* The steps that write nothing.
LEMMA LooksFollow ==
  ASSUME SInv, NEW h \in Helpers,
         \/ ResolveDomainUser(h) \/ RunProgram(h) \/ ReadFile(h) \/ RenderFile(h) \/ StripConflicts(h),
         NEW F \in Followers \cap Files, CurrentOrDue(F)
  PROVE  CurrentOrDue(F)'
<1>1. Running(h) /\ Step(h).op \in {"resolve", "run", "read", "parse", "render", "copy", "strip"}
  BY DEF ResolveDomainUser, RunProgram, ReadFile, Reads, RenderFile, StripConflicts, At
<1>2. Step(h).op \notin WriteOps /\ ~Makes(Step(h), F)
  BY <1>1 DEF WriteOps, Makes
<1>3. Bound(h, F, run[h].pc) =>
        /\ Bound(h, F, run[h].pc + Step(h).next)
        /\ Step(h).op = "strip" => Bound(h, F, run[h].pc + 1) /\ Bound(h, F, run[h].pc + 2)
  BY <1>1, <1>2, GoesOnBound
<1>4. UNCHANGED <<disk, torn>>
  BY DEF ResolveDomainUser, RunProgram, ReadFile, RenderFile, StripConflicts
<1>5. PICK w : w = {}
  OBVIOUS
<1>6. PICK t, mem : /\ t \in Jumps(Prog(h), run[h].pc) /\ Continue(h, t, mem, w, excused)
                    /\ t = run[h].pc + Step(h).next \/ (Step(h).op = "strip" /\ t \in {run[h].pc + 1, run[h].pc + 2})
  <2>1. CASE StripConflicts(h)
    <3>1. PICK t, mem : t \in {run[h].pc + 1, run[h].pc + 2} /\ Continue(h, t, mem, w, excused)
      BY <1>5, <2>1 DEF StripConflicts
    <3>2. Step(h).op = "strip" /\ {run[h].pc + 1, run[h].pc + 2} \subseteq Jumps(Prog(h), run[h].pc)
      BY <2>1 DEF StripConflicts, At, Jumps, Step
    <3> QED
      BY <3>1, <3>2
  <2>2. CASE ~StripConflicts(h)
    <3>1. PICK mem : Continue(h, run[h].pc + Step(h).next, mem, w, excused)
      BY <1>5, <2>2 DEF ResolveDomainUser, RunProgram, ReadFile, RenderFile, Onward
    <3> QED
      BY <1>1, <3>1, AtStep
  <2> QED
    BY <2>1, <2>2
<1> QED
  BY <1>1, <1>2, <1>3, <1>4, <1>5, <1>6, PassingFollows

\* A process is stopped.
LEMMA StopFollows ==
  ASSUME SInv, NEW h \in Helpers, Running(h), Stop(h), UNCHANGED <<disk, torn>>,
         NEW F \in Followers \cap Files, CurrentOrDue(F)
  PROVE  CurrentOrDue(F)'
<1>1. excused \subseteq excused' /\ \A g \in Helpers \ {h} : run'[g] = run[g]
  BY DEF Stop, SInv, RunInv
<1>2. Due(h, F) => F \in excused'
  BY Stopped DEF Due, Bound
<1>3. ASSUME run[h].open # "no" PROVE Step(h).f \in excused'
  <2>1. Step(h).op = "save" /\ FilesOf(Step(h)) = {Step(h).f} /\ run[h].pc \in 1..Len(Prog(h))
        /\ run[h].cmd \in Command
    BY <1>3, AtStep
  <2>2. run[h].pc \in run[h].pc..Len(Prog(h))
    BY <2>1, ProgramFacts DEF Prog
  <2>3. Step(h).f \in Ahead(h, run[h].pc)
    BY <2>1, <2>2 DEF Ahead, Step, WriteOps
  <2> QED
    BY <1>3, <2>3 DEF Stop
<1> QED
  BY <1>1, <1>2, <1>3, LookFollows

\* A step fails, and the process ends or goes on behind the block.
LEMMA GiveUpFollows ==
  ASSUME SInv, NEW h \in Helpers, Running(h), GiveUp(h), UNCHANGED <<disk, torn>>,
         NEW F \in Followers \cap Files, CurrentOrDue(F)
  PROVE  CurrentOrDue(F)'
<1>1. CASE Stop(h)
  BY <1>1, StopFollows
<1>2. CASE ~Stop(h)
  <2>1. Step(h).catch > 0
    BY <1>2 DEF GiveUp
  <2>2. ~Spares(Step(h), F)
    BY <2>1, AtStep DEF Spares
  <2>3. excused \subseteq excused' /\ \A g \in Helpers \ {h} : run'[g] = run[g]
    BY <2>1 DEF GiveUp, Continue
  <2>4. Due(h, F) => Due(h, F)' \/ F \in excused'
    BY Skipped
  <2> QED
    BY <2>2, <2>3, <2>4, LookFollows
<1> QED
  BY <1>1, <1>2

\* A process begins.
LEMMA StartFollows ==
  ASSUME SInv, NEW h \in Helpers, NEW c \in Command, Start(h, c), NEW F \in Followers \cap Files, CurrentOrDue(F)
  PROVE  CurrentOrDue(F)'
<1>1. ~Running(h) /\ UNCHANGED <<disk, torn, excused>> /\ \A g \in Helpers \ {h} : run'[g] = run[g]
  BY DEF Start, SInv, RunInv
<1> QED
  BY <1>1, LookFollows DEF Due

\* A step that changes files.
LEMMA WritingFollows ==
  ASSUME SInv, PreparedInv, CrossedOldInv, NEW h \in Helpers,
         WriteFile(h) \/ ChangeInOnePiece(h) \/ ReloadService(h), NEW F \in Followers \cap Files, CurrentOrDue(F)
  PROVE  CurrentOrDue(F)'
<1>1. PICK w : w = FilesOf(Step(h))
  OBVIOUS
<1>2. Writing(h, w) /\ Running(h)
  BY <1>1, Writers DEF Writing
<1>3. CASE ~Affects(Step(h), F)
  BY <1>2, <1>3, WriteApart
<1>4. CASE Makes(Step(h), F)
  BY <1>4, WriteMakes
<1>5. CASE Affects(Step(h), F) /\ ~Makes(Step(h), F)
  <2>1. run[h].cmd \in Command /\ run[h].pc \in 1..Len(Prog(h))
    BY <1>2, AtStep
  <2>2. Spares(Step(h), F) \/ Bound(h, F, run[h].pc)
    BY <1>5, <2>1, Touching DEF Bound, Step, Prog
  <2>3. CASE Bound(h, F, run[h].pc)
    BY <1>2, <1>5, <2>3, WriteTouches
  <2>4. CASE Spares(Step(h), F)
    <3>1. WriteFile(h)
      BY <2>4 DEF Spares, ChangeInOnePiece, ReloadService, At
    <3> QED
      BY <1>5, <2>4, <3>1, WriteSpares
  <2> QED
    BY <2>2, <2>3, <2>4
<1> QED
  BY <1>3, <1>4, <1>5

\* Every step.
LEMMA FollowKeeps ==
  ASSUME SInv, FInv, [Next]_vars
  PROVE  FollowInv'
<1> SUFFICES ASSUME NEW F \in Followers \cap Files PROVE CurrentOrDue(F)'
  BY DEF FollowInv
<1>1. CurrentOrDue(F) /\ PreparedInv /\ CrossedOldInv
  BY DEF FInv, FollowInv
<1>2. CASE UNCHANGED vars
  <2>1. disk' = disk /\ torn' = torn /\ run' = run /\ excused' = excused
    BY <1>2 DEF vars
  <2>2. Seen' = Seen /\ \A h : /\ Running(h)' <=> Running(h)
                               /\ Step(h)' = Step(h) /\ (Due(h, F)' <=> Due(h, F))
    BY <2>1 DEF Seen, Running, Step, Prog, Due
  <2>3. \A S : Opened(S, F)' <=> Opened(S, F)
    BY <2>1, <2>2 DEF Opened
  <2>4. \A src : Current(F, src)' <=> Current(F, src)
    BY <2>1, <2>2, <2>3 DEF Current
  <2> QED
    BY <1>1, <2>1, <2>2, <2>4 DEF CurrentOrDue
<1>3. CASE Next
  <2>1. PICK h \in Helpers : \/ \E c \in Command : Start(h, c)
                             \/ Proceed(h) \/ FailStep(h) \/ Kill(h)
    BY <1>3 DEF Next
  <2>2. CASE \E c \in Command : Start(h, c)
    BY <1>1, <2>2, StartFollows
  <2>3. CASE \/ ResolveDomainUser(h) \/ RunProgram(h) \/ ReadFile(h) \/ RenderFile(h) \/ StripConflicts(h)
    BY <1>1, <2>3, LooksFollow
  <2>4. CASE OpenFile(h)
    BY <1>1, <2>4, OpenFollows
  <2>5. CASE WriteFile(h) \/ ChangeInOnePiece(h) \/ ReloadService(h)
    BY <1>1, <2>5, WritingFollows
  <2>6. CASE UnknownDomain(h) \/ NotAcceptable(h) \/ Kill(h)
    <3>1. Running(h) /\ Stop(h) /\ UNCHANGED <<disk, torn>>
      BY <2>6 DEF UnknownDomain, NotAcceptable, Reads, At, Refuse, Kill, Troubled
    <3> QED
      BY <1>1, <3>1, StopFollows
  <2>7. CASE ExitNonzero(h) \/ FailStep(h)
    <3>1. Running(h) /\ GiveUp(h) /\ UNCHANGED <<disk, torn>>
      BY <2>7 DEF ExitNonzero, Reads, At, FailStep, Troubled
    <3> QED
      BY <1>1, <3>1, GiveUpFollows
  <2> QED
    BY <2>1, <2>2, <2>3, <2>4, <2>5, <2>6, <2>7 DEF Proceed
<1> QED
  BY <1>2, <1>3

-----------------------------------------------------------------------------
(* What a process is about to write.                                       *)

\* h acts on the files of w at most, and tells the others.
Acting(h, w) ==
  /\ OnlyIn(w) /\ \A f \in Files \ w : f \in torn' <=> f \in torn
  /\ \A g \in Helpers \ {h} : Told(g, w)
  /\ run'[h] = Idle \/ run'[h].open # "crossed"

\* A process that goes on has nothing open.
LEMMA ClosesFile ==
  ASSUME SInv, NEW h \in Helpers, NEW t, NEW mem, NEW w, NEW x, Continue(h, t, mem, w, x)
  PROVE  /\ run'[h] = Idle \/ run'[h].open # "crossed"
         /\ \A g \in Helpers \ {h} : Told(g, w)
<1> DEFINE p == Prog(h)
           j == Landing(p, t, mem)
           next == [run[h] EXCEPT !.pc = j, !.mem = Remembered(h, j, mem), !.open = "no",
                                  !.wrote = @ \/ w # {}]
<1>1. run'[h] = IF j > Len(p) THEN Idle ELSE next
  BY DEF Continue
<1>2. DOMAIN run[h] = DOMAIN Idle
  BY DEF SInv, RunInv, RunOK
<1>3. next.open = "no"
  <2> HIDE DEF j, p
  <2> QED
    BY <1>2 DEF Idle
<1> HIDE DEF next, j, p
<1>4. run'[h] = Idle \/ run'[h].open # "crossed"
  BY <1>1, <1>3
<1>5. \A g \in Helpers \ {h} : Told(g, w)
  BY DEF Continue, Told
<1> QED
  BY <1>4, <1>5

\* Every step does so.
LEMMA Acts ==
  ASSUME SInv, NEW h \in Helpers,
         (\E c \in Command : Start(h, c)) \/ Proceed(h) \/ FailStep(h) \/ Kill(h)
  PROVE  \E w : Acting(h, w)
<1> DEFINE none == {}
<1>0. OnlyIn(none) <=> \A f \in Files : disk'[f] = disk[f]
  BY DEF OnlyIn
<1>1. DOMAIN run[h] = DOMAIN Idle /\ DOMAIN run = Helpers
  BY DEF SInv, RunInv, RunOK
<1>2. CASE \E c \in Command : Start(h, c)
  <2>1. PICK c \in Command : Start(h, c)
    BY <1>2
  <2> DEFINE r == [Idle EXCEPT !.cmd = c, !.nr = started + 1, !.pc = Landing(Program[c], 1, <<>>),
                               !.out = LoggedOutOnFile(c)]
  <2>2. run'[h] = r /\ UNCHANGED <<disk, torn>> /\ \A g \in Helpers \ {h} : run'[g] = run[g]
    BY <1>1, <2>1 DEF Start
  <2>3. r.open = "no"
    BY DEF Idle
  <2>4. Acting(h, none)
    <3> HIDE DEF r
    <3> QED
      BY <1>0, <2>2, <2>3 DEF Acting, Told
  <2> QED
    BY <2>4
<1>3. ASSUME NEW t, NEW mem, NEW x, Continue(h, t, mem, none, x), UNCHANGED <<disk, torn>>
      PROVE  Acting(h, none)
  <2> HIDE DEF none
  <2> QED
    BY <1>0, <1>3, ClosesFile DEF Acting
<1>4. ASSUME Stop(h), UNCHANGED <<disk, torn>> PROVE Acting(h, none)
  <2>1. run'[h] = Idle /\ \A g \in Helpers \ {h} : run'[g] = run[g]
    BY <1>1, <1>4 DEF Stop
  <2> QED
    BY <1>0, <1>4, <2>1 DEF Acting, Told
<1>5. CASE \/ ResolveDomainUser(h) \/ RunProgram(h) \/ ReadFile(h) \/ RenderFile(h) \/ StripConflicts(h)
  <2>1. UNCHANGED <<disk, torn>>
    BY <1>5 DEF ResolveDomainUser, RunProgram, ReadFile, RenderFile, StripConflicts
  <2>2. \E t, mem : Continue(h, t, mem, none, excused)
    BY <1>5 DEF ResolveDomainUser, RunProgram, ReadFile, RenderFile, StripConflicts, Onward
  <2> QED
    BY <1>3, <2>1, <2>2
<1>6. CASE OpenFile(h)
  <2> DEFINE w == {Step(h).f}
             r == [run[h] EXCEPT !.open = "mine", !.wrote = TRUE]
  <2>1. /\ run'[h] = r /\ disk' = disk /\ torn' = torn \cup w /\ \A g \in Helpers \ {h} : Told(g, w)
    BY <1>6 DEF OpenFile, Told
  <2>2. r.open = "mine"
    BY <1>1 DEF Idle
  <2> HIDE DEF r, w
  <2>3. Acting(h, w)
    BY <2>1, <2>2 DEF Acting, OnlyIn
  <2> QED
    BY <2>3
<1>7. CASE WriteFile(h) \/ ChangeInOnePiece(h) \/ ReloadService(h)
  <2> DEFINE w == FilesOf(Step(h))
  <2>1. Writing(h, w)
    BY <1>7, Writers
  <2> HIDE DEF w
  <2>2. Acting(h, w)
    BY <2>1, ClosesFile DEF Writing, Acting
  <2> QED
    BY <2>2
<1>8. CASE UnknownDomain(h) \/ NotAcceptable(h) \/ Kill(h)
  <2>1. Stop(h) /\ UNCHANGED <<disk, torn>>
    BY <1>8 DEF UnknownDomain, NotAcceptable, Refuse, Kill
  <2> QED
    BY <1>4, <2>1
<1>9. CASE ExitNonzero(h) \/ FailStep(h)
  <2>1. GiveUp(h) /\ UNCHANGED <<disk, torn>>
    BY <1>9 DEF ExitNonzero, FailStep
  <2>2. Stop(h) \/ \E t, mem, x : Continue(h, t, mem, none, x)
    BY <2>1 DEF GiveUp
  <2> QED
    BY <1>3, <1>4, <2>1, <2>2
<1> QED
  BY <1>2, <1>5, <1>6, <1>7, <1>8, <1>9 DEF Proceed

\* A process that only hears of others was running.
LEMMA WasRunning ==
  ASSUME SInv, NEW g \in Helpers, NEW w, Told(g, w), Running(g)'
  PROVE  Running(g)
<1>1. DOMAIN run[g] = DOMAIN Idle
  BY DEF SInv, RunInv, RunOK
<1> SUFFICES ASSUME run[g] = Idle PROVE run'[g] = Idle
  BY DEF Running
<1>2. \A f \in DOMAIN run[g].mem : DOMAIN run[g].mem[f] = DOMAIN None(f)
  BY DEF Idle
<1> QED
  BY <1>1, <1>2, Hears

\* The copy of a process that is crossed is old.
LEMMA CrossedKeeps ==
  ASSUME SInv, CrossedOldInv, NEW h \in Helpers, NEW w, Acting(h, w)
  PROVE  CrossedOldInv'
<1> SUFFICES ASSUME NEW g \in Helpers, Running(g)', run'[g].open = "crossed", WritesBack(Step(g)')
             PROVE  run'[g].mem[Step(g)'.f].old
  BY DEF CrossedOldInv
<1>1. g # h /\ Told(g, w)
  BY DEF Acting, Running
<1>2. DOMAIN run[g] = DOMAIN Idle
  BY DEF SInv, RunInv, RunOK
<1>3. Running(g)
  BY <1>1, WasRunning
<1>4. Step(g)' = Step(g)
  BY <1>1, <1>3, Remains
<1>5. PICK f : f = Step(g).f
  OBVIOUS
<1>6. f \in DOMAIN run[g].mem /\ run[g].mem[f].src = {f} /\ WritesBack(Step(g))
  BY <1>3, <1>4, <1>5, CopyHeld
<1>7. \A k \in DOMAIN run[g].mem : DOMAIN run[g].mem[k] = DOMAIN None(k)
  BY <1>3, AtStep DEF CopiesOfFiles
<1>8. /\ run'[g].open # run[g].open => f \in w
      /\ ~run'[g].mem[f].old => ~run[g].mem[f].old /\ run[g].mem[f].src \cap w = {}
  BY <1>1, <1>2, <1>5, <1>6, <1>7, Hears
<1>9. run[g].open = "crossed" => run[g].mem[f].old
  BY <1>3, <1>5, <1>6 DEF CrossedOldInv
<1> QED
  BY <1>4, <1>5, <1>6, <1>8, <1>9

\* A process comes to the step that makes F from the one that computes it.
LEMMA Arrives ==
  ASSUME SInv, NEW h \in Helpers, Running(h), NEW t \in Jumps(Prog(h), run[h].pc), NEW mem, NEW w, NEW x,
         Continue(h, t, mem, w, x), Running(h)', NEW F \in Followers \cap Files, NEW s, s = Step(h)',
         Makes(s, F), s.op # "reload"
  PROVE  /\ t = run[h].pc + 1 /\ Step(h).op = "render" /\ Step(h).catch # 1
         /\ Step(h).f = F /\ Step(h).src = s.src
         /\ F \in DOMAIN mem => F \in DOMAIN run'[h].mem /\ run'[h].mem[F] = mem[F]
<1> DEFINE p == Prog(h)
           i == run[h].pc
           c == run[h].cmd
<1>1. /\ c \in Command /\ i \in 1..Len(p) /\ Step(h).next \in Nat \ {0} /\ Step(h).catch \in Nat
      /\ DOMAIN run[h] = DOMAIN Idle /\ Len(p) \in Nat /\ Step(h) = p[i]
  <2>1. c \in Command /\ DOMAIN run[h] = DOMAIN Idle
    BY DEF SInv, RunInv, RunOK
  <2> QED
    BY <2>1, AtStep, ProgramFacts DEF Prog, Step
<1>2. t \in Nat /\ i < t
  BY <1>1 DEF Jumps
<1>3. PICK m \in t..Len(p) :
        /\ Performed(p[m], mem) /\ \A k \in t..m - 1 : ~Performed(p[k], mem)
        /\ run'[h].cmd = c /\ run'[h].pc = m /\ run'[h].mem = Remembered(h, m, mem)
  <2>1. t \in Nat \ {0}
    BY <1>1, <1>2
  <2> QED
    BY <1>1, <2>1, GoesOn DEF Running
<1>4. s = p[m] /\ m \in 1..Len(p)
  BY <1>1, <1>2, <1>3 DEF Step, Prog
<1>5. Affects(p[m], F) /\ s.op \in {"save", "swap"} /\ s.f = F
  BY <1>4 DEF Affects, Makes, WriteOps, FilesOf
<1>6. Prepared(p, m)
  BY <1>1, <1>4, <1>5, Touching DEF Prog
<1>7. t = m
  <2> SUFFICES ASSUME t # m PROVE FALSE
    OBVIOUS
  <2>1. m - 1 \in t..m - 1
    BY <1>2, <1>3
  <2>2. Performed(p[m - 1], mem) <=> Performed(p[m], mem)
    BY <1>6 DEF Prepared, Performed
  <2> QED
    BY <1>3, <2>1, <2>2
<1>8. i = m - 1
  <2>1. i \notin 1..m - 2
    BY <1>6, <1>7 DEF Prepared
  <2> QED
    BY <1>1, <1>2, <1>3, <1>7, <2>1
<1>9. F \in Wanted[c][m]
  <2>1. m \in m..Len(Program[c]) /\ m \in 1..Len(Program[c])
    BY <1>1, <1>4 DEF Prog
  <2> QED
    BY <1>1, <1>4, <1>5, <2>1, Wants DEF Prog
<1>10. F \in DOMAIN mem => F \in DOMAIN run'[h].mem /\ run'[h].mem[F] = mem[F]
  BY <1>3, <1>9 DEF Remembered
<1> QED
  BY <1>1, <1>2, <1>4, <1>5, <1>6, <1>7, <1>8, <1>10 DEF Prepared

\* Any step of h but the one that computes a file leads elsewhere.
LEMMA ArrivesUnmade ==
  ASSUME SInv, NEW h \in Helpers, Running(h), NEW t \in Jumps(Prog(h), run[h].pc), NEW mem, NEW w, NEW x,
         Continue(h, t, mem, w, x), Step(h).op # "render" \/ t = run[h].pc + Step(h).catch
  PROVE  Running(h)' => PreparedOK(h)'
<1> SUFFICES ASSUME Running(h)', NEW F \in Followers \cap Files, NEW s, s = Step(h)', Makes(s, F), s.op # "reload"
             PROVE  FALSE
  BY DEF PreparedOK
<1>1. t = run[h].pc + 1 /\ Step(h).op = "render" /\ Step(h).catch # 1
  BY Arrives
<1>2. run[h].pc \in Nat /\ Step(h).catch \in Nat
  BY AtStep
<1> QED
  BY <1>1, <1>2

\* The step that computes a file computes what it is to hold.
LEMMA RenderPrepares ==
  ASSUME SInv, NEW h \in Helpers, RenderFile(h)
  PROVE  Running(h)' => PreparedOK(h)'
<1> SUFFICES ASSUME Running(h)', NEW F \in Followers \cap Files, NEW s, s = Step(h)', Makes(s, F), s.op # "reload"
             PROVE  F \in DOMAIN run'[h].mem /\ Fresh(run[h].mem[F], F, s.src)'
  BY DEF PreparedOK
<1>1. Running(h) /\ UNCHANGED <<disk, torn>>
  BY DEF RenderFile, At
<1> DEFINE val == IF Step(h).op = "copy" THEN UNION {Seen[g] : g \in Step(h).src}
                  ELSE Derived(Step(h).f, Step(h).src, Seen)
           copy == Copied(val, Step(h).src, Step(h).src \cap torn # {})
           mem == Taken(run[h].mem, Step(h).f, copy)
<1>2. PICK w : w = {} /\ Continue(h, run[h].pc + Step(h).next, mem, w, excused)
  BY DEF RenderFile, Onward
<1>3. /\ run[h].pc + Step(h).next \in Jumps(Prog(h), run[h].pc) /\ Step(h).src \subseteq Files
  BY <1>1, AtStep
<1> HIDE DEF mem
<1>4. /\ Step(h).op = "render" /\ Step(h).f = F /\ Step(h).src = s.src
      /\ F \in DOMAIN mem => F \in DOMAIN run'[h].mem /\ run'[h].mem[F] = mem[F]
  BY <1>1, <1>2, <1>3, Arrives
<1>5. F \in DOMAIN mem /\ mem[F] = copy
  <2> HIDE DEF copy
  <2>1. Step(h).f \in DOMAIN mem /\ mem[Step(h).f] = copy
    BY DEF mem, Taken
  <2> QED
    BY <1>4, <2>1
<1>6. PICK src : src = s.src
  OBVIOUS
<1>7. src \in Origins(F) /\ src \subseteq Files
  BY <1>3, <1>4, <1>6 DEF Makes
<1>8. copy = Copied(Derived(F, src, Seen), src, src \cap torn # {})
  BY <1>4, <1>6
<1>9. PICK k : k = copy
  OBVIOUS
<1>10. k.src = src /\ (k.old <=> src \cap torn # {}) /\ k.val = Derived(F, src, Seen)
  BY <1>8, <1>9 DEF Copied
<1>11. run'[h].mem[F] = k /\ F \in DOMAIN run'[h].mem
  BY <1>4, <1>5, <1>9
<1>12. ASSUME ~k.old PROVE src \cap torn' = {} /\ k.val = Derived(F, src, disk')
  <2>1. src \cap torn = {}
    BY <1>10, <1>12
  <2>2. \A S \in src : Seen[S] = disk'[S]
    BY <1>1, <1>7, <2>1 DEF Seen
  <2>3. Derived(F, src, Seen) = Derived(F, src, disk')
    BY <1>7, <2>2, SameSources
  <2> QED
    BY <1>1, <1>10, <2>1, <2>3
<1> QED
  BY <1>6, <1>10, <1>11, <1>12 DEF Fresh

\* The others' copies are as good as before, or known to be old.
LEMMA OthersPrepared ==
  ASSUME SInv, NEW h \in Helpers, NEW w, Acting(h, w), NEW g \in Helpers \ {h}, Running(g), PreparedOK(g)
  PROVE  PreparedOK(g)'
<1>1. Told(g, w) /\ Step(g)' = Step(g)
  BY Remains DEF Acting
<1>2. PICK s : s = Step(g)
  OBVIOUS
<1> SUFFICES ASSUME NEW F \in Followers \cap Files, Makes(s, F), s.op # "reload"
             PROVE  F \in DOMAIN run'[g].mem /\ Fresh(run[g].mem[F], F, s.src)'
  BY <1>1, <1>2 DEF PreparedOK
<1>3. PICK src : src = s.src
  OBVIOUS
<1>4. src \in Origins(F) /\ src \subseteq Files
  BY <1>2, <1>3, AtStep DEF Makes
<1>5. F \in DOMAIN run[g].mem /\ Fresh(run[g].mem[F], F, src)
  BY <1>2, <1>3 DEF PreparedOK
<1>6. DOMAIN run[g] = DOMAIN Idle /\ \A k \in DOMAIN run[g].mem : DOMAIN run[g].mem[k] = DOMAIN None(k)
  BY AtStep DEF SInv, RunInv, RunOK, CopiesOfFiles
<1>7. /\ SameRun(run[g], run'[g])
      /\ \A f \in DOMAIN run[g].mem : ~run'[g].mem[f].old => ~run[g].mem[f].old /\ run[g].mem[f].src \cap w = {}
  BY <1>1, <1>6, Hears
<1>8. PICK k, l : k = run[g].mem[F] /\ l = run'[g].mem[F]
  OBVIOUS
<1>9. /\ F \in DOMAIN run'[g].mem /\ l.val = k.val /\ l.src = k.src
      /\ ~l.old => ~k.old /\ k.src \cap w = {}
  BY <1>5, <1>7, <1>8 DEF SameRun
<1>10. k.src = src /\ (~k.old => src \cap torn = {} /\ k.val = Derived(F, src, disk))
  BY <1>5, <1>8 DEF Fresh
<1>11. ASSUME ~l.old PROVE src \cap torn' = {} /\ l.val = Derived(F, src, disk')
  <2>1. \A S \in src : disk'[S] = disk[S] /\ S \notin torn'
    BY <1>4, <1>9, <1>10, <1>11 DEF Acting, OnlyIn
  <2>2. Derived(F, src, disk') = Derived(F, src, disk)
    BY <1>4, <2>1, SameSources
  <2> QED
    BY <1>9, <1>10, <1>11, <2>1, <2>2
<1> QED
  BY <1>3, <1>8, <1>9, <1>10, <1>11 DEF Fresh

\* Every step of h.
LEMMA PreparedKeeps ==
  ASSUME SInv, PreparedInv, NEW h \in Helpers, NEW w, Acting(h, w),
         (\E c \in Command : Start(h, c)) \/ Proceed(h) \/ FailStep(h) \/ Kill(h)
  PROVE  PreparedInv'
<1>1. ASSUME NEW g \in Helpers \ {h}, Running(g)' PROVE PreparedOK(g)'
  <2>1. Told(g, w)
    BY DEF Acting
  <2>2. Running(g)
    BY <1>1, <2>1, WasRunning
  <2>3. PreparedOK(g)
    BY <2>2 DEF PreparedInv
  <2> QED
    BY <2>2, <2>3, OthersPrepared
<1>2. ASSUME Running(h)' PROVE PreparedOK(h)'
  <2>1. CASE \E c \in Command : Start(h, c)
    <3>1. PICK c \in Command : Start(h, c)
      BY <2>1
    <3> DEFINE r == [Idle EXCEPT !.cmd = c, !.nr = started + 1, !.pc = Landing(Program[c], 1, <<>>),
                                 !.out = LoggedOutOnFile(c)]
    <3>2. run'[h] = r
      BY <3>1 DEF Start, SInv, RunInv
    <3>3. r.cmd = c /\ r.pc = 1
      BY LandsFirst DEF Idle
    <3> HIDE DEF r
    <3>4. Step(h)' = Program[c][1]
      BY <3>2, <3>3 DEF Step, Prog
    <3>5. 1 \in 1..Len(Program[c])
      BY ProgramFacts
    <3>6. ASSUME NEW F \in Followers \cap Files, Makes(Program[c][1], F), Program[c][1].op # "reload" PROVE FALSE
      <4>1. Affects(Program[c][1], F)
        BY <3>6 DEF Affects, Makes, WriteOps, FilesOf
      <4>2. Prepared(Program[c], 1)
        BY <3>5, <3>6, <4>1, Touching
      <4> QED
        BY <4>2 DEF Prepared
    <3> QED
      BY <3>4, <3>6 DEF PreparedOK
  <2>2. CASE RenderFile(h)
    BY <1>2, <2>2, RenderPrepares
  <2>3. ASSUME NEW t \in Jumps(Prog(h), run[h].pc), NEW mem, NEW x, NEW none, none = {},
               Continue(h, t, mem, none, x), Running(h), Step(h).op # "render"
        PROVE  PreparedOK(h)'
    BY <1>2, <2>3, ArrivesUnmade
  <2>4. CASE ResolveDomainUser(h) \/ RunProgram(h) \/ ReadFile(h) \/ StripConflicts(h)
    <3>1. Running(h) /\ Step(h).op # "render" /\ (StripConflicts(h) => Step(h).op = "strip")
      BY <2>4 DEF ResolveDomainUser, RunProgram, ReadFile, Reads, StripConflicts, At
    <3>2. PICK none : none = {}
      OBVIOUS
    <3>3. CASE StripConflicts(h)
      <4>1. {run[h].pc + 1, run[h].pc + 2} \subseteq Jumps(Prog(h), run[h].pc)
        BY <3>1, <3>3 DEF Jumps, Step
      <4>2. \E t \in {run[h].pc + 1, run[h].pc + 2} : \E mem : Continue(h, t, mem, none, excused)
        BY <3>2, <3>3 DEF StripConflicts
      <4> QED
        BY <2>3, <3>1, <3>2, <4>1, <4>2
    <3>4. CASE ResolveDomainUser(h) \/ RunProgram(h) \/ ReadFile(h)
      <4>1. run[h].pc + Step(h).next \in Jumps(Prog(h), run[h].pc)
        BY <3>1, AtStep
      <4>2. \E mem : Continue(h, run[h].pc + Step(h).next, mem, none, excused)
        BY <3>2, <3>4 DEF ResolveDomainUser, RunProgram, ReadFile, Onward
      <4> QED
        BY <2>3, <3>1, <3>2, <4>1, <4>2
    <3> QED
      BY <2>4, <3>3, <3>4
  <2>5. CASE OpenFile(h)
    <3> DEFINE r == [run[h] EXCEPT !.open = "mine", !.wrote = TRUE]
    <3>1. /\ Running(h) /\ run'[h] = r /\ disk' = disk /\ torn' = torn \cup {Step(h).f}
          /\ DOMAIN run[h] = DOMAIN Idle
      BY <2>5 DEF OpenFile, At, SInv, RunInv, RunOK
    <3>2. r.cmd = run[h].cmd /\ r.pc = run[h].pc /\ r.mem = run[h].mem
      BY <3>1 DEF Idle
    <3> HIDE DEF r
    <3>3. Step(h)' = Step(h) /\ PreparedOK(h)
      BY <3>1, <3>2 DEF Step, Prog, PreparedInv
    <3>4. ASSUME NEW F \in Followers \cap Files, Makes(Step(h), F), Step(h).op # "reload"
          PROVE  F \in DOMAIN run'[h].mem /\ Fresh(run[h].mem[F], F, Step(h).src)'
      <4>1. PICK src : src = Step(h).src
        OBVIOUS
      <4>2. F \in DOMAIN run[h].mem /\ Fresh(run[h].mem[F], F, src)
        BY <3>3, <3>4, <4>1 DEF PreparedOK
      <4>3. Step(h).f = F /\ F \notin src
        BY <3>4, <4>1, SourcesApart DEF Makes
      <4>4. src \cap torn = {} => src \cap torn' = {}
        BY <3>1, <4>3
      <4>5. Step(h).src' = src /\ run'[h].mem = run[h].mem
        BY <3>1, <3>2, <3>3, <4>1
      <4> QED
        BY <3>1, <4>2, <4>4, <4>5 DEF Fresh
    <3> QED
      BY <3>3, <3>4 DEF PreparedOK
  <2>6. CASE WriteFile(h) \/ ChangeInOnePiece(h) \/ ReloadService(h)
    <3> DEFINE v == FilesOf(Step(h))
    <3>1. Writing(h, v)
      BY <2>6, Writers
    <3> HIDE DEF v
    <3>2. PICK mem, x : Continue(h, run[h].pc + Step(h).next, mem, v, x)
      BY <3>1 DEF Writing
    <3>3. Running(h) /\ Step(h).op # "render" /\ run[h].pc + Step(h).next \in Jumps(Prog(h), run[h].pc)
      BY <3>1, AtStep DEF Writing, WriteOps
    <3> QED
      BY <1>2, <3>2, <3>3, ArrivesUnmade
  <2>7. CASE UnknownDomain(h) \/ NotAcceptable(h) \/ Kill(h)
    <3>1. Stop(h)
      BY <2>7 DEF UnknownDomain, NotAcceptable, Refuse, Kill
    <3> QED
      BY <1>2, <3>1 DEF Stop, Running, SInv, RunInv
  <2>8. CASE ExitNonzero(h) \/ FailStep(h)
    <3>1. GiveUp(h) /\ Running(h)
      BY <2>8 DEF ExitNonzero, Reads, At, FailStep, Troubled
    <3>2. CASE Step(h).catch > 0
      <4>1. PICK none : none = {}
        OBVIOUS
      <4>2. \E t, x : t = run[h].pc + Step(h).catch /\ Continue(h, t, run[h].mem, none, x)
        BY <3>1, <3>2, <4>1 DEF GiveUp
      <4>3. run[h].pc + Step(h).catch \in Jumps(Prog(h), run[h].pc)
        BY <3>1, <3>2, AtStep
      <4> QED
        BY <1>2, <3>1, <4>2, <4>3, ArrivesUnmade
    <3>3. CASE ~(Step(h).catch > 0)
      BY <1>2, <3>1, <3>3 DEF GiveUp, Stop, Running, SInv, RunInv
    <3> QED
      BY <3>2, <3>3
  <2> QED
    BY <2>1, <2>2, <2>4, <2>5, <2>6, <2>7, <2>8 DEF Proceed
<1> QED
  BY <1>1, <1>2 DEF PreparedInv

\* Nothing happens.
LEMMA StutterFollows ==
  ASSUME FInv, UNCHANGED vars
  PROVE  PreparedInv' /\ CrossedOldInv'
<1>1. disk' = disk /\ torn' = torn /\ run' = run
  BY DEF vars
<1>2. \A h : (Running(h)' <=> Running(h)) /\ Step(h)' = Step(h)
  BY <1>1 DEF Running, Step, Prog
<1>3. \A h : PreparedOK(h) => PreparedOK(h)'
  BY <1>1, <1>2 DEF PreparedOK, Fresh
<1> QED
  BY <1>1, <1>2, <1>3 DEF FInv, PreparedInv, CrossedOldInv

-----------------------------------------------------------------------------
(* In the beginning.                                                       *)

\* What a file is computed from at the beginning is one of its origins, and is
\* not itself computed.
LEMMA BasisOrigin ==
  ASSUME NEW F \in Followers, F # Served
  PROVE  /\ Basis(F) \in Origins(F) /\ F # Postfix
         /\ \A S \in Basis(F) : Basis(S) = {} /\ S # Served /\ S # Postfix
<1>1. ASSUME NEW S, S[1] \notin {"vhost", "php-fpm pool", "qadbak-virtual", "qadbak-domains", "crontab", "nginx", "postfix"}
      PROVE  Basis(S) = {} /\ S # Served /\ S # Postfix
  <2>1. S \notin {AliasMap, DomainMap, BackupCron, Served, Postfix}
    BY <1>1, Names
  <2> QED
    BY <1>1, <2>1 DEF Basis
<1>2. ASSUME NEW d \in Domains, F = Conf(d)
      PROVE  /\ Basis(F) \in Origins(F) /\ F # Postfix
             /\ \A S \in Basis(F) : Basis(S) = {} /\ S # Served /\ S # Postfix
  <2>1. /\ F[1] = "vhost" /\ F[2] = d /\ F \notin Pools /\ F # Postfix /\ F # Vmailbox
        /\ F \notin {AliasMap, DomainMap, BackupCron}
    BY <1>2, Names DEF Pools
  <2>2. Basis(F) = VhostSources(d)
    <3> DEFINE v == VhostSources(F[2])
    <3>1. v = VhostSources(d)
      BY <2>1
    <3> HIDE DEF v
    <3>2. Basis(F) = v
      BY <2>1 DEF Basis, v
    <3> QED
      BY <3>1, <3>2
  <2>3. ComputedFrom(F) = Basis(F)
    BY <2>1 DEF ComputedFrom
  <2>4. Origins(F) = {ComputedFrom(F)}
    BY <2>1 DEF Origins
  <2>5. \A S \in VhostSources(d) : S[1] \in {"redirects.json", "proxies.json", "website.json", "modsecurity.json", "letsencrypt"}
    <3>1. /\ Redirects(d)[1] = "redirects.json" /\ Proxies(d)[1] = "proxies.json" /\ Website(d)[1] = "website.json"
          /\ Modsecurity(d)[1] = "modsecurity.json" /\ Cert(d)[1] = "letsencrypt"
      BY Names
    <3>2. \A S \in VhostSources(d) : S \in {Redirects(d), Proxies(d), Website(d), Modsecurity(d), Cert(d)}
      BY DEF VhostSources
    <3> QED
      BY <3>1, <3>2
  <2> QED
    BY <1>1, <2>1, <2>2, <2>3, <2>4, <2>5
<1>3. ASSUME NEW d \in Domains, F = Pool(d)
      PROVE  /\ Basis(F) \in Origins(F) /\ F # Postfix
             /\ \A S \in Basis(F) : Basis(S) = {} /\ S # Served /\ S # Postfix
  <2> DEFINE e == Owner[d]
  <2>1. e \in Domains /\ Owner[e] = e
    BY DomainsAssumption
  <2> HIDE DEF e
  <2>2. /\ F[1] = "php-fpm pool" /\ F[2] = e /\ F \in Pools /\ F # Postfix
        /\ F \notin {AliasMap, DomainMap, BackupCron}
    BY <1>3, Names DEF Pools, e
  <2>3. Pool(e) = F
    BY <1>3, <2>1 DEF Pool, Cfg, e
  <2>4. Basis(F) = {Php(e)}
    <3> DEFINE v == {Php(F[2])}
    <3>1. v = {Php(e)}
      BY <2>2
    <3> HIDE DEF v
    <3>2. Basis(F) = v
      BY <2>2 DEF Basis, v
    <3> QED
      BY <3>1, <3>2
  <2>5. Origins(F) = {{Php(k)} : k \in {l \in Domains : Pool(l) = F}}
    BY <2>2 DEF Origins
  <2>6. Php(e)[1] = "php.json"
    BY <2>1, Names
  <2> QED
    BY <1>1, <2>1, <2>2, <2>3, <2>4, <2>5, <2>6
<1>4. CASE F = BackupCron \/ F = DomainMap
  <2>1. /\ F[1] \notin {"vhost", "php-fpm pool"} /\ F # Served /\ F # Vmailbox /\ F # AliasMap /\ F # Postfix
        /\ BackupCron # DomainMap /\ F \notin Pools
    <3>1. F[1] = "crontab" \/ F[1] = "qadbak-domains"
      BY <1>4, Names
    <3> QED
      BY <3>1, Names DEF Pools
  <2>2. ComputedFrom(F) = Basis(F) /\ Origins(F) = {ComputedFrom(F)}
    BY <2>1 DEF ComputedFrom, Origins
  <2>3. F = DomainMap => Basis(F) = {Registry}
    <3> HIDE DEF DomainMap
    <3> QED
      BY <2>1 DEF Basis
  <2>4. F = BackupCron => Basis(F) = CronSources
    BY <2>1 DEF Basis
  <2>5. \A S \in Basis(F) : S[1] \in {"native-domains.json", "backup-schedule.json"}
    <3>1. Registry[1] = "native-domains.json" /\ \A d \in Domains : Schedule(d)[1] = "backup-schedule.json"
      BY Names
    <3>2. \A S \in CronSources : S = Registry \/ \E d \in Domains : S = Schedule(d)
      BY DEF CronSources
    <3> QED
      BY <1>4, <2>3, <2>4, <3>1, <3>2
  <2> QED
    BY <1>1, <2>1, <2>2, <2>5
<1> QED
  BY <1>2, <1>3, <1>4 DEF Followers, Confs, Pools

\* Everything is computed from the files as they are.
LEMMA InitFollows ==
  ASSUME Init
  PROVE  FInv
<1> DEFINE given == [g \in Files |-> Source(g)]
           computed == [f \in Files |-> IF Basis(f) = {} THEN Source(f) ELSE Derived(f, Basis(f), given)]
<1>1. /\ disk = [f \in Files |-> CASE f = Served -> Loaded(computed)
                                   [] f = Postfix -> Tagged(computed, Maps \cap Files)
                                   [] OTHER -> computed[f]]
      /\ torn = {} /\ run = [h \in Helpers |-> Idle]
  BY DEF Init
<1>2. \A f \in Files : computed[f] = IF Basis(f) = {} THEN Source(f) ELSE Derived(f, Basis(f), given)
  OBVIOUS
<1>3. \A f \in Files : given[f] = Source(f)
  OBVIOUS
<1> HIDE DEF computed, given
<1>4. \A f \in Files : f # Served /\ f # Postfix => disk[f] = computed[f]
  BY <1>1
<1>5. Served \in Files => disk[Served] = Loaded(computed)
  <2>1. Served # Postfix
    BY Names
  <2> QED
    BY <1>1, <2>1
<1>6. \A h \in Helpers : ~Running(h)
  BY <1>1 DEF Running
<1>7. PreparedInv /\ CrossedOldInv
  BY <1>6 DEF PreparedInv, CrossedOldInv
<1>8. \A f \in Files : Seen[f] = disk[f]
  BY <1>1 DEF Seen
<1>9. ASSUME NEW F \in Followers \cap Files PROVE CurrentOrDue(F)
  <2>1. CASE F = Served
    <3> DEFINE src == {Linked} \cup {Conf(d) : d \in Domains}
    <3>1. ComputedFrom(F) = src
      BY <2>1, Zenon DEF ComputedFrom, Served, Vmailbox, Sys
    <3>2. src \subseteq Files /\ src \in Origins(F)
      BY <2>1, <3>1, FilesAssumption, ServedShowsAll DEF Origins, Picking
    <3>3. Linked \in Files /\ Linked # Served /\ Linked # Postfix
      BY <3>2, Names
    <3>4. \A d \in Domains : Conf(d) \in Files /\ Conf(d) # Served /\ Conf(d) # Postfix
      BY <3>2, Names
    <3>5. Seen[Linked] = computed[Linked] /\ \A d \in Domains : Seen[Conf(d)] = computed[Conf(d)]
      BY <1>4, <1>8, <3>3, <3>4
    <3>6. Loaded(Seen) = Loaded(computed)
      BY <3>5 DEF Loaded
    <3> HIDE DEF src
    <3>7. disk[F] = Derived(F, src, Seen)
      BY <1>5, <2>1, <3>6, Derivations
    <3> QED
      BY <2>1, <3>2, <3>7 DEF CurrentOrDue, Current
  <2>2. CASE F # Served
    <3>1. PICK src : src = Basis(F)
      OBVIOUS
    <3>2. src \in Origins(F) /\ F # Postfix /\ \A S \in src : Basis(S) = {} /\ S # Served /\ S # Postfix
      BY <2>2, <3>1, BasisOrigin
    <3>3. src # {} /\ src \subseteq Files
      BY <3>1, <3>2, SourcesApart, BasisFacts, FilesAssumption
    <3>4. disk[F] = Derived(F, src, given)
      BY <1>2, <1>4, <2>2, <3>1, <3>2, <3>3
    <3>5. \A S \in src : given[S] = disk[S]
      BY <1>2, <1>3, <1>4, <3>2, <3>3
    <3>6. Derived(F, src, given) = Derived(F, src, disk)
      BY <3>2, <3>5, SameSources
    <3> QED
      BY <1>1, <2>2, <3>2, <3>3, <3>4, <3>6 DEF CurrentOrDue, Current
  <2> QED
    BY <2>1, <2>2
<1> QED
  BY <1>7, <1>9 DEF FInv, FollowInv

-----------------------------------------------------------------------------
(* The theorems.                                                           *)

\* Every step of every process keeps the invariant.
LEMMA FollowerSteps ==
  ASSUME SInv, FInv, [Next]_vars
  PROVE  FInv'
<1>1. FollowInv'
  BY FollowKeeps
<1>2. CASE UNCHANGED vars
  BY <1>1, <1>2, StutterFollows DEF FInv
<1>3. CASE Next
  <2>1. PICK h \in Helpers : (\E c \in Command : Start(h, c)) \/ Proceed(h) \/ FailStep(h) \/ Kill(h)
    BY <1>3 DEF Next
  <2>2. PICK w : Acting(h, w)
    BY <2>1, Acts
  <2>3. PreparedInv /\ CrossedOldInv
    BY DEF FInv
  <2>4. PreparedInv' /\ CrossedOldInv'
    BY <2>1, <2>2, <2>3, PreparedKeeps, CrossedKeeps
  <2> QED
    BY <1>1, <2>4 DEF FInv
<1> QED
  BY <1>2, <1>3

\* At every moment, each vhost file, each pool, the crontab of the panel, the list
\* of mail domains and what nginx serves are what the files say, or a process is
\* at work that computes them again, or an overlap, a failure or a kill is noted.
THEOREM FollowersCurrentOrDue == Spec => []FInv
<1>1. Init => FInv
  BY InitFollows
<1>2. SInv /\ SInv' /\ FInv /\ [Next]_vars => FInv'
  BY FollowerSteps
<1> QED
  BY <1>1, <1>2, CopiesAreCurrent, PTL DEF Spec

\* With no process at work, nothing is due and no file is open.
LEMMA QuietCurrent ==
  ASSUME FInv, Quiet, NEW F \in Followers, Whole(F)
  PROVE  \E src \in Origins(F) : /\ src \subseteq Files
                                 /\ src \cap excused # {} \/ disk[F] = Derived(F, src, Seen)
<1>1. CurrentOrDue(F)
  BY DEF FInv, FollowInv, Whole
<1>2. \A h \in Helpers : ~Due(h, F)
  BY DEF Quiet, Due
<1>3. PICK src \in Origins(F) : src \subseteq Files /\ Current(F, src)
  BY <1>1, <1>2 DEF CurrentOrDue, Whole
<1>4. CASE F = Served
  BY <1>3, <1>4 DEF Current
<1>5. CASE F # Served /\ src \cap excused # {}
  BY <1>3, <1>5
<1>6. CASE F # Served /\ src \cap excused = {}
  <2>1. disk[F] = Derived(F, src, disk) /\ \A S \in src \cap torn : Opened(S, F)
    BY <1>3, <1>6 DEF Current
  <2>2. src \cap torn = {}
    BY <2>1 DEF Opened, Quiet
  <2>3. \A S \in src : Seen[S] = disk[S]
    BY <1>3, <2>2 DEF Seen
  <2>4. Derived(F, src, Seen) = Derived(F, src, disk)
    BY <2>3, SameSources
  <2> QED
    BY <1>3, <2>1, <2>4
<1> QED
  BY <1>4, <1>5, <1>6

\* The panel's crontab follows the registry and the schedules.
THEOREM CronFollows == Spec => []CronIsCurrent
<1>1. FInv => CronIsCurrent
  <2> SUFFICES ASSUME FInv, Quiet, Sound(BackupCron) PROVE disk[BackupCron] = CronLines(Seen)
    BY DEF CronIsCurrent
  <2>1. BackupCron \in Followers /\ Whole(BackupCron) /\ BackupCron # Served
    BY Names DEF Followers, Sound
  <2>2. PICK src \in Origins(BackupCron) : src \cap excused # {} \/ disk[BackupCron] = Derived(BackupCron, src, Seen)
    BY <2>1, QuietCurrent
  <2>3. src = Basis(BackupCron)
    <3>1. Basis(BackupCron) \in Origins(BackupCron) /\ BackupCron \notin Pools
      BY <2>1, BasisOrigin, Names DEF Pools
    <3>2. Origins(BackupCron) = {ComputedFrom(BackupCron)}
      BY <3>1 DEF Origins
    <3> QED
      BY <2>2, <3>1, <3>2
  <2>4. src \cap excused = {}
    BY <2>3 DEF Sound
  <2> QED
    BY <2>2, <2>4, Derivations
<1> QED
  BY <1>1, FollowersCurrentOrDue, PTL

\* Vhost files follow the domain's JSON files, a pool the settings of one of its
\* domains, and nginx serves the linked vhosts as they are.
THEOREM ServedFollows == Spec => []ServedIsCurrent
<1>1. FInv => ServedIsCurrent
  <2> SUFFICES ASSUME FInv, Quiet
               PROVE  /\ \A d \in Domains : Sound(Conf(d)) /\ Row(d) \in disk[Linked] =>
                            disk[Conf(d)] = Derived(Conf(d), VhostSources(d), Seen)
                      /\ \A d \in Domains : Whole(Pool(d)) =>
                            \E e \in Domains : /\ Pool(e) = Pool(d)
                                               /\ Php(e) \in excused \/ disk[Pool(d)] = Derived(Pool(d), {Php(e)}, Seen)
                      /\ Whole(Served) => disk[Served] = Loaded(Seen)
    BY DEF ServedIsCurrent
  <2>1. ASSUME NEW d \in Domains, Sound(Conf(d)) PROVE disk[Conf(d)] = Derived(Conf(d), VhostSources(d), Seen)
    <3>1. PICK F : F = Conf(d)
      OBVIOUS
    <3>2. F \in Followers /\ Whole(F) /\ F # Served /\ F \notin Pools
      BY <2>1, <3>1, Names DEF Followers, Confs, Sound, Pools
    <3>3. PICK src \in Origins(F) : src \cap excused # {} \/ disk[F] = Derived(F, src, Seen)
      BY <3>2, QuietCurrent
    <3>4. src = Basis(F)
      BY <3>2, <3>3, BasisOrigin DEF Origins
    <3>5. src = VhostSources(d)
      <4>1. ASSUME NEW e \in Domains, F = Conf(e) PROVE e = d
        <5>1. Conf(d)[2] = d /\ Conf(e)[2] = e
          BY Names
        <5> QED
          BY <3>1, <4>1, <5>1
      <4>2. F # BackupCron /\ F # DomainMap /\ \A e \in Domains : F # Pool(e)
        BY <3>1, Names
      <4> QED
        BY <3>2, <3>3, <4>1, <4>2, Kinds
    <3>6. src \cap excused = {}
      BY <2>1, <3>1, <3>4 DEF Sound
    <3> QED
      BY <3>1, <3>3, <3>5, <3>6
  <2>2. ASSUME NEW d \in Domains, Whole(Pool(d))
        PROVE  \E e \in Domains : /\ Pool(e) = Pool(d)
                                  /\ Php(e) \in excused \/ disk[Pool(d)] = Derived(Pool(d), {Php(e)}, Seen)
    <3>1. PICK F : F = Pool(d)
      OBVIOUS
    <3>2. F \in Followers /\ Whole(F) /\ F \in Pools
      BY <2>2, <3>1 DEF Followers, Pools
    <3>3. PICK src \in Origins(F) : src \cap excused # {} \/ disk[F] = Derived(F, src, Seen)
      BY <3>2, QuietCurrent
    <3>4. PICK e \in Domains : Pool(e) = F /\ src = {Php(e)}
      BY <3>2, <3>3 DEF Origins
    <3> QED
      BY <3>1, <3>3, <3>4
  <2>3. ASSUME Whole(Served) PROVE disk[Served] = Loaded(Seen)
    <3>1. PICK src \in Origins(Served) : CurrentOrDue(Served) => disk[Served] = Derived(Served, src, Seen)
      <4>1. Served \in Followers \cap Files /\ \A h \in Helpers : ~Due(h, Served)
        BY <2>3 DEF Followers, Whole, Quiet, Due
      <4>2. CurrentOrDue(Served)
        BY <4>1 DEF FInv, FollowInv
      <4> QED
        BY <2>3, <4>1, <4>2 DEF CurrentOrDue, Current, Whole
    <3>2. CurrentOrDue(Served)
      BY <2>3 DEF FInv, FollowInv, Followers, Whole
    <3> QED
      BY <3>1, <3>2, Derivations
  <2> QED
    BY <2>1, <2>2, <2>3
<1> QED
  BY <1>1, FollowersCurrentOrDue, PTL
=============================================================================
