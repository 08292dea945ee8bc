-------------------------------- MODULE Steps --------------------------------
(***************************************************************************)
(* The steps one command of scripts/provisioning-helper.mjs is made of.    *)
(* Every panel operation on a domain starts one such process; the process  *)
(* reads JSON files and maps whole, changes the copy and writes it back    *)
(* whole, calls a few programs (useradd, crontab, nginx), and prints an    *)
(* answer.  No step takes a lock.  A command is therefore a sequence of    *)
(* step records, composed here, written out in ProvisionSites,             *)
(* ProvisionMail, ProvisionBackup, ProvisionHosts and ProvisionStores, and *)
(* run by StepRun.                                                         *)
(*                                                                         *)
(* The contents of a file are a set of things: an item, a domain's row, a  *)
(* version.  A file is <<name, domain>>; a file of the host is             *)
(* <<name, Host>>.                                                         *)
(***************************************************************************)
EXTENDS Naturals, Sequences, FiniteSets, TLC

CONSTANTS
    Domains,       \* the domains the instance uses
    Items,         \* a path, an address, a user name, a version, an id
    Host,          \* second component of a host-wide file
    Owner,         \* the domain whose unix user serves a domain
    AliasDomains   \* domains of type "alias"

ASSUME DomainsAssumption == /\ IsFiniteSet(Domains) /\ IsFiniteSet(Items)
                            /\ Owner \in [Domains -> Domains]
                            /\ \A d \in Domains : Owner[Owner[d]] = Owner[d]
                            /\ AliasDomains \subseteq Domains
                            /\ Host \notin Domains

\* data/domain-config/DOMAIN/NAME, and a file or table of the whole host.
Cfg(name, d) == <<name, d>>
Sys(name) == <<name, Host>>

Registry == Sys("native-domains.json")
Passwd == Sys("passwd")

\* A row of the registry, and its "disabled" mark.
Row(d) == <<"row", d>>
Off(d) == <<"disabled", d>>
User(d) == <<"user", Owner[d]>>

Blank ==
  [op |-> "run", f |-> Registry, d |-> Host, src |-> {}, add |-> {}, del |-> {},
   need |-> {}, bar |-> {}, has |-> {}, lacks |-> {}, hard |-> FALSE,
   next |-> 1, catch |-> 0]

-----------------------------------------------------------------------------
(* Single steps.  catch = 0: a failure ends the command with ok = false.   *)

\* resolveDomainUser: the registry row, or a home directory of that name.
Resolve(d) == <<[Blank EXCEPT !.op = "resolve", !.d = d, !.hard = TRUE]>>

\* readDomainConfigJson, loadRegistry, readMapFile: an unreadable file counts
\* as empty.  The command calls fail() when an entry it needs is missing or
\* one it is about to add is there.
Look(f, need, bar) ==
  <<[Blank EXCEPT !.op = "read", !.f = f, !.need = need, !.bar = bar, !.hard = TRUE]>>
Read(f) == Look(f, {}, {})

\* The same, where a file that does not parse is an error.
Parse(f, need, bar) ==
  <<[Blank EXCEPT !.op = "parse", !.f = f, !.need = need, !.bar = bar, !.hard = TRUE]>>

\* fail(), wherever the command gets here.
Refusal == [Blank EXCEPT !.op = "read", !.f = Sys("nothing"), !.need = {Sys("anything")}, !.hard = TRUE]

\* writeDomainConfigJson, saveRegistry: writeFile truncates, then writes the
\* copy this process holds.
Save(f, add, del) ==
  <<[Blank EXCEPT !.op = "save", !.f = f, !.src = {f}, !.add = add, !.del = del]>>

Edit(f, add, del) == Read(f) \o Save(f, add, del)

\* A list that refuses what it has already.
AddNew(f, x) == Look(f, {}, {x}) \o Save(f, {x}, {})

\* The same from the request alone: what was on file is replaced.
Rewrite(f, add) == <<[Blank EXCEPT !.op = "save", !.f = f, !.add = add]>>

\* A file computed from others (their current contents) and written whole.
Render(f, from) ==
  <<[Blank EXCEPT !.op = "render", !.f = f, !.src = from],
    [Blank EXCEPT !.op = "save", !.f = f, !.src = from]>>

\* The same, installed in one piece (crontab FILE), and the copy read last.
RenderWhole(f, from) ==
  <<[Blank EXCEPT !.op = "render", !.f = f, !.src = from],
    [Blank EXCEPT !.op = "swap", !.f = f, !.src = from]>>

EditWhole(f, add, del) ==
  <<[Blank EXCEPT !.op = "swap", !.f = f, !.src = {f}, !.add = add, !.del = del]>>

\* A copy of another file (cp, tar).
Copy(f, g) ==
  <<[Blank EXCEPT !.op = "copy", !.f = g, !.src = {f}],
    [Blank EXCEPT !.op = "save", !.f = g, !.src = {f}]>>

\* A change another program makes in one piece: useradd, userdel, htpasswd, SQL.
Outside(f, add, del) == <<[Blank EXCEPT !.op = "put", !.f = f, !.add = add, !.del = del]>>

\* rm -rf of a directory: its files, one name each.
Wipe(files) == <<[Blank EXCEPT !.op = "wipe", !.src = files]>>

\* A call that changes nothing modelled here but may fail.
Try == <<Blank>>

\* nginx -t && systemctl reload nginx: loads every enabled vhost file.
Served == Sys("nginx")
Conf(d) == Cfg("vhost", d)
Linked == Sys("sites-enabled")
Reload == <<[Blank EXCEPT !.op = "reload", !.f = Served,
                          !.src = {Linked} \cup {Conf(d) : d \in Domains}]>>

\* postmap of the maps, then postfix reload.
Postmap(maps) == <<[Blank EXCEPT !.op = "reload", !.f = Sys("postfix"), !.src = maps]>>

-----------------------------------------------------------------------------
(* Control.                                                                *)

\* steps performed only if what was read has, or lacks, a thing.
When(steps, f, x) ==
  [i \in DOMAIN steps |-> [steps[i] EXCEPT !.has = @ \cup {<<f, x>>}]]
Unless(steps, f, x) ==
  [i \in DOMAIN steps |-> [steps[i] EXCEPT !.lacks = @ \cup {<<f, x>>}]]

\* if (...) return, before the rest of a function; continue, in a loop.
Skip(steps) == <<[Blank EXCEPT !.op = "read", !.f = Sys("nothing"), !.hard = TRUE, !.next = Len(steps) + 1]>>
UnlessFound(steps, f, x) == When(Skip(steps), f, x) \o steps
IfFound(steps, f, x) == Unless(Skip(steps), f, x) \o steps

\* The rows of the registry a loop runs over, read before it begins.
Rows == Sys("rows")
ReadRows == <<[Blank EXCEPT !.op = "copy", !.f = Rows, !.src = {Registry}]>>

\* try { steps } catch {}: the rest of the block is skipped.  fail() is
\* process.exit and is not caught.
Caught(steps) ==
  [i \in DOMAIN steps |->
     IF steps[i].hard \/ steps[i].catch > 0 THEN steps[i]
     ELSE [steps[i] EXCEPT !.catch = Len(steps) - i + 1]]

\* try { steps } catch (e) { handler; throw e }
Handled(steps, handler) ==
  LET n == Len(steps)
      over == [i \in 1..n |-> IF i = n THEN Len(handler) + 2 ELSE steps[i].next]
  IN  [i \in 1..n |->
         IF steps[i].hard \/ steps[i].catch > 0 THEN [steps[i] EXCEPT !.next = over[i]]
         ELSE [steps[i] EXCEPT !.catch = n - i + 1, !.next = over[i]]]
      \o handler \o <<[Blank EXCEPT !.op = "throw"]>>

\* A script run by bash: its own refusals are exit codes the caller may catch.
Script(steps) == [i \in DOMAIN steps |-> [steps[i] EXCEPT !.hard = FALSE]]

-----------------------------------------------------------------------------
(* Commands by name: the cases of the dispatcher.                          *)

ForItem(name, Prog(_, _)) == [c \in {name} \X Domains \X Items |-> Prog(c[2], c[3])]
ForDomain(name, Prog(_)) == [c \in {name} \X Domains \X {Host} |-> Prog(c[2])]
ForHost(name, Prog(_)) == [c \in {name} \X {Host} \X Items |-> Prog(c[3])]

\* The files a command writes, and all it looks at.
WriteOps == {"save", "swap", "put", "wipe", "unpack", "reload"}
FilesOf(s) == IF s.op \in {"wipe", "unpack"} THEN s.src ELSE {s.f}
Writes(prog) == UNION {FilesOf(prog[i]) : i \in {j \in DOMAIN prog : prog[j].op \in WriteOps}}
Uses(prog) == UNION {FilesOf(prog[i]) \cup prog[i].src : i \in DOMAIN prog}

\* Files an unconditional step from i on writes that no step leads past.
Surely(prog, i) ==
  UNION {FilesOf(prog[j]) :
           j \in {k \in i..Len(prog) : /\ prog[k].op \in WriteOps /\ prog[k].has = {} /\ prog[k].lacks = {}
                                       /\ \A m \in i..k - 1 : m + prog[m].next <= k}}

-----------------------------------------------------------------------------
(* What the programs of all tables have in common.                         *)

WellFormed(prog) ==
  /\ prog \in Seq({prog[i] : i \in DOMAIN prog}) /\ prog # <<>> /\ prog[1].has = {}
  /\ \A i \in DOMAIN prog :
       /\ prog[i].next \in Nat \ {0} /\ prog[i].catch \in Nat
       /\ IsFiniteSet(prog[i].src) /\ IsFiniteSet(prog[i].add)

\* Where step k may go on, performed or failed.
Jumps(prog, k) ==
  {k + prog[k].next}
    \cup (IF prog[k].catch > 0 THEN {k + prog[k].catch} ELSE {})
    \cup (IF prog[k].op = "strip" THEN {k + 1, k + 2} ELSE {})

\* What a step asks of the copies, and the files those are copies of.
Asks(s, t) == s.has \subseteq t.has /\ s.lacks \subseteq t.lacks
AskedOf(s) == {t[1] : t \in s.has \cup s.lacks}

\* Steps that take a copy, change the copy they take of another file, or change
\* a file without looking at a copy.
Reading == {"read", "parse"}
Copying == Reading \cup {"render", "copy", "strip", "save"}
Blind == {"render", "copy", "strip"} \cup (WriteOps \ {"save"})

\* Step i writes back the copy step j has read: no way to i leads past j; j is
\* performed whenever i is; in between the copy is what the file holds.
ReadFor(prog, j, i) ==
  LET f == prog[i].f
  IN  /\ prog[j].op \in Reading /\ prog[j].f = f /\ Asks(prog[j], prog[i])
      /\ \A k \in 1..j - 1 : \A t \in Jumps(prog, k) : t \notin j + 1..i
      /\ \/ prog[j].op = "read" /\ prog[j].need = {} /\ prog[j].bar = {}
         \/ prog[j].catch = 0 \/ j + prog[j].catch > i
      /\ \A k \in j + 1..i - 1 :
           /\ prog[k].op \in Blind => f \notin FilesOf(prog[k])
           /\ prog[k].op = "read" /\ prog[k].f = f => prog[j].op = "read"
           /\ prog[k].op \in Copying /\ prog[k].f \in AskedOf(prog[j]) => Asks(prog[j], prog[k])

\* Step k asks for what is nowhere: a process that is past it, at a step up to i,
\* has not performed it, and its copies are still those that said so.
Impassable(s) == s.op = "read" /\ s.f = Sys("nothing") /\ s.need = {Sys("anything")} /\ (s.hard \/ s.catch = 0)
Bars(prog, k, i) ==
  /\ Impassable(prog[k])
  /\ AskedOf(prog[k]) \subseteq IF prog[i].op \in {"save", "swap"} THEN {prog[i].f} ELSE {}
  /\ \A j \in 1..k - 1 : \A t \in Jumps(prog, j) : t \notin k + 1..i
  /\ \A j \in k + 1..i - 1 : prog[j].op \in Copying => prog[j].f \notin AskedOf(prog[k])

WritesBack(s) == s.op \in {"save", "swap"} /\ s.src = {s.f}
ReadsFirst(prog) ==
  \A i \in DOMAIN prog : WritesBack(prog[i]) => \E j \in 1..i - 1 : ReadFor(prog, j, i)
=============================================================================
