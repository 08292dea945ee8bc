------------------------------- MODULE StepRun -------------------------------
(***************************************************************************)
(* Helpers and requests at work.  The panel starts one process per         *)
(* provisioning command (native-exec.ts) and does not wait for the others; *)
(* a process, or the handler of a request that calls helpers in turn, runs *)
(* its program step by step, on copies of the files it has read, and may   *)
(* be killed at any point (the 600 s timeout, a restart of the host) or    *)
(* meet a failure of the program it calls or of the disk.                  *)
(*                                                                         *)
(*   disk     contents of every file and table                            *)
(*   torn     files truncated by a writer that has not written them yet    *)
(*   run      per process: command and its number, next step, copies of     *)
(*            files, whether its file is open, whether it has written, and  *)
(*            whether its user was logged out on file when it started       *)
(*                                                                         *)
(* The rest records what happened, for the properties: excused holds the   *)
(* files an overlap, a failure or a kill may have left behind, crossed the *)
(* pairs of files two processes changed at the same time.                  *)
(***************************************************************************)
EXTENDS HostRoutes

CONSTANTS
    Helpers,      \* process slots
    Hosted,       \* domains on the server at the beginning
    Present,      \* what is in each of their files then
    Asked,        \* commands and requests the instance starts
    Program,      \* the program of each, ProgramsAsked: as a constant, TLC's coverage
                  \* report does not unfold the tables at every use
    MaxCommands,  \* commands started
    MaxTrouble    \* failures of a step, and processes killed

VARIABLES disk, torn, run, excused, crossed, refused, touched, started, trouble

vars == <<disk, torn, run, excused, crossed, refused, touched, started, trouble>>

\* A helper command <<name, domain, item>> of the dispatcher, or a request
\* <<route, method, session, domain, item>> of the panel.
IsRequest(c) == Len(c) = 5

\* <<>> @@: so that TLC evaluates the pages of an asker once.
ProgramsAsked ==
  LET pages == <<>> @@ [k \in {<<c[3], c[4], c[5]>> : c \in {e \in Asked : IsRequest(e)}} |-> Pages(k[1], k[2], k[3])]
  IN  [c \in Asked |-> IF IsRequest(c) THEN pages[<<c[3], c[4], c[5]>>][c[1]][c[2]] ELSE HelperProgram[c]]

ASSUME ProgramAssumption == Program = ProgramsAsked

Command == DOMAIN Program

ASSUME InstanceAssumption ==
  /\ Hosted \subseteq Domains /\ IsFiniteSet(Hosted) /\ IsFiniteSet(Present)
  /\ MaxCommands \in Nat /\ MaxTrouble \in Nat

\* What a step writes back it has read, in every program.
ASSUME TablesAssumption == \A c \in Command : WellFormed(Program[c]) /\ ReadsFirst(Program[c])

\* What a file computed from others is computed from.
Basis(f) ==
  CASE f[1] = "vhost" -> VhostSources(f[2])
    [] f[1] = "php-fpm pool" -> {Php(f[2])}
    [] f = AliasMap -> AliasSources
    [] f = DomainMap -> {Registry}
    [] f = BackupCron -> CronSources
    [] OTHER -> {}

Files ==
  LET used == UNION {Uses(Program[c]) : c \in Command}
  IN  {Registry, Passwd, UsersJson, ApiKeys} \cup used \cup UNION {Basis(f) : f \in used}

\* The files a computed one is made from are there, too.
ComputedFrom(f) ==
  CASE f = Served -> {Linked} \cup {Conf(d) : d \in Domains}
    [] f = Vmailbox -> MailboxSources
    [] OTHER -> Basis(f)

ASSUME FilesAssumption == \A f \in Files : ComputedFrom(f) \subseteq Files

Idle == [cmd |-> <<>>, nr |-> 0, pc |-> 0, mem |-> <<>>, open |-> "no", wrote |-> FALSE, out |-> FALSE]

-----------------------------------------------------------------------------
(* What a file computed from others holds.                                 *)

Seen == [f \in Files |-> IF f \in torn THEN {} ELSE disk[f]]

Tagged(seen, from) == UNION {{<<f[1], x>> : x \in seen[f]} : f \in from}

Loaded(seen) ==
  UNION {{<<d, x>> : x \in seen[Conf(d)]} : d \in {e \in Domains : Row(e) \in seen[Linked]}}

Derived(f, from, seen) ==
  CASE f[1] = "php-fpm pool" ->
         {x \in UNION {seen[g] : g \in from} : x \in {Default(v) : v \in Items}}
    [] f = DomainMap -> {Row(d) : d \in MailDomains(seen)}
    [] f = AliasMap -> AliasEntries(seen)
    [] f = Vmailbox -> VmailboxEntries(seen)
    [] f = BackupCron -> CronLines(seen)
    [] f = Served -> Loaded(seen)
    [] OTHER -> Tagged(seen, from)

-----------------------------------------------------------------------------
(* A process at its next step.                                             *)

Prog(h) == Program[run[h].cmd]
Running(h) == run[h] # Idle
Step(h) == Prog(h)[run[h].pc]
At(h, op) == Running(h) /\ Step(h).op = op

Holds(mem, t) == t[1] \in DOMAIN mem /\ t[2] \in mem[t[1]].val

Performed(s, mem) ==
  (\A t \in s.has : Holds(mem, t)) /\ (\A t \in s.lacks : ~Holds(mem, t))

\* The first step from i on that is performed, or one past the last.
Landing(p, i, mem) ==
  LET later == {j \in i..Len(p) : Performed(p[j], mem)}
  IN  IF later = {} THEN Len(p) + 1 ELSE CHOOSE j \in later : \A k \in later : j <= k

Ahead(h, i) ==
  UNION {FilesOf(Prog(h)[j]) : j \in {k \in i..Len(Prog(h)) : Prog(h)[k].op \in WriteOps}}

Certain == [c \in Command |-> [i \in 1..Len(Program[c]) + 1 |-> Surely(Program[c], i)]]

\* The copies the steps from i on look at: the others are forgotten.
Needs(s) ==
  {t[1] : t \in s.has \cup s.lacks}
    \cup CASE s.op \in {"save", "swap", "unpack"} -> {s.f}
           [] s.op = "strip" -> {s.f, Vmailbox}
           [] OTHER -> {}
Wanted ==
  [c \in Command |->
     [i \in 1..Len(Program[c]) |-> UNION {Needs(Program[c][j]) : j \in i..Len(Program[c])}]]
Remembered(h, i, mem) == [f \in DOMAIN mem \cap Wanted[run[h].cmd][i] |-> mem[f]]

Copied(val, src, old) == [val |-> val, src |-> src, old |-> old]
None(f) == Copied({}, {f}, FALSE)
Taken(mem, f, copy) == [g \in {f} \cup DOMAIN mem |-> IF g = f THEN copy ELSE mem[g]]

\* What h would write into f, and whether the files it came from have been
\* written since; a file written from the request alone keeps nothing.
Held(h, f) == IF f \in DOMAIN run[h].mem THEN run[h].mem[f] ELSE None(f)
Kept(h, s) == IF s.src = {} THEN None(s.f) ELSE Held(h, s.f)
\* Mutant: a list is written with the new entry alone.
NewValue_OnlyNew(h) == Step(h).add

\* Mutant: what an entry replaces stays in the list.
NewValue_NoneRemoved(h) == Kept(h, Step(h)).val \cup Step(h).add

NewValue(h) == LET s == Step(h) IN (Kept(h, s).val \ s.del) \cup s.add

\* What the others hold is out of date once a file it came from is written.
Outdated(g, written) ==
  [run[g] EXCEPT
     !.mem = [t \in DOMAIN run[g].mem |->
                [run[g].mem[t] EXCEPT
                   !.old = run[g].mem[t].old \/ run[g].mem[t].src \cap written # {}]]]

\* And a writer that has the same file open is crossed.
Aged(g, written) ==
  [Outdated(g, written) EXCEPT
     !.open = IF run[g].open # "no" /\ Step(g).f \in written THEN "crossed" ELSE run[g].open]

\* h goes on at step i with copies mem, having written some files.  At its end
\* what its code leaves undone is excused.
Continue(h, i, mem, written, excuses) ==
  LET j == Landing(Prog(h), i, mem)
      ends == j > Len(Prog(h))
      next == IF ends THEN Idle
              ELSE [run[h] EXCEPT !.pc = j, !.mem = Remembered(h, j, mem), !.open = "no",
                                  !.wrote = @ \/ written # {}]
  IN  /\ run' = [g \in Helpers |-> IF g = h THEN next
                                   ELSE IF written = {} THEN run[g] ELSE Aged(g, written)]
      /\ excused' = excuses \cup (IF ends THEN Leaves(run[h].cmd) \cap Files ELSE {})

Onward(h, mem, written, excuses) == Continue(h, run[h].pc + Step(h).next, mem, written, excuses)

\* h ends here; what it was still to write is excused once it has begun.
Stop(h) ==
  /\ run' = [run EXCEPT ![h] = Idle]
  /\ excused' = excused \cup
       (IF run[h].wrote \/ run[h].open # "no" THEN Ahead(h, run[h].pc) \cup (Leaves(run[h].cmd) \cap Files)
        ELSE {})

-----------------------------------------------------------------------------
(* The server when the instance begins: the domains in Hosted, with the    *)
(* same items in each of their files, and everything computed from them.   *)

\* Who is an administrator, which client has which domains.
Administrators == IF Sessions = {} THEN Items ELSE {UserOf[s] : s \in Admins}
Clients == Sessions \ Admins
ClientDomains ==
  IF Sessions = {} THEN Present \X Hosted
  ELSE {Client(UserOf[s]) : s \in Clients} \cup UNION {{UserOf[s]} \X Claims[s] : s \in Clients}

\* Files that hold the items from the start.
Stocked == {"redirects.json", "proxies.json", "php.json", "protected.json", ".htaccess",
            ".htpasswd", "scripts.json", "public_html", "aliases.json", "crontab", ".user.ini",
            "git-deploy.json", "newsletter-campaigns.json", "newsletter-subscribers.json",
            "mailbox-autoreply.json", "authorized_keys", "support-tickets.json", "billing-invoices.json"}

SourceOf(f) ==
  CASE f[1] = "backups" -> IF Sessions = {} THEN {} ELSE {Row(d) : d \in {e \in Hosted : Owner[e] = f[2]}}
    [] f[1] = "archive" -> IF Sessions = {} THEN {} ELSE {Full} \cup (Stocked \X Present)
    [] f[1] = "wp-config.php" -> {<<"app", "wordpress">>}
    [] f[1] = "contact-form.json" -> {<<"enabled", "true">>, <<"listId", "default">>}
    [] f[1] = "php.json" -> Present \cup {Default(x) : x \in Present}
    [] f[1] = "ftp.json" -> IF Owned(f[2]) THEN Present ELSE {}
    [] f[1] = "zone" -> Present \cup {Soa, Mx(f[2]), MailA(f[2])}
    [] f[1] \in {".qadbak-domain", "other panel"} -> {Row(f[2])}
    [] OTHER -> IF f[1] \in Stocked \/ (f[1] \in {"homes", "maildir"} /\ Sessions # {}) THEN Present ELSE {}

Source(f) ==
  CASE f \in {Registry, Linked} -> {Row(d) : d \in Hosted}
    [] f = Passwd -> {User(d) : d \in Hosted} \cup Present
    [] f = UsersJson -> {Account(x) : x \in Items} \cup {Admin(x) : x \in Administrators} \cup ClientDomains
                          \cup {Totp(UserOf[s]) : s \in Clients}
    [] f = Tokens -> {Token(x, x) : x \in Items}
    [] f = ApiKeys -> {Key(x) : x \in Items}
    [] f = License -> {Stored, Active} \cup {KeyHint(x) : x \in Present}
    [] f = EnvFile -> {<<"setting", Host>>} \cup {Features(x) : x \in Present}
    [] f = PushTokens -> {Device(x) : x \in Items}
    [] f = Docker -> {Project(x) : x \in Present}
    [] f = PlanStore -> {Plan(x) : x \in Present}
    [] f = Servers -> Present
    [] f[1] = "update job" -> IF f[2] \in Present THEN {JobMeta, JobEnded} ELSE {}
    [] f = JournalFile -> {<<"done", s>> : s \in Sessions}
    [] OTHER -> IF f[2] \in Hosted THEN SourceOf(f) ELSE {}

Init ==
  /\ disk = LET computed == [f \in Files |-> IF Basis(f) = {} THEN Source(f)
                                             ELSE Derived(f, Basis(f), [g \in Files |-> Source(g)])]
            IN  [f \in Files |-> CASE f = Served -> Loaded(computed)
                                   [] f = Postfix -> Tagged(computed, Maps \cap Files)
                                   [] OTHER -> computed[f]]
  /\ torn = {}
  /\ run = [h \in Helpers |-> Idle]
  /\ excused = {} /\ crossed = {} /\ refused = {} /\ touched = {}
  /\ started = 0 /\ trouble = 0

history == <<crossed, refused, touched, started>>

-----------------------------------------------------------------------------
LoggedOutOnFile(c) ==
  /\ IsRequest(c) /\ Revocations \in Files
  /\ LoggedOut(UserOf[c[3]]) \in Seen[Revocations]

\* The panel starts a command; the instance only starts commands that share a
\* file with the ones before.
Start(h, c) ==
  /\ ~Running(h) /\ started < MaxCommands
  /\ LET p == Program[c]
         others == {Program[run[g].cmd] : g \in {k \in Helpers : Running(k)}}
     IN  /\ started > 0 => Uses(p) \cap touched # {}
         /\ touched' = touched \cup Writes(p)
         /\ crossed' = crossed \cup UNION {(Uses(p) \cap Writes(q)) \cup (Writes(p) \cap Uses(q)) : q \in others}
         /\ run' = [run EXCEPT ![h] = [Idle EXCEPT !.cmd = c, !.nr = started + 1, !.pc = Landing(p, 1, <<>>),
                                                   !.out = LoggedOutOnFile(c)]]
  /\ started' = started + 1
  /\ UNCHANGED <<disk, torn, excused, refused, trouble>>

\* fail(): the answer is ok = false, whatever was written stays.
Refuse(h) ==
  /\ Stop(h)
  /\ refused' = refused \cup (IF run[h].wrote THEN {run[h].cmd} ELSE {})
  /\ UNCHANGED <<disk, torn, crossed, touched, started, trouble>>

Found(h) == LET d == Step(h).d
            IN  Row(d) \in Seen[Registry] \/ (Owner[d] = d /\ User(d) \in disk[Passwd])

ResolveDomainUser(h) ==
  /\ At(h, "resolve") /\ Found(h)
  /\ Onward(h, run[h].mem, {}, excused)
  /\ UNCHANGED <<disk, torn, history, trouble>>

UnknownDomain(h) == At(h, "resolve") /\ Step(h).hard /\ ~Found(h) /\ Refuse(h)

\* Mutants: what is missing is not noticed; what must not be there is not
\* noticed; a truncated file counts as an empty one.
Acceptable_NeedIgnored(h) ==
  /\ Step(h).bar \cap Seen[Step(h).f] = {}
  /\ Step(h).op = "parse" => Step(h).f \notin torn
Acceptable_BarIgnored(h) ==
  /\ Step(h).need \subseteq Seen[Step(h).f]
  /\ Step(h).op = "parse" => Step(h).f \notin torn
Acceptable_TornAsEmpty(h) ==
  Step(h).need \subseteq Seen[Step(h).f] /\ Step(h).bar \cap Seen[Step(h).f] = {}

Acceptable(h) ==
  /\ Step(h).need \subseteq Seen[Step(h).f] /\ Step(h).bar \cap Seen[Step(h).f] = {}
  /\ Step(h).op = "parse" => Step(h).f \notin torn

Reads(h) == At(h, "read") \/ At(h, "parse")

\* Mutant: a file is read once, when the panel starts.
ReadFile_Cached(h) ==
  /\ Reads(h) /\ Acceptable(h)
  /\ LET f == Step(h).f
     IN  Onward(h, Taken(run[h].mem, f, Copied(Source(f), {f}, FALSE)), {}, excused)
  /\ UNCHANGED <<disk, torn, history, trouble>>

ReadFile(h) ==
  /\ Reads(h) /\ Acceptable(h)
  /\ LET f == Step(h).f
     IN  Onward(h, Taken(run[h].mem, f, Copied(Seen[f], {f}, f \in torn)), {}, excused)
  /\ UNCHANGED <<disk, torn, history, trouble>>

NotAcceptable(h) == Reads(h) /\ Step(h).hard /\ ~Acceptable(h) /\ Refuse(h)

\* Mutant: what is computed comes from the files as they were when the panel
\* started.
RenderFile_Cached(h) ==
  /\ At(h, "render") \/ At(h, "copy")
  /\ LET s == Step(h)
     IN  Onward(h, Taken(run[h].mem, s.f, Copied(Derived(s.f, s.src, [g \in Files |-> Source(g)]), s.src, FALSE)),
                {}, excused)
  /\ UNCHANGED <<disk, torn, history, trouble>>

RenderFile(h) ==
  /\ At(h, "render") \/ At(h, "copy")
  /\ LET s == Step(h)
         val == IF s.op = "copy" THEN UNION {Seen[g] : g \in s.src} ELSE Derived(s.f, s.src, Seen)
     IN  Onward(h, Taken(run[h].mem, s.f, Copied(val, s.src, s.src \cap torn # {})), {}, excused)
  /\ UNCHANGED <<disk, torn, history, trouble>>

\* The alias map as it is read now, without the addresses the mailbox map this
\* process has written; the write is skipped when there are none.
StripConflicts(h) ==
  /\ At(h, "strip")
  /\ LET f == Step(h).f
         kept == Seen[f] \ Held(h, Vmailbox).val
     IN  Continue(h, run[h].pc + (IF kept = Seen[f] THEN 2 ELSE 1),
                  Taken(run[h].mem, f, Copied(kept, {f}, f \in torn)), {}, excused)
  /\ UNCHANGED <<disk, torn, history, trouble>>

\* Mutant: a crontab is truncated before it is written, too.
OpenFile_AnyWrite(h) ==
  /\ At(h, "save") \/ At(h, "swap")
  /\ run[h].open = "no"
  /\ torn' = torn \cup {Step(h).f}
  /\ run' = [g \in Helpers |-> IF g = h THEN [run[h] EXCEPT !.open = "mine", !.wrote = TRUE]
                                ELSE Outdated(g, {Step(h).f})]
  /\ UNCHANGED <<disk, excused, history, trouble>>

\* writeFile opens with O_TRUNC ...
OpenFile(h) ==
  /\ At(h, "save") /\ run[h].open = "no"
  /\ torn' = torn \cup {Step(h).f}
  /\ run' = [g \in Helpers |-> IF g = h THEN [run[h] EXCEPT !.open = "mine", !.wrote = TRUE]
                                ELSE Outdated(g, {Step(h).f})]
  /\ UNCHANGED <<disk, excused, history, trouble>>

\* A copy that was out of date loses what others wrote; a file computed afresh
\* is right again.
Recorded(h) ==
  LET f == Step(h).f
      copy == Kept(h, Step(h))
  IN  IF copy.old THEN excused \cup {f}
      ELSE IF copy.src # {f} THEN excused \ {f}
      ELSE excused

\* ... then writes.  Bytes of another writer that came between may remain
\* behind the end of this text: such a file does not parse.
WriteFile(h) ==
  /\ At(h, "save") /\ run[h].open # "no"
  /\ LET f == Step(h).f
         value == NewValue(h)
     IN  /\ disk' = [disk EXCEPT ![f] = value]
         /\ \/ torn' = torn \ {f}
            \/ run[h].open = "crossed" /\ torn' = torn \cup {f}
         /\ Onward(h, Taken(run[h].mem, f, [Kept(h, Step(h)) EXCEPT !.val = value]), {f}, Recorded(h))
  /\ UNCHANGED <<history, trouble>>

\* Mutant: the new crontab is appended to the old one.
After_Appends(h, f) ==
  LET s == Step(h)
  IN  CASE s.op = "put" -> (disk[f] \ s.del) \cup s.add
        [] s.op = "swap" -> disk[f] \cup NewValue(h)
        [] s.op = "unpack" -> {t[2] : t \in {x \in Held(h, s.f).val : x[1] = f[1]}} \cup (disk[f] \cap s.add)
        [] OTHER -> {}

\* A table, directory or crontab changed in one piece by the program that owns it.
After(h, f) ==
  LET s == Step(h)
  IN  CASE s.op = "put" -> (disk[f] \ s.del) \cup s.add
        [] s.op = "swap" -> NewValue(h)
        [] s.op = "unpack" -> {t[2] : t \in {x \in Held(h, s.f).val : x[1] = f[1]}} \cup (disk[f] \cap s.add)
        [] OTHER -> {}

ChangeInOnePiece(h) ==
  /\ At(h, "put") \/ At(h, "swap") \/ At(h, "unpack") \/ At(h, "wipe")
  /\ LET written == FilesOf(Step(h))
     IN  /\ disk' = [f \in Files |-> IF f \in written THEN After(h, f) ELSE disk[f]]
         /\ torn' = torn \ written
         /\ Onward(h, run[h].mem, written, IF At(h, "swap") THEN Recorded(h) ELSE excused)
  /\ UNCHANGED <<history, trouble>>

\* Mutant: nginx goes on serving what is no longer linked.
ReloadService_Adds(h) ==
  /\ At(h, "reload")
  /\ LET s == Step(h)
     IN  /\ disk' = [disk EXCEPT ![s.f] = disk[s.f] \cup Derived(s.f, s.src, Seen)]
         /\ Onward(h, run[h].mem, {s.f}, IF s.f = Served THEN excused \ {s.f} ELSE excused)
  /\ UNCHANGED <<torn, history, trouble>>

\* nginx: a reload of every linked vhost.  postfix: the maps named, what it
\* knows of the others stays.
ReloadService(h) ==
  /\ At(h, "reload")
  /\ LET s == Step(h)
         kept == IF s.f = Served THEN {} ELSE {t \in disk[s.f] : t[1] \notin {g[1] : g \in s.src}}
     IN  /\ disk' = [disk EXCEPT ![s.f] = kept \cup Derived(s.f, s.src, Seen)]
         /\ Onward(h, run[h].mem, {s.f}, IF s.f = Served THEN excused \ {s.f} ELSE excused)
  /\ UNCHANGED <<torn, history, trouble>>

\* A step fails: its block is skipped, or the command ends with the error.
GiveUp(h) ==
  IF Step(h).catch > 0
  THEN LET i == run[h].pc + Step(h).catch
       IN  Continue(h, i, run[h].mem, {}, excused \cup (Ahead(h, run[h].pc) \ Certain[run[h].cmd][i]))
  ELSE Stop(h)

Troubled(h) == Running(h) /\ trouble < MaxTrouble

FailStep(h) ==
  /\ Troubled(h)
  /\ Step(h).op \in WriteOps \cup {"run", "render", "copy"}
  /\ trouble' = trouble + 1
  /\ GiveUp(h)
  /\ UNCHANGED <<disk, torn, history>>

\* A script's own check fails (exit 1), a helper answers ok = false, or the
\* error is thrown again.
ExitNonzero(h) ==
  /\ \/ Reads(h) /\ ~Step(h).hard /\ ~Acceptable(h)
     \/ At(h, "resolve") /\ ~Step(h).hard /\ ~Found(h)
     \/ At(h, "throw")
  /\ GiveUp(h)
  /\ UNCHANGED <<disk, torn, history, trouble>>

RunProgram(h) ==
  /\ At(h, "run")
  /\ Onward(h, run[h].mem, {}, excused)
  /\ UNCHANGED <<disk, torn, history, trouble>>

\* SIGKILL after 600 s, or the host goes down.
Kill(h) ==
  /\ Troubled(h)
  /\ trouble' = trouble + 1
  /\ Stop(h)
  /\ UNCHANGED <<disk, torn, history>>

Proceed(h) ==
  \/ ResolveDomainUser(h) \/ UnknownDomain(h)
  \/ ReadFile(h) \/ NotAcceptable(h) \/ RenderFile(h) \/ StripConflicts(h)
  \/ OpenFile(h) \/ WriteFile(h) \/ ChangeInOnePiece(h) \/ ReloadService(h)
  \/ RunProgram(h) \/ ExitNonzero(h)

Next ==
  \E h \in Helpers :
    \/ \E c \in Command : Start(h, c)
    \/ Proceed(h)
    \/ FailStep(h)
    \/ Kill(h)

Spec == Init /\ [][Next]_vars

-----------------------------------------------------------------------------
TypeOK ==
  /\ \A f \in Files : IsFiniteSet(disk[f])
  /\ torn \subseteq Files /\ excused \subseteq Files /\ crossed \subseteq Files
  /\ \A h \in Helpers : Running(h) =>
       /\ run[h].cmd \in Command /\ run[h].pc \in 1..Len(Prog(h))
       /\ run[h].open \in {"no", "mine", "crossed"}
       /\ (run[h].open # "no") => At(h, "save")
  /\ started \in 0..MaxCommands /\ trouble \in 0..MaxTrouble

Quiet == \A h \in Helpers : ~Running(h)
Whole(f) == f \in Files /\ f \notin torn \cup excused
Sound(f) == Whole(f) /\ Basis(f) \cap (torn \cup excused) = {}

\* A command that refuses (fail()) after it has written something met another
\* command or a failure on its way: its checks stand before its first write.  A
\* step that fails halfway is not a refusal.
RefusesFirst == refused # {} => crossed # {} \/ trouble > 0

\* What a step takes out of a file without saying so is lost only to another
\* command that used the file at the same time, or after a failure; that two at
\* the same time do lose entries of each other, no property forbids.
Says(h, f, x) ==
  LET s == Step(h)
  IN  \/ x \in s.del \/ s.op \in {"wipe", "unpack", "reload"}
      \/ s.op \in {"save", "swap"} /\ s.src # {f}
NothingLostAlone ==
  [][\A h \in Helpers : Running(h) /\ run'[h] # run[h] =>
       \A f \in FilesOf(Step(h)) :
         disk[f] \subseteq disk'[f] \/ f \in crossed \/ trouble > 0
           \/ \A x \in disk[f] \ disk'[f] : Says(h, f, x)]_vars
=============================================================================
