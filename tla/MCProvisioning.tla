--------------------------- MODULE MCProvisioning ---------------------------
(* Two processes, a domain d1 and its sub-domain d2, and d3 to be created. *)
EXTENDS Provisioning

CONSTANTS d1, d2, d3, a, b, h1, h2

OwnerDef == [d \in Domains |-> IF d = d2 THEN d1 ELSE d]
\* No request here, so no session.
Nobody == [s \in {} |-> {}]

DestDef == [x \in Items |-> b]

\* Item a is there from the start: commands that take something away are
\* given a or b, the others b.
Removals == {"redirect-delete", "proxy-delete", "ftp-delete", "php-delete-directory",
             "protected-delete", "protected-user-delete", "script-delete", "script-rollback", "cron-delete",
             "mail-delete", "alias-delete", "dns-del"}

\* Every command on the domain's web site, its databases and crontab; of the
\* sub-domain's, those that meet the parent's in a file of the shared user.
SiteRequests ==
  {c \in DOMAIN SiteCommands \cup DOMAIN CronCommands \cup DOMAIN DbCommands :
     \/ c[2] = d1 /\ (c[3] = a => c[1] \in Removals)
     \/ c[2] = d2 /\ c[3] = b /\ c[1] \in {"php-set-directory", "ftp-create"}}
  \cup {c \in DOMAIN HostCommands : c[1] \in {"domain-migrate", "domain-transfer"} /\ c[2] = d1}

\* What changes the mailboxes, aliases and maps of d1.
MailRequests ==
  {c \in DOMAIN MailCommands :
     /\ c[2] = d1
     /\ c[1] \notin {"mail-pass", "dmarc-set", "mailbox-autoreply-set", "mail-receive-test", "mail-diagnose",
                     "mail-settings-clear"}
     /\ c[3] \in {Host, IF c[1] \in Removals THEN a ELSE b}}

\* d3 is created or cloned, d1 and its sub-domain disabled, saved, deleted.
HostRequests ==
  {<<"domain-create", d3, Host>>, <<"domain-clone", d1, d3>>}
  \cup {c \in DOMAIN HostCommands \cup DOMAIN BackupCommands :
          c[2] = d1 /\ c[3] \in {Host, b}
          /\ c[1] \in {"domain-delete", "domain-enable", "domain-disable", "domain-repair", "backup-create",
                      "backup-restore", "backup-schedule-ensure-all", "cron-create"}}
  \cup {c \in DOMAIN BackupCommands : c[2] = d2 /\ c[1] \in {"backup-create", "backup-keep-one"}}
WholeRequests == HostRequests \cup MailRequests

\* What the proofs assume of the programs of an instance holds of the programs of
\* all commands of the dispatcher.  A domain is not cloned onto itself, or onto the
\* one whose user it has: those exist.
Dispatched == {c \in DOMAIN HelperProgram : c[1] = "domain-clone" => Owner[c[2]] # c[3]}
ASSUME DispatcherAssumption ==
  LET programs == [c \in Dispatched |-> HelperProgram[c]]
      covers == [c \in Dispatched |-> [F \in Followers |-> Cover(programs[c], F)]]
  IN  \A c \in Dispatched :
        /\ WellFormed(programs[c]) /\ ReadsFirst(programs[c])
        /\ \A F \in Followers : FollowedUp(programs[c], Leaves(c), covers[c][F], F)

ProgramDef == LET programs == ProgramsAsked IN programs

Interchangeable == Permutations(Helpers)

\* Schedules of the run on whole domains: a command started while another is
\* at work ends before that one goes on.
Nested ==
  \A g, h \in Helpers :
    Running(g) /\ Running(h) /\ run[g].nr < run[h].nr =>
      run'[g].pc = run[g].pc /\ (run[g].open = "no" => run'[g].open = "no")
=============================================================================
