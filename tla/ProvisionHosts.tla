---------------------------- MODULE ProvisionHosts ----------------------------
(***************************************************************************)
(* The life of a domain: created, cloned, disabled, migrated, handed over, *)
(* deleted.  Creation reads the registry first and writes it back, with    *)
(* one row more, after the user, the home, the pool and the vhost.         *)
(***************************************************************************)
EXTENDS ProvisionBackup

Marker(d) == Cfg(".qadbak-domain", Owner[d])
Welcome == <<"page", "index.html">>
UsersJson == Sys("users.json")
Account(x) == <<x, "account">>

\* A domain with a unix user of its own.
Owned(d) == Owner[d] = d

EnsureUnixUser(d) == Read(Passwd) \o Unless(Outside(Passwd, {User(d)}, {}), Passwd, User(d))

\* The landing page, vhost, certificate and pool again, each if it can.
EnsureDomainWebsite(d) ==
  Outside(Public(d), {Welcome}, {}) \o Caught(ApplyNginx(d)) \o Caught(ApplyDomainNginx(d, TRUE))
  \o Caught(Render(Pool(d), {Php(d)}))

FixDomainWebsite(d) ==
  Script(Try \o Look(Passwd, {User(d)}, {}) \o Caught(EnsureDomainWebsite(d)))

EnsureBindZone(d) ==
  Read(Zone(d)) \o Unless(Outside(Zone(d), {Soa, Mx(d), MailA(d)}, {}), Zone(d), Soa)

\* A first archive and a certificate, each if it can.
BootstrapDomainServices(d) ==
  Caught(SetupBackupSchedule(d)) \o Caught(SslIssue(d))

\* The landing page and the pool are written if they can be.
NewHome(d) ==
  EnsureUnixUser(d) \o Rewrite(Marker(d), {Row(d)}) \o Try
  \o Caught(Outside(Public(d), {Welcome}, {})) \o Caught(Render(Pool(d), {Php(d)}))

\* Registered only once nginx serves it; the row goes into the registry as it
\* was read before the first step.
DomainCreate(d) ==
  Look(Registry, IF Owned(d) THEN {} ELSE {Row(Owner[d])}, {Row(d)})
  \o (IF Owned(d) THEN NewHome(d) ELSE <<>>)
  \o ApplyNginx(d)
  \o Save(Registry, {Row(d)}, {})
  \o (IF d \in AliasDomains THEN <<>>
      ELSE EnsureBindZone(d)
           \o (IF Owned(d) THEN Rewrite(Php(d), {}) ELSE <<>>)
           \o EnsureNativeMailStack \o EnsureDomainMailSetup(d)
           \o (IF Owned(d) THEN Caught(FixDomainWebsite(d)) ELSE <<>>)
           \o BootstrapDomainServices(d))

RemoveApacheVhostForDomain(d) == Caught(Try)

\* Vhost, pool, configuration and user go first, the row last.
DomainDelete(d) ==
  LET home == {Public(d), Folder(d), Homes(d), Htaccess(d), Htpasswd(d), Sieve(d), Backups(d), Marker(d)}
              \cup {Archive(e) : e \in {x \in Domains : Owner[x] = Owner[d]}}
  IN  Read(Registry) \o RemoveApacheVhostForDomain(d)
      \o Caught(Outside(Linked, {}, {Row(d)}) \o Wipe({Conf(d)}))
      \o Caught(Wipe({Pool(d)})) \o Caught(Wipe(ConfigFiles(d)))
      \o Read(Marker(d))
      \o When(Caught(Outside(Passwd, {}, {User(d)}) \o Wipe(home)), Marker(d), Row(d))
      \o Caught(Reload)
      \o Save(Registry, {}, {Row(d), Off(d), <<"plan", d>>} \cup (Items \X {d}))

-----------------------------------------------------------------------------
\* The mark is written into the row, if the registry still has one.
SetRegistryDisabled(d, add, del) ==
  Read(Registry) \o When(Save(Registry, add, del), Registry, Row(d))

\* Mutant: the mark is taken away, the vhost is not linked again.
DomainEnable_NotLinked(d) ==
  Resolve(d) \o Caught(Try) \o Caught(Reload) \o SetRegistryDisabled(d, {}, {Off(d)})

DomainEnable(d) ==
  Resolve(d) \o Caught(Try) \o Caught(Outside(Linked, {Row(d)}, {})) \o Caught(Reload)
  \o SetRegistryDisabled(d, {}, {Off(d)})

DomainDisable(d) ==
  Resolve(d) \o Caught(Try) \o Caught(Outside(Linked, {}, {Row(d)})) \o Caught(Reload)
  \o SetRegistryDisabled(d, {Off(d)}, {})

\* A copy is created like a new domain, then gets the files and the
\* configuration; the vhost is not applied again.
DomainClone(s, t) ==
  Look(Registry, {Row(s)}, {Row(t)}) \o DomainCreate(t) \o Resolve(s) \o Resolve(t)
  \o Copy(Public(s), Public(t))
  \o <<[Blank EXCEPT !.op = "render", !.f = Cfg("config copy", t), !.src = ConfigFiles(s)]>>
  \o Unpack(Cfg("config copy", t), ConfigFiles(t))

\* Only an archive for the other host.
DomainMigrate(d) == Resolve(d) \o Try \o Rewrite(Cfg("migration", d), {Row(d)}) \o Try

\* The domain goes to one panel user and leaves all others.
DomainTransfer(d, owner) ==
  Look(Registry, {Row(d)}, {})
  \o Parse(UsersJson, {Account(owner)}, {})
  \o Save(UsersJson, {<<owner, d>>}, {<<u, d>> : u \in Items \ {owner}})

DomainWebsiteRepair(d) == FixDomainWebsite(d)

LifecycleCommands ==
  ForDomain("domain-create", DomainCreate) @@ ForDomain("domain-delete", DomainDelete)
  @@ ForDomain("domain-enable", DomainEnable) @@ ForDomain("domain-disable", DomainDisable)
  @@ ForDomain("domain-migrate", DomainMigrate) @@ ForDomain("domain-repair", DomainWebsiteRepair)
  @@ ForItem("domain-transfer", DomainTransfer)
  @@ [c \in {"domain-clone"} \X Domains \X {d \in Domains : Owned(d)} |-> DomainClone(c[2], c[3])]

HostCommands == LifecycleCommands

\* What a command leaves as it was although it changed what it is computed
\* from: a restored or copied configuration is not applied, the mail maps do
\* not follow the "disabled" mark, the crontab keeps the line of a deleted
\* domain, a pool is taken away from the domains that share it, an account is
\* deleted whichever domain has it on its list, the row of an alias or of a media
\* sub-domain goes into the registry alone.
Leaves(c) ==
  CASE c[1] = "domain-clone" -> {Conf(c[3]), Pool(c[3]), AliasMap, BackupCron}
    [] c[1] = "domain-create" /\ c[2] \in AliasDomains -> {BackupCron}
    [] c[1] = "jellyfin-install" -> Maps \cup {BackupCron}
    [] c[1] = "ftp-delete" -> {Ftp(e) : e \in Domains \ {c[2]}}
    [] c[1] \in {"domain-enable", "domain-disable"} -> Maps
    [] c[1] = "domain-delete" -> Maps \cup {Conf(c[2]), Pool(c[2]), BackupCron, Passwd}
    [] c[1] \in {"backup-restore", "backup-pull-remote-restore"} ->
         {Conf(c[2]), Pool(c[2]), AliasMap, BackupCron}
    [] OTHER -> {}
=============================================================================
