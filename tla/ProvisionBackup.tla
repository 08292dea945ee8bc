--------------------------- MODULE ProvisionBackup ---------------------------
(***************************************************************************)
(* Archives of a domain, their schedule, and the crontabs.  The crontab of *)
(* the panel's own user is computed from the registry and the schedules    *)
(* (provision-backup.mjs); a domain's crontab is edited line by line       *)
(* (provision-cron.mjs).                                                   *)
(***************************************************************************)
EXTENDS ProvisionSites, ProvisionMail

Schedule(d) == Cfg("backup-schedule.json", d)
BackupPolicy(d) == Cfg("backup-policy.json", d)
Archive(d) == Cfg("archive", d)              \* the newest archive of a domain
Backups(d) == Cfg("backups", Owner[d])       \* the directory: domains with an archive
Remote(d) == Cfg("bucket", d)
Crontab(d) == Cfg("crontab", Owner[d])
Databases(d) == Cfg("databases", Owner[d])
BackupCron == Sys("crontab")

\* backup-schedule.json: enabled, and seven archives kept, unless it says so.
Paused == <<"enabled", "false">>
RetainOne == <<"retain", "1">>
Offsite == <<"offsite", "true">>
\* An archive made with scope "full".
Full == <<"qadbak-config", "dir">>

\* data/domain-config/DOMAIN, and the other parts of a full archive.
ConfigFiles(d) ==
  {Redirects(d), Proxies(d), Website(d), Php(d), Modsecurity(d), Runtimes(d), Scripts(d),
   Ftp(d), Protected(d), Aliases(d), MailSettings(d), Schedule(d), BackupPolicy(d)}
Extras(d) == {Crontab(d), Zone(d), Cert(d)}

\* The members of an archive, put back where they came from; or beside what is
\* there now.
Unpack(a, files) == <<[Blank EXCEPT !.op = "unpack", !.f = a, !.src = files]>>
Merge(a, files) == <<[Blank EXCEPT !.op = "unpack", !.f = a, !.src = files, !.add = Items]>>

\* backup-mail.mjs: the mail of every mailbox is copied, the folder of each put back
\* in the place of the one there is; those the archive has not are left alone.
CollectMailBackupEntries(d) == {Homes(d)}
RestoreMailFromHome(d) == Merge(Archive(d), CollectMailBackupEntries(d))
RestoreDatabases(d) == Merge(Archive(d), {Databases(d)})

-----------------------------------------------------------------------------
\* Backup lines are taken out of every domain user's own crontab.
MigrateDomainUserBackupCrons ==
  Read(Registry)
  \o FoldSet(LAMBDA d, steps :
               steps \o When(Caught(Read(Crontab(d)) \o EditWhole(Crontab(d), {}, {})), Registry, Row(d)),
             <<>>, {d \in Domains : Owner[d] = d})

\* One line per enabled schedule of the registry, in the panel user's crontab.
CronLines(seen) == {Row(d) : d \in {e \in Domains : Row(e) \in seen[Registry] /\ Paused \notin seen[Schedule(e)]}}
CronSources == {Registry} \cup {Schedule(d) : d \in Domains}

SyncAllBackupCrons == MigrateDomainUserBackupCrons \o RenderWhole(BackupCron, CronSources)

\* The newest archives of the whole home are kept, as many as this domain says.
PruneOldBackups(d) ==
  LET others == {e \in Domains \ {d} : Owner[e] = Owner[d]}
  IN  Read(Schedule(d))
      \o When(Wipe({Archive(e) : e \in others}) \o Outside(Backups(d), {}, {Row(e) : e \in others}),
              Schedule(d), RetainOne)

MaybeUploadBackupOffsite(d) ==
  Read(BackupPolicy(d)) \o When(Copy(Archive(d), Remote(d)), BackupPolicy(d), Offsite)

\* Everything for scope "full"; only public_html for "scheduled".
BackupCreate(d, scope) ==
  LET parts == IF scope = "full" THEN {Public(d), Databases(d)} \cup CollectMailBackupEntries(d) \cup ConfigFiles(d) \cup Extras(d)
               ELSE {Public(d)}
  IN  Resolve(d)
      \o <<[Blank EXCEPT !.op = "render", !.f = Archive(d), !.src = parts]>>
      \o <<[Blank EXCEPT !.op = "save", !.f = Archive(d), !.src = parts,
                         !.add = IF scope = "full" THEN {Full} ELSE {}]>>
      \o Outside(Backups(d), {Row(d)}, {})
      \o PruneOldBackups(d) \o Caught(MaybeUploadBackupOffsite(d))

BackupFull(d) == BackupCreate(d, "full")
BackupScheduled(d) == BackupCreate(d, "scheduled")

BackupDelete(d) ==
  Resolve(d) \o Look(Backups(d), {Row(d)}, {}) \o Wipe({Archive(d)}) \o Outside(Backups(d), {}, {Row(d)})

BackupUpload(d) ==
  Resolve(d) \o Try \o Rewrite(Archive(d), {}) \o Outside(Backups(d), {Row(d)}, {}) \o PruneOldBackups(d)

\* What the archive holds replaces what is there.  Of what is computed from it
\* only the mailbox maps are rebuilt.
RestoreDomainExtras(d) ==
  Caught(Unpack(Archive(d), {Crontab(d)})) \o Unpack(Archive(d), {Zone(d)}) \o Caught(Try)
  \o Unpack(Archive(d), {Cert(d)}) \o Caught(RebuildPostfixMailboxMaps \o PostmapReloadAll)

BackupRestore(d) ==
  Resolve(d) \o Look(Backups(d), {Row(d)}, {}) \o Read(Archive(d))
  \o Unpack(Archive(d), {Public(d)})
  \o When(RestoreMailFromHome(d)
          \o Caught(Wipe(ConfigFiles(d))) \o Unpack(Archive(d), ConfigFiles(d))
          \o RestoreDomainExtras(d)
          \o Caught(RestoreDatabases(d)), Archive(d), Full)
  \o Caught(Try)

BackupRestoreFile(d) ==
  Resolve(d) \o Look(Backups(d), {Row(d)}, {}) \o Read(Archive(d)) \o Unpack(Archive(d), {Public(d)})

BackupRestoreDatabase(d) ==
  Resolve(d) \o Read(Archive(d)) \o RestoreDatabases(d)

BackupPullRemote(d) ==
  Read(BackupPolicy(d)) \o Resolve(d) \o Copy(Remote(d), Archive(d)) \o Outside(Backups(d), {Row(d)}, {})

BackupPullRemoteAndRestore(d) == BackupPullRemote(d) \o BackupRestore(d)

-----------------------------------------------------------------------------
BackupScheduleSet(d, add, del) == Edit(Schedule(d), add, del) \o SyncAllBackupCrons
BackupPause(d) == BackupScheduleSet(d, {Paused}, {})
BackupResume(d) == BackupScheduleSet(d, {}, {Paused})
BackupKeepOne(d) == BackupScheduleSet(d, {RetainOne}, {})

\* The schedule is switched on; an archive is made when the home has none.
ApplyBackupSchedule(d) ==
  LET mates == {e \in Domains : Owner[e] = Owner[d]}
      create == FoldSet(LAMBDA e, steps : Unless(steps, Backups(d), Row(e)), BackupFull(d), mates)
  IN  Resolve(d) \o Read(Schedule(d)) \o When(Save(Schedule(d), {}, {Paused}), Schedule(d), Paused)
      \o Read(Backups(d)) \o create

SetupBackupSchedule(d) == ApplyBackupSchedule(d) \o SyncAllBackupCrons

BackupScheduleEnsureAll ==
  ReadRows
  \o FoldSet(LAMBDA d, steps : steps \o IfFound(Caught(SetupBackupSchedule(d)), Rows, Row(d)), <<>>, Domains)

BackupPolicySet(d) == Resolve(d) \o Edit(BackupPolicy(d), {Offsite}, {})

-----------------------------------------------------------------------------
CronCreate(d, line) == Resolve(d) \o Read(Crontab(d)) \o EditWhole(Crontab(d), {line}, {})

\* By the index the panel saw; an empty crontab is left alone.
CronDelete(d, line) ==
  Resolve(d) \o Look(Crontab(d), {line}, {}) \o EditWhole(Crontab(d), {}, {line})

Users(d) == Cfg("database users", Owner[d])
Grants(d) == Cfg("grants", Owner[d])

\* Database, user, grant.
DbCreate(d, db) ==
  Resolve(d) \o Outside(Databases(d), {db}, {}) \o Outside(Users(d), {db}, {})
  \o Outside(Grants(d), {db}, {}) \o Try
DbPass(d, db) == Resolve(d) \o Try

-----------------------------------------------------------------------------
ArchiveCommands ==
  ForDomain("backup-create", BackupFull) @@ ForDomain("backup-create scheduled", BackupScheduled)
  @@ ForDomain("backup-delete", BackupDelete) @@ ForDomain("backup-upload", BackupUpload)
  @@ ForDomain("backup-restore", BackupRestore) @@ ForDomain("backup-restore-file", BackupRestoreFile)
  @@ ForDomain("backup-restore-database", BackupRestoreDatabase)
  @@ ForDomain("backup-pull-remote", BackupPullRemote)
  @@ ForDomain("backup-pull-remote-restore", BackupPullRemoteAndRestore)

ScheduleCommands ==
  ForDomain("backup-pause", BackupPause) @@ ForDomain("backup-resume", BackupResume)
  @@ ForDomain("backup-keep-one", BackupKeepOne) @@ ForDomain("backup-policy-set", BackupPolicySet)
  @@ ForDomain("backup-schedule-ensure", SetupBackupSchedule)
  @@ ForDomain("backup-schedule-ensure-all", LAMBDA d : BackupScheduleEnsureAll)

CronCommands == ForItem("cron-create", CronCreate) @@ ForItem("cron-delete", CronDelete)
DbCommands == ForItem("db-create", DbCreate) @@ ForItem("db-pass", DbPass)

BackupCommands == ArchiveCommands @@ ScheduleCommands @@ CronCommands @@ DbCommands
=============================================================================
