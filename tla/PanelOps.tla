------------------------------- MODULE PanelOps -------------------------------
(***************************************************************************)
(* What a request handler calls: the provisioner, whose methods check that *)
(* the actor has the domain and start one helper command (native-ops.ts,   *)
(* independent-ops.ts behind hybrid-adapter.ts), runProvisioningHelper     *)
(* itself, and the file helper, which works in the home of a unix user.    *)
(***************************************************************************)
EXTENDS PanelStores

\* provision-newsletter.mjs as a request sees it: the files each command
\* writes whole (Newsletter has the queue in detail).
Subscribers(d) == Cfg("newsletter-subscribers.json", d)
Campaigns(d) == Cfg("newsletter-campaigns.json", d)
SendQueue(d) == Cfg("newsletter-queue.json", d)
NewsletterQueue(d, x) ==
  Look(Campaigns(d), {x}, {}) \o Read(Subscribers(d)) \o Edit(SendQueue(d), {x}, {})
  \o Save(Campaigns(d), {<<"sending", x>>}, {})
NewsletterBatch(d) ==
  Read(SendQueue(d)) \o Read(Subscribers(d)) \o Caught(Try) \o Save(SendQueue(d), {}, Items)
  \o Edit(Campaigns(d), {}, {<<"sending", x>> : x \in Items})

NewsletterCommands ==
  ForDomain("newsletter-get", LAMBDA d : Read(Cfg("newsletter.json", d)))
  @@ ForItem("newsletter-set", LAMBDA d, x : Edit(Cfg("newsletter.json", d), {x}, {}))
  @@ ForDomain("newsletter-subscribers-list", LAMBDA d : Read(Subscribers(d)))
  @@ ForItem("newsletter-subscriber-upsert", LAMBDA d, x : Edit(Subscribers(d), {x}, {}))
  @@ ForItem("newsletter-subscriber-delete", LAMBDA d, x : Edit(Subscribers(d), {}, {x}))
  @@ ForItem("newsletter-subscribers-import", LAMBDA d, x : Edit(Subscribers(d), {x}, {}))
  @@ ForDomain("newsletter-campaigns-list", LAMBDA d : Read(Campaigns(d)))
  @@ ForItem("newsletter-campaign-upsert", LAMBDA d, x : Edit(Campaigns(d), {x}, {}))
  @@ ForItem("newsletter-campaign-delete", LAMBDA d, x : Edit(Campaigns(d), {}, {x}))
  @@ ForItem("newsletter-campaign-queue", NewsletterQueue)
  @@ ForDomain("newsletter-send-batch", NewsletterBatch)
  @@ ForItem("newsletter-campaign-test", LAMBDA d, x : Read(Cfg("newsletter.json", d)) \o Try)

HelperProgram ==
  SiteCommands @@ MailCommands @@ BackupCommands @@ HostCommands @@ StoreCommands @@ QueryCommands
  @@ NewsletterCommands

\* runProvisioningHelper: ok = false is thrown, and can be caught.
Helper(cmd, d, x) ==
  Script(HelperProgram[CHOOSE c \in {<<cmd, d, x>>, <<cmd, d, Host>>, <<cmd, Host, x>>} :
                         c \in DOMAIN HelperProgram])

-----------------------------------------------------------------------------
(* Methods of the provisioner and the command each one starts.             *)

SslOps == [listSslCerts |-> "ssl-list", requestLetsEncrypt |-> "ssl-issue"]
DnsOps == [getDns |-> "dns-get", addDnsRecord |-> "dns-add", deleteDnsRecord |-> "dns-del"]
MailOps == [listMailboxes |-> "mail-list", createMailbox |-> "mail-create",
            updateMailboxPassword |-> "mail-pass", deleteMailbox |-> "mail-delete"]
DbOps == [listDatabases |-> "db-list", createDatabase |-> "db-create", updateDatabasePassword |-> "db-pass"]
DomainOps == [deleteDomain |-> "domain-delete"]
BackupOps == [listScheduledBackups |-> "backup-list", startBackup |-> "backup-create",
              restoreDomain |-> "backup-restore", pauseScheduledBackup |-> "backup-pause",
              resumeScheduledBackup |-> "backup-resume"]
CronOps == [listCronJobs |-> "cron-list", createCronJob |-> "cron-create", deleteCronJob |-> "cron-delete"]
AliasOps == [listAliases |-> "alias-list", createAlias |-> "alias-create", deleteAlias |-> "alias-delete"]
RedirectOps == [listRedirects |-> "redirect-list", createRedirect |-> "redirect-create",
                deleteRedirect |-> "redirect-delete"]
FeatureOps == [listDomainFeatures |-> "feature-list", setDomainFeature |-> "feature-set"]
LogOps == [getWebsiteLogs |-> "logs-tail"]
PhpOps == [listPhpVersions |-> "php-versions", listPhpDirectories |-> "php-directories",
           listPhpIni |-> "php-ini", setPhpDirectory |-> "php-set-directory",
           modifyPhpIni |-> "php-modify-ini", deletePhpDirectory |-> "php-delete-directory"]
FtpOps == [listFtpAccountsSafe |-> "ftp-list", createFtpAccount |-> "ftp-create",
           updateFtpPassword |-> "ftp-pass", deleteFtpAccount |-> "ftp-delete"]
LimitOps == [getDomainLimits |-> "limits-get", updateDomainLimits |-> "limits-set"]
LifecycleOps == [enableDomain |-> "domain-enable", disableDomain |-> "domain-disable",
                 validateDomain |-> "domain-validate"]
MailboxOps == [searchMailLogs |-> "mail-logs-search", listImapMailboxes |-> "imap-list",
               copyMailbox |-> "imap-copy"]
ProtectedOps == [listProtectedDirectories |-> "protected-list", createProtectedDirectory |-> "protected-create",
                 deleteProtectedDirectory |-> "protected-delete", listProtectedUsers |-> "protected-users-list",
                 createProtectedUser |-> "protected-user-create", deleteProtectedUser |-> "protected-user-delete"]
SharedOps == [listSharedAddresses |-> "shared-list", createSharedAddress |-> "shared-create",
              deleteSharedAddress |-> "shared-delete"]
MailSettingsOps == [getMailSettings |-> "mail-settings-get", updateMailSettings |-> "mail-settings-set"]
ProxyOps == [listProxies |-> "proxy-list", createProxy |-> "proxy-create", deleteProxy |-> "proxy-delete"]
ScriptOps == [listInstalledScripts |-> "script-list", installScript |-> "script-install",
              deleteInstalledScript |-> "script-delete"]
RuntimeOps == [getRuntimes |-> "runtimes-get", installNodeRuntime |-> "runtimes-node-install",
               installPythonRuntime |-> "runtimes-python-install",
               installDockerRuntime |-> "runtimes-docker-install"]
SecurityOps == [getMailSecurity |-> "security-get", setSpamFilter |-> "security-spam", setDkim |-> "security-dkim"]

\* applyNativeOverrides with every feature on.
DomainOp ==
  SslOps @@ DnsOps @@ MailOps @@ DbOps @@ DomainOps @@ BackupOps @@ CronOps @@ AliasOps @@ RedirectOps
  @@ FeatureOps @@ LogOps @@ PhpOps @@ FtpOps @@ LimitOps @@ LifecycleOps @@ MailboxOps @@ ProtectedOps
  @@ SharedOps @@ MailSettingsOps @@ ProxyOps @@ ScriptOps @@ RuntimeOps @@ SecurityOps

\* Only an administrator's.
AdminOp == [listResellers |-> "reseller-list", createReseller |-> "reseller-create",
            deleteReseller |-> "reseller-delete", listPlans |-> "plan-list",
            createPlan |-> "plan-create", deletePlan |-> "plan-delete"]

\* The actor is not looked at: the route has to.
UncheckedOp == [cloneDomain |-> "domain-clone", migrateDomain |-> "domain-migrate",
                transferDomain |-> "domain-transfer", checkServerConfig |-> "admin-check-config",
                getLicenseInfo |-> "admin-license", listTemplates |-> "admin-templates",
                listAdmins |-> "admin-admins-list", createAdmin |-> "admin-admins-create",
                deleteAdmin |-> "admin-admins-delete", listGlobalFeatures |-> "admin-global-features",
                setGlobalFeature |-> "admin-global-feature-set", runConfigSystem |-> "admin-config-system",
                listS3Buckets |-> "admin-s3-buckets", listS3Files |-> "admin-s3-files",
                uploadS3File |-> "admin-s3-upload", getNativeServerStatus |-> "admin-server-status"]

\* A method of the provisioner, or a helper command by its name.
Call(s, op, d, x) ==
  CASE op \in DOMAIN DomainOp -> AssertActorDomainAccess(s, d) \o Helper(DomainOp[op], d, x)
    [] op \in DOMAIN AdminOp -> AdminRole(s) \o Helper(AdminOp[op], d, x)
    [] op \in DOMAIN UncheckedOp -> Helper(UncheckedOp[op], d, x)
    [] OTHER -> Helper(op, d, x)

\* With a plan: two commands, the domain stays when the second fails.
CreateDomain(s, d, plan) ==
  AssertActorDomainAccess(s, d) \o Helper("domain-create", d, Host) \o Helper("plan-apply", d, plan)

ResendEmail(s, d) == AssertActorDomainAccess(s, d) \o Fail

-----------------------------------------------------------------------------
(* domain-fs-helper.mjs: one root process for each operation, in the tree  *)
(* of the unix user, which a path is an item of.  A file gets its owner    *)
(* after it is there; that it cannot is not an error.                      *)

Tree(d) == Public(d)
ChownToHomeUser == Caught(Try)
PutInTree(d, t) == Outside(Tree(d), {t}, {}) \o ChownToHomeUser

ListDir(d) == Read(Tree(d))
ReadFileOf(d, x) == Look(Tree(d), {x}, {})
StreamFile(d, x) == Look(Tree(d), {x}, {}) \o Try
WriteFileOf(d, x) == Try \o PutInTree(d, x)
MkdirPath(d, x) == Look(Tree(d), {}, {x}) \o PutInTree(d, x)
UnlinkPath(d, x) == Look(Tree(d), {x}, {}) \o Outside(Tree(d), {}, {x})

\* What is in the way is refused, or goes first: the folder it goes to is looked
\* for, and the source renamed, after that.
MovePath(d, x, y, overwrite) ==
  IF x = y THEN Fail
  ELSE Look(Tree(d), {x}, IF overwrite THEN {} ELSE {y}) \o Try
       \o When(Outside(Tree(d), {}, {y}), Tree(d), y) \o Try
       \o Outside(Tree(d), {y}, {x}) \o ChownToHomeUser

\* Every entry's path is looked at before the first is extracted; the folder is
\* there either way.
SafeExtractArchive(d, x) == Try \o Outside(Tree(d), {<<"extracted", x>>}, {})
ArchiveExtract(d, x) ==
  Look(Tree(d), {x}, {}) \o Try \o Outside(Tree(d), {<<"folder", x>>}, {}) \o SafeExtractArchive(d, x)
  \o ChownToHomeUser
ArchiveCreate(d, x) == Read(Tree(d)) \o Try \o PutInTree(d, <<"archive", x>>) \o Try

\* From the temporary file of the request, which goes if it can.
InstallUpload(d, x, overwrite) ==
  Try \o (IF overwrite THEN <<>> ELSE Look(Tree(d), {}, {x})) \o PutInTree(d, x) \o Caught(Try)

\* The operation each command names: x is its path, y where the path goes.
DomainFs(d, x, y) ==
  [list |-> ListDir(d), read |-> ReadFileOf(d, x), stream |-> StreamFile(d, x), write |-> WriteFileOf(d, x),
   mkdir |-> MkdirPath(d, x), unlink |-> UnlinkPath(d, x), move |-> MovePath(d, x, y, FALSE),
   replace |-> MovePath(d, x, y, TRUE), extract |-> ArchiveExtract(d, x), archive |-> ArchiveCreate(d, x),
   upload |-> InstallUpload(d, x, FALSE), uploadOver |-> InstallUpload(d, x, TRUE)]
  @@ ("write-bytes" :> Try \o PutInTree(d, x)) @@ ("crontab-list" :> Read(Crontab(d)))

\* domain-fs-sudo.ts: the helper's error is thrown.
RunDomainFsSudo(steps) == Try \o Script(steps)
RunDomainFsInstallUpload(d, x, overwrite) ==
  RunDomainFsSudo(DomainFs(d, x, x)[IF overwrite THEN "uploadOver" ELSE "upload"])
ProbeDomainFsSudo == Caught(RunDomainFsSudo(Try))

\* domain-files-live.ts: the unix user of the row, then one operation.
ResolveUnixUser == ListDomains
RunHelper(cmd, d, x, y) == ResolveUnixUser \o RunDomainFsSudo(DomainFs(d, x, y)[cmd])

ProbeLiveFilesystem == ProbeDomainFsSudo
ListDomainFilesLive(d) == RunHelper("list", d, Host, Host)
ReadDomainFileLive(d, x) == RunHelper("read", d, x, x)
WriteDomainFileLive(d, x) == RunHelper("write", d, x, x)
MkdirDomainLive(d, x) == RunHelper("mkdir", d, x, x)
UploadDomainFileFromTempLive(d, x, overwrite) == ResolveUnixUser \o RunDomainFsInstallUpload(d, x, overwrite)
DeleteDomainFileLive(d, x) == RunHelper("unlink", d, x, x)
MoveDomainPathLive(d, x, y, overwrite) == RunHelper(IF overwrite THEN "replace" ELSE "move", d, x, y)
ExtractArchiveLive(d, x) == RunHelper("extract", d, x, x)
CreateArchiveLive(d, x) == RunHelper("archive", d, x, x)
=============================================================================
