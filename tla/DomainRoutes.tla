----------------------------- MODULE DomainRoutes -----------------------------
(***************************************************************************)
(* The request handlers under api/domains/[domain]: one record per route   *)
(* file, from the method (with the action, where the body names one) to    *)
(* the steps it takes for session s, domain d and item x.                  *)
(***************************************************************************)
EXTENDS RemoteHosting

\* requireDomainApi, then one call; a change is written to audit.log after it.
Answer(s, d, op, x) == RequireDomainApi(s, d) \o Call(s, op, d, x)
Act(s, d, op, x) == Answer(s, d, op, x) \o Audit(s)

\* The same for administrators only.
RequireDomainAdmin(s, d) == RequireDomainApi(s, d) \o AdminRole(s)
AdminAnswer(s, d, op, x) == RequireDomainAdmin(s, d) \o Call(s, op, d, x)
AdminAct(s, d, op, x) == AdminAnswer(s, d, op, x) \o Audit(s)

\* With an entry in the action journal; the entry is there when the call fails.
Undoable(s, d, op, x) == RequireDomainApi(s, d) \o Journalled(s, Call(s, op, d, x) \o Audit(s))

Premium(s, d) == RequireDomainApi(s, d) \o IsPremiumFeatureEnabled

-----------------------------------------------------------------------------
(* The domain itself.                                                      *)

DomainRoute(s, d, x) == [GET |-> RequireSession(s) \o ListDomains \o AssertActorDomainAccess(s, d)]
EnableRoute(s, d, x) == [POST |-> RequireAdmin(s) \o Act(s, d, "enableDomain", x)]
DisableRoute(s, d, x) == [POST |-> RequireAdmin(s) \o Act(s, d, "disableDomain", x)]
FeaturesRoute(s, d, x) ==
  [GET |-> AdminAnswer(s, d, "listDomainFeatures", x), POST |-> AdminAct(s, d, "setDomainFeature", x)]
LimitsRoute(s, d, x) ==
  [GET |-> AdminAnswer(s, d, "getDomainLimits", x), POST |-> AdminAct(s, d, "updateDomainLimits", x)]
LogsRoute(s, d, x) == [GET |-> Act(s, d, "getWebsiteLogs", x)]

LifecycleRoute(s, d, x) ==
  [GET |-> AdminAnswer(s, d, "validateDomain", x)]
  @@ ("POST delete" :> AdminAct(s, d, "deleteDomain", x))
  @@ ("POST migrate" :> AdminAct(s, d, "migrateDomain", x))
  @@ ("POST transfer" :> AdminAct(s, d, "transferDomain", x))
LifecycleCloneRoute(s, d, t) == ("POST clone" :> AdminAct(s, d, "cloneDomain", t))

RepairWebsiteRoute(s, d, x) ==
  [POST |-> RequireAdmin(s) \o RepairAvailable \o RepairDomainWebsite(d) \o Audit(s)]
StackRoute(s, d, x) ==
  [GET |-> RequireDomainAdmin(s, d) \o ProbeStackHelperSudo \o ValidateDomainStackConfig(d)]
WebsiteHealthRoute(s, d, x) == [GET |-> RequireDomainApi(s, d) \o GetWebsiteHealth(s, d)]

\* A token for the terminal's own server, signed with the domain's unix user.
WsTokenRoute(s, d, x) ==
  [GET |-> TerminalBackendReady \o RequireDomainApi(s, d) \o Parse(Registry, {Row(d)}, {})
           \o CreateTerminalWsToken(s)]
  @@ ("connect" :> OpenDomainShell(s, d))

-----------------------------------------------------------------------------
(* Web site.                                                               *)

RedirectsRoute(s, d, x) ==
  [GET |-> Answer(s, d, "listRedirects", x), POST |-> Act(s, d, "createRedirect", x),
   DELETE |-> Act(s, d, "deleteRedirect", x)]
ProxiesRoute(s, d, x) ==
  [GET |-> Answer(s, d, "listProxies", x), POST |-> AdminAct(s, d, "createProxy", x),
   DELETE |-> AdminAct(s, d, "deleteProxy", x)]
SslRoute(s, d, x) ==
  [GET |-> Answer(s, d, "listSslCerts", x), POST |-> Act(s, d, "requestLetsEncrypt", x)]
PhpRoute(s, d, x) ==
  [GET |-> RequireDomainApi(s, d) \o Call(s, "listPhpVersions", d, x)
           \o Call(s, "listPhpDirectories", d, x) \o Call(s, "listPhpIni", d, x),
   POST |-> Act(s, d, "setPhpDirectory", x), PATCH |-> Act(s, d, "modifyPhpIni", x),
   DELETE |-> AdminAct(s, d, "deletePhpDirectory", x)]
FtpRoute(s, d, x) ==
  [GET |-> Answer(s, d, "listFtpAccountsSafe", x), POST |-> Act(s, d, "createFtpAccount", x),
   PATCH |-> Act(s, d, "updateFtpPassword", x), DELETE |-> Act(s, d, "deleteFtpAccount", x)]
ProtectedRoute(s, d, x) ==
  [GET |-> Answer(s, d, "listProtectedDirectories", x), POST |-> Act(s, d, "createProtectedDirectory", x),
   DELETE |-> Act(s, d, "deleteProtectedDirectory", x)]
ProtectedUsersRoute(s, d, x) ==
  [GET |-> Answer(s, d, "listProtectedUsers", x), POST |-> Act(s, d, "createProtectedUser", x),
   DELETE |-> Act(s, d, "deleteProtectedUser", x)]

\* A failed installation is not in the journal.
ScriptsRoute(s, d, x) ==
  [GET |-> Answer(s, d, "listInstalledScripts", x),
   POST |-> AdminAnswer(s, d, "installScript", x) \o JournalEntry(s, "done") \o Audit(s),
   PATCH |-> AdminAct(s, d, "script-rollback", x), DELETE |-> AdminAct(s, d, "deleteInstalledScript", x)]

RuntimesRoute(s, d, x) ==
  [GET |-> Answer(s, d, "getRuntimes", x)]
  @@ ("POST node" :> AdminAct(s, d, "installNodeRuntime", x))
  @@ ("POST python" :> AdminAct(s, d, "installPythonRuntime", x))
  @@ ("POST docker" :> AdminAct(s, d, "installDockerRuntime", x))
  @@ ("POST docker-start" :> AdminAnswer(s, d, "runtimes-docker-start", x))
  @@ ("POST docker-stop" :> AdminAnswer(s, d, "runtimes-docker-stop", x))

\* Mail security is the client's; scans and the web firewall the administrator's.
SecurityRoute(s, d, x) ==
  [GET |-> Answer(s, d, "getMailSecurity", x) \o Caught(Helper("malware-status", d, x))]
  @@ ("POST malware-scan" :> AdminAct(s, d, "malware-scan", x))
  @@ ("POST malware-schedule" :> AdminAct(s, d, "malware-schedule-set", x))
  @@ ("POST modsecurity" :> AdminAct(s, d, "modsecurity-toggle", x))
  @@ ("POST spam and dkim" :>
        Act(s, d, "setSpamFilter", x) \o Call(s, "setDkim", d, x) \o Audit(s))

FilesRoute(s, d, x) ==
  [GET |-> RequireDomainApi(s, d) \o ResolveDomainFilesListing(s, d),
   DELETE |-> RequireDomainApi(s, d) \o DeleteDomainFileLive(d, x) \o Audit(s)]
  @@ ("POST mkdir" :> RequireDomainApi(s, d) \o MkdirDomainLive(d, x) \o Audit(s))
  @@ ("POST save" :> RequireDomainApi(s, d) \o WriteDomainFileLive(d, x) \o Audit(s))
  @@ ("POST extract-archive" :> RequireDomainApi(s, d) \o ExtractArchiveLive(d, x) \o Audit(s))
  @@ ("POST create-archive" :> RequireDomainApi(s, d) \o CreateArchiveLive(d, x) \o Audit(s))
  @@ ("POST move" :> RequireDomainApi(s, d) \o MoveDomainPathLive(d, x, Dest[x], FALSE) \o Audit(s))
  @@ ("POST replace" :> RequireDomainApi(s, d) \o MoveDomainPathLive(d, x, Dest[x], TRUE) \o Audit(s))
FilesContentRoute(s, d, x) == [GET |-> RequireDomainApi(s, d) \o ReadDomainFileLive(d, x)]
FilesDownloadRoute(s, d, x) == [GET |-> RequireDomainApi(s, d) \o ReadDomainFileLive(d, x)]
\* Several files: each is installed and audited before the next.
FilesUploadRoute(s, d, x) ==
  LET upload(overwrite) ==
        RequireDomainApi(s, d) \o Read(Sys("upload-limits.json"))
        \o UploadDomainFileFromTempLive(d, x, overwrite) \o Audit(s)
        \o UploadDomainFileFromTempLive(d, Dest[x], overwrite) \o Audit(s)
  IN  ("POST" :> upload(TRUE)) @@ ("POST new" :> upload(FALSE))

MediaRoute(s, d, x) ==
  [GET |-> Answer(s, d, "jellyfin-status", x), POST |-> AdminAct(s, d, "jellyfin-set-media-path", x)]
MediaVideosRoute(s, d, x) == [GET |-> Answer(s, d, "jellyfin-list-videos", x)]
MediaStreamRoute(s, d, x) == [GET |-> Answer(s, d, "jellyfin-stream-resolve", x) \o Script(DomainFs(d, x, x).stream)]

\* The secret of the domain's own settings, no session.
GitWebhookRoute(s, d, x) == [POST |-> Look(Git(d), {x}, {}) \o Helper("git-deploy-run", d, x)]

-----------------------------------------------------------------------------
(* Mail.                                                                   *)

UsersRoute(s, d, x) ==
  [GET |-> Answer(s, d, "listMailboxes", x) \o Caught(Helper("mailbox-quotas-get", d, x)),
   POST |-> Undoable(s, d, "createMailbox", x),
   PATCH |-> Act(s, d, "mailbox-quota-set", x) \o Call(s, "updateMailboxPassword", d, x) \o Audit(s),
   DELETE |-> Act(s, d, "deleteMailbox", x)]
AliasesRoute(s, d, x) ==
  [GET |-> Answer(s, d, "listAliases", x), POST |-> Undoable(s, d, "createAlias", x),
   DELETE |-> Undoable(s, d, "deleteAlias", x)]
DnsRoute(s, d, x) ==
  [GET |-> Answer(s, d, "getDns", x), POST |-> Undoable(s, d, "addDnsRecord", x),
   DELETE |-> Undoable(s, d, "deleteDnsRecord", x)]
MailDnsRoute(s, d, x) == [GET |-> Answer(s, d, "mail-dns-hints", x)]
MailLogsRoute(s, d, x) ==
  [GET |-> Answer(s, d, "searchMailLogs", x), POST |-> RequireDomainAdmin(s, d) \o ResendEmail(s, d)]
MailSettingsRoute(s, d, x) ==
  [GET |-> Answer(s, d, "getMailSettings", x), POST |-> Act(s, d, "updateMailSettings", x)]
SharedRoute(s, d, x) ==
  [GET |-> Answer(s, d, "listSharedAddresses", x), POST |-> AdminAct(s, d, "createSharedAddress", x),
   DELETE |-> AdminAct(s, d, "deleteSharedAddress", x)]
MailboxesRoute(s, d, x) ==
  [GET |-> Premium(s, d) \o Helper("imap-list", d, x), POST |-> AdminAct(s, d, "copyMailbox", x)]
MessagesRoute(s, d, x) ==
  [GET |-> Premium(s, d) \o AssertActorDomainAccess(s, d) \o Helper("imap-messages", d, x)]
MessageRoute(s, d, x) ==
  [GET |-> Premium(s, d) \o AssertActorDomainAccess(s, d) \o Helper("imap-fetch", d, x)]
DraftRoute(s, d, x) == [POST |-> Premium(s, d) \o Helper("mail-draft-save", d, x) \o Audit(s)]
SendRoute(s, d, x) == [POST |-> Premium(s, d) \o Helper("mail-send", d, x) \o Audit(s)]

NewsletterRoute(s, d, x) == [GET |-> Answer(s, d, "newsletter-get", x), POST |-> Act(s, d, "newsletter-set", x)]
NewsletterSubscribersRoute(s, d, x) ==
  [GET |-> Answer(s, d, "newsletter-subscribers-list", x), POST |-> Act(s, d, "newsletter-subscriber-upsert", x),
   DELETE |-> Act(s, d, "newsletter-subscriber-delete", x)]
NewsletterImportRoute(s, d, x) == [POST |-> Act(s, d, "newsletter-subscribers-import", x)]
NewsletterCampaignsRoute(s, d, x) ==
  [GET |-> Answer(s, d, "newsletter-campaigns-list", x), POST |-> Act(s, d, "newsletter-campaign-upsert", x)]
  @@ ("POST delete" :> Act(s, d, "newsletter-campaign-delete", x))
\* Queued and audited, then sent in batches (two of up to twenty).
NewsletterSendRoute(s, d, x) ==
  [POST |-> Act(s, d, "newsletter-campaign-queue", x)
            \o Helper("newsletter-send-batch", d, x) \o Helper("newsletter-send-batch", d, x)]
NewsletterProcessRoute(s, d, x) == [POST |-> Answer(s, d, "newsletter-send-batch", x)]
NewsletterTestRoute(s, d, x) == [POST |-> Act(s, d, "newsletter-campaign-test", x)]

-----------------------------------------------------------------------------
(* Databases, cron, backups, tools.                                        *)

DatabasesRoute(s, d, x) ==
  [GET |-> Answer(s, d, "listDatabases", x), POST |-> Act(s, d, "createDatabase", x),
   PATCH |-> Act(s, d, "updateDatabasePassword", x)]
CronRoute(s, d, x) ==
  [GET |-> Answer(s, d, "listCronJobs", x), POST |-> AdminAct(s, d, "createCronJob", x),
   DELETE |-> AdminAct(s, d, "deleteCronJob", x)]

BackupsRoute(s, d, x) ==
  LET listed == Call(s, "listScheduledBackups", d, x)
  IN  [GET |-> RequireDomainApi(s, d) \o listed, POST |-> Act(s, d, "startBackup", x),
       DELETE |-> AdminAct(s, d, "backup-delete", x) \o listed]
      @@ ("PATCH schedule" :> AdminAct(s, d, "backup-keep-one", x) \o listed)
      @@ ("PATCH pause" :> AdminAct(s, d, "pauseScheduledBackup", x) \o listed)
      @@ ("PATCH resume" :> AdminAct(s, d, "resumeScheduledBackup", x) \o listed)
BackupArchiveRoute(s, d, x) ==
  [GET |-> Answer(s, d, "backup-archive-list", x)]
  @@ ("POST restore-file" :> Act(s, d, "backup-restore-file", x))
  @@ ("POST restore-database" :> AdminAct(s, d, "backup-restore-database", x))
BackupDownloadRoute(s, d, x) == [GET |-> Act(s, d, "backup-resolve", x) \o Script(Read(Archive(d)))]
BackupPolicyRoute(s, d, x) ==
  [GET |-> AdminAnswer(s, d, "backup-policy-get", x),
   PATCH |-> RequireDomainAdmin(s, d) \o IsPremiumFeatureEnabled \o Helper("backup-policy-set", d, x)
             \o Audit(s) \o Helper("backup-policy-get", d, x)]
BackupRemoteRoute(s, d, x) ==
  LET gate == RequireDomainAdmin(s, d) \o IsPremiumFeatureEnabled
  IN  [GET |-> gate \o Helper("backup-list-remote", d, x),
       POST |-> gate \o Helper("backup-pull-remote", d, x) \o Audit(s)]
      @@ ("POST pull-restore" :> gate \o Helper("backup-pull-remote-restore", d, x) \o Audit(s))
BackupRestoreRoute(s, d, x) == [POST |-> AdminAct(s, d, "restoreDomain", x)]
BackupUploadRoute(s, d, x) ==
  [POST |-> RequireDomainAdmin(s, d) \o Read(Sys("upload-limits.json")) \o Try \o Helper("backup-upload", d, x)
            \o Audit(s) \o Call(s, "listScheduledBackups", d, x)]

\* site-tools-actions.ts: any command of the list, whatever the role; a change
\* is audited.
ToolsRead ==
  {"dmarc-get", "deliverability-dashboard", "mailbox-autoreply-list", "mail-bounces-list",
   "bounce-suppress-list", "newsletter-stats-get", "newsletter-gdpr-export",
   "newsletter-templates-list", "newsletter-segments-list", "analytics-summary", "analytics-history",
   "git-deploy-get", "git-deploy-log", "wp-toolkit-status", "wp-toolkit-security",
   "woocommerce-status", "maintenance-get", "contact-form-get", "contact-form-embed", "staging-get",
   "bandwidth-usage", "bandwidth-traffic", "redis-get", "memcached-get", "ssh-keys-list",
   "awstats-config", "awstats-run", "seo-404-scan", "ci-pipeline-get", "tickets-list",
   "billing-invoices-list", "carddav-status", "carddav-export-vcf"}
ToolsWrite ==
  {"dmarc-set", "mailbox-autoreply-set", "mailbox-autoreply-apply", "bounce-suppress-add",
   "newsletter-template-save", "newsletter-segment-save", "git-deploy-set", "git-deploy-run",
   "git-deploy-rollback", "wp-toolkit-update", "wp-toolkit-plugins", "wp-toolkit-backup",
   "maintenance-set", "maintenance-nginx", "contact-form-set", "staging-sync", "staging-promote",
   "staging-vhost", "redis-set", "memcached-set", "mongo-create", "ssh-keys-add", "ssh-keys-delete",
   "subdomain-add", "ci-pipeline-set", "ci-pipeline-run", "tickets-create", "tickets-reply",
   "ticket-notify", "billing-invoice-create", "invoice-mark-sent", "invoice-pdf-generate",
   "invoice-payment-link", "carddav-contact-upsert"}
ToolsRoute(s, d, x) ==
  [a \in ToolsRead |-> Answer(s, d, a, x)] @@ [a \in ToolsWrite |-> Act(s, d, a, x)]
=============================================================================
