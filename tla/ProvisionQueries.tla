-------------------------- MODULE ProvisionQueries --------------------------
(***************************************************************************)
(* The commands that answer a question and change nothing: what each one   *)
(* reads, and the programs it asks that may fail.                          *)
(***************************************************************************)
EXTENDS ProvisionStores

\* A question about a file of a domain that has to be known.
Ask(d, f) == Resolve(d) \o Read(f)

\* Probe: a program whose failure is part of the answer.
Probe == Caught(Try)

RedirectList(d) == Ask(d, Redirects(d))
ProxyList(d) == Ask(d, Proxies(d))
AliasList(d) == Ask(d, Aliases(d))
FeatureList(d) == Ask(d, Cfg("features.json", d))
LimitsGet(d) == Ask(d, Limits(d)) \o Read(Registry)
SharedList(d) == Ask(d, Shared(d))
ProtectedList(d) == Ask(d, Protected(d))
ProtectedUsersList(d) == Ask(d, Htpasswd(d))
FtpList(d) == Ask(d, Ftp(d)) \o Read(Passwd)
CronList(d) == Ask(d, Crontab(d)) \o Try
DbList(d) == Ask(d, Databases(d)) \o Try \o Probe
PhpDirectories(d) == Ask(d, Php(d))
PhpIni(d) == Ask(d, Cfg(".user.ini", Owner[d])) \o Read(Php(d))
PhpVersions(d) == Resolve(d) \o Probe
ScriptList(d) == Ask(d, Scripts(d))
RuntimesGet(d) == Ask(d, Runtimes(d)) \o Probe
ModsecurityStatus(d) == Read(Modsecurity(d)) \o Probe
ModsecurityLogs(d) == Probe
DnsGet(d) == Resolve(d) \o FindZonePath(d) \o Read(Zone(d))
LogsTail(d) == Resolve(d) \o Probe
CertbotList(d) == Ask(d, Cert(d)) \o Probe

DomainValidate(d) == Resolve(d) \o Probe \o Read(Registry)

MailList(d) == ListDomainMailUsers(d) \o Probe
MailSettingsGet(d) == Ask(d, MailSettings(d))
MailLogsSearch(d) == Resolve(d) \o Probe
MailDnsHints(d) == Probe
MailBouncesList(d) == Ask(d, Cfg("mail-bounces-index.json", d)) \o Probe
MailboxAutoreplyList(d) == Read(AutoreplyConf(d))
MailboxQuotasGet(d) == Read(Cfg("mailbox-quotas.json", d))
DmarcGet(d) == MailDnsHints(d) \o Read(Cfg("dmarc-settings.json", d))
DeliverabilityDashboard(d) == DmarcGet(d) \o Read(Cfg("security.json", d))
SecurityGet(d) == Ask(d, Cfg("security.json", d)) \o Probe
MalwareStatus(d) == Ask(d, Malware(d)) \o Probe
MalwareListQuarantine(d) == Resolve(d) \o Probe

BackupList(d) == Ask(d, Backups(d)) \o Read(Schedule(d))
BackupResolveDownload(d) == Resolve(d) \o Look(Backups(d), {Row(d)}, {})
BackupScheduleGet(d) == Read(Schedule(d))
BackupListRemote(d) == Read(BackupPolicy(d)) \o Read(CloudStore) \o Probe
BackupPolicyGet(d) == Ask(d, BackupPolicy(d))
BackupArchiveList(d) == BackupResolveDownload(d) \o Try

NewsletterStatsGet(d) == Read(Cfg("newsletter-campaigns.json", d)) \o Read(Cfg("newsletter-tracking.json", d))
BounceSuppressList(d) == Read(Cfg("bounce-suppress.json", d))
NewsletterGdprExport(d) == Read(Cfg("newsletter-subscribers.json", d))
NewsletterTemplatesList(d) == Read(Cfg("newsletter-templates.json", d))
NewsletterSegmentsList(d) == Read(Cfg("newsletter-segments.json", d))

AnalyticsSummary(d) == Resolve(d) \o Probe
Seo404Scan(d) == Probe
GitDeployGet(d) == Read(Git(d))
GitDeployLogGet(d) == Read(GitLog(d))
WpToolkitStatus(d) == Ask(d, WordpressConf(d)) \o Probe
WpToolkitSecurity(d) == Ask(d, WordpressConf(d))
WoocommerceStatus(d) == Ask(d, Public(d))
MaintenanceGet(d) == Read(Maintenance(d))
ContactFormEmbed(d) == Read(ContactForm(d))
StagingGet(d) == Read(Staging(d))
RedisGet(d) == Read(Cfg("redis.json", d))
MemcachedGet(d) == Read(Cfg("memcached.json", d))
CiPipelineGet(d) == Read(Cfg("ci-pipeline.json", d))
SshKeysList(d) == Ask(d, SshKeys(d))
TicketsList(d) == Read(Tickets(d))
BillingInvoicesList(d) == Read(Invoices(d))
CarddavStatus(d) == Ask(d, Cfg("carddav.json", d)) \o Read(Contacts(d))
CarddavExportVcf(d) == Read(Contacts(d))

JellyfinStatus(d) == Read(Jellyfin(d)) \o Read(Registry) \o Ask(d, Library(d)) \o Read(Limits(d)) \o Probe
JellyfinListVideos(d) == Read(Jellyfin(d)) \o Read(Registry) \o Ask(d, Library(d)) \o Probe
\* Outside the library, not a video, empty: refused.
JellyfinStreamResolve(d) == Read(Jellyfin(d)) \o Read(Registry) \o Ask(d, Library(d)) \o Try

ResellerList(x) == Read(PlanStore)
PlanList(x) == Read(PlanStore)
PlanGet(x) == Look(PlanStore, {Plan(x)}, {})
FirewallStatus(x) == Probe
Fail2banStatus(x) == Probe
CloudCredentialsList(x) == Read(CloudStore)
CloudCredentialsResolve(x) == Look(CloudStore, {x}, {})
NodesHealth(x) == Read(Nodes)
NodesRemoteProvision(x) == Try
PanelPolicyGet(x) == Read(Sys("panel-policy.json"))
MetricsSnapshot(x) == Probe \o Outside(Sys("metrics-history.jsonl"), {x}, {})
AdminLicenseGet(x) == Read(Sys("license.json")) \o Read(Registry)
AdminAdminsList(x) == Parse(UsersJson, {}, {})
AdminS3List(x) == Try
AdminServerStatus(x) == Read(Registry) \o Probe
SystemCronList(x) == Read(BackupCron) \o Try
SystemAwstatsSummary(x) == Read(Registry) \o Probe
SystemNetworkSummary(x) == Try \o Probe
DomainHealthBatch(x) == Read(Registry) \o Probe

-----------------------------------------------------------------------------
SiteQueries ==
  ForDomain("redirect-list", RedirectList) @@ ForDomain("proxy-list", ProxyList)
  @@ ForDomain("feature-list", FeatureList) @@ ForDomain("limits-get", LimitsGet)
  @@ ForDomain("protected-list", ProtectedList) @@ ForDomain("protected-users-list", ProtectedUsersList)
  @@ ForDomain("ftp-list", FtpList) @@ ForDomain("cron-list", CronList) @@ ForDomain("db-list", DbList)
  @@ ForDomain("php-directories", PhpDirectories) @@ ForDomain("php-ini", PhpIni)
  @@ ForDomain("php-versions", PhpVersions) @@ ForDomain("script-list", ScriptList)
  @@ ForDomain("runtimes-get", RuntimesGet) @@ ForDomain("modsecurity-status", ModsecurityStatus)
  @@ ForDomain("modsecurity-logs", ModsecurityLogs) @@ ForDomain("dns-get", DnsGet)
  @@ ForDomain("logs-tail", LogsTail) @@ ForDomain("ssl-list", CertbotList)
  @@ ForDomain("domain-validate", DomainValidate)

MailQueries ==
  ForDomain("mail-list", MailList) @@ ForDomain("alias-list", AliasList) @@ ForDomain("shared-list", SharedList)
  @@ ForDomain("mail-settings-get", MailSettingsGet) @@ ForDomain("imap-list", ImapList)
  @@ ForItem("imap-messages", ImapMessages) @@ ForItem("imap-fetch", ImapFetch)
  @@ ForDomain("mail-logs-search", MailLogsSearch) @@ ForDomain("mail-dns-hints", MailDnsHints)
  @@ ForDomain("mail-bounces-list", MailBouncesList) @@ ForDomain("mailbox-autoreply-list", MailboxAutoreplyList)
  @@ ForDomain("mailbox-quotas-get", MailboxQuotasGet) @@ ForDomain("dmarc-get", DmarcGet)
  @@ ForDomain("deliverability-dashboard", DeliverabilityDashboard)
  @@ ForDomain("newsletter-stats-get", NewsletterStatsGet) @@ ForDomain("bounce-suppress-list", BounceSuppressList)
  @@ ForDomain("newsletter-gdpr-export", NewsletterGdprExport)
  @@ ForDomain("newsletter-templates-list", NewsletterTemplatesList)
  @@ ForDomain("newsletter-segments-list", NewsletterSegmentsList)

SafetyQueries ==
  ForDomain("security-get", SecurityGet) @@ ForDomain("malware-status", MalwareStatus)
  @@ ForDomain("malware-quarantine-list", MalwareListQuarantine)
  @@ ForDomain("backup-list", BackupList) @@ ForDomain("backup-resolve", BackupResolveDownload)
  @@ ForDomain("backup-schedule-get", BackupScheduleGet) @@ ForDomain("backup-list-remote", BackupListRemote)
  @@ ForDomain("backup-policy-get", BackupPolicyGet) @@ ForDomain("backup-archive-list", BackupArchiveList)

ToolQueries ==
  ForDomain("analytics-summary", AnalyticsSummary) @@ ForDomain("seo-404-scan", Seo404Scan)
  @@ ForDomain("git-deploy-get", GitDeployGet) @@ ForDomain("git-deploy-log", GitDeployLogGet)
  @@ ForDomain("wp-toolkit-status", WpToolkitStatus) @@ ForDomain("wp-toolkit-security", WpToolkitSecurity)
  @@ ForDomain("woocommerce-status", WoocommerceStatus) @@ ForDomain("maintenance-get", MaintenanceGet)
  @@ ForDomain("contact-form-embed", ContactFormEmbed) @@ ForDomain("staging-get", StagingGet)
  @@ ForDomain("redis-get", RedisGet) @@ ForDomain("memcached-get", MemcachedGet)
  @@ ForDomain("ci-pipeline-get", CiPipelineGet) @@ ForDomain("ssh-keys-list", SshKeysList)
  @@ ForDomain("tickets-list", TicketsList) @@ ForDomain("billing-invoices-list", BillingInvoicesList)
  @@ ForDomain("carddav-status", CarddavStatus) @@ ForDomain("carddav-export-vcf", CarddavExportVcf)
  @@ ForDomain("jellyfin-status", JellyfinStatus) @@ ForDomain("jellyfin-list-videos", JellyfinListVideos)
  @@ ForDomain("jellyfin-stream-resolve", JellyfinStreamResolve)

AdminQueries ==
  ForHost("reseller-list", ResellerList) @@ ForHost("plan-list", PlanList) @@ ForHost("plan-get", PlanGet)
  @@ ForHost("firewall-status", FirewallStatus) @@ ForHost("fail2ban-status", Fail2banStatus)
  @@ ForHost("cloud-credentials-list", CloudCredentialsList) @@ ForHost("nodes-health", NodesHealth)
  @@ ForHost("nodes-remote-provision", NodesRemoteProvision) @@ ForHost("panel-policy-get", PanelPolicyGet)
  @@ ForHost("metrics-snapshot", MetricsSnapshot) @@ ForHost("admin-license", AdminLicenseGet)
  @@ ForHost("admin-admins-list", AdminAdminsList) @@ ForHost("admin-s3-buckets", AdminS3List)
  @@ ForHost("admin-s3-files", AdminS3List) @@ ForHost("admin-server-status", AdminServerStatus)
  @@ ForHost("system-cron-list", SystemCronList) @@ ForHost("system-awstats-summary", SystemAwstatsSummary)
  @@ ForHost("system-network-summary", SystemNetworkSummary)
  @@ ForHost("domain-health-batch", DomainHealthBatch)

QueryCommands == SiteQueries @@ MailQueries @@ SafetyQueries @@ ToolQueries @@ AdminQueries
=============================================================================
