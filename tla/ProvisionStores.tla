--------------------------- MODULE ProvisionStores ---------------------------
(***************************************************************************)
(* The commands that keep a list or a setting of a domain or of the panel: *)
(* features, limits and plans, resellers, firewall, security, malware      *)
(* scans, tickets, invoices, staging, Git, media library, panel            *)
(* administrators (provision-panel-phase1 to phase4, -complete, -billing,  *)
(* -malware, -security, -admin, -jellyfin).                                *)
(***************************************************************************)
EXTENDS MailFolders

Enabled == <<"enabled", "true">>

Shared(d) == Cfg("shared-addresses.json", d)
SharedCreate(d, x) == Resolve(d) \o AddNew(Shared(d), x)
SharedDelete(d, x) == Edit(Shared(d), {}, {x})

FeatureSet(d, x) == Resolve(d) \o Edit(Cfg("features.json", d), {x}, {})

\* The limit is on file before the registry is read; the row gets a copy.
Limits(d) == Cfg("limits.json", d)
LimitsSet(d, x) ==
  Rewrite(Limits(d), {x})
  \o Read(Registry) \o When(Save(Registry, {<<x, d>>}, Items \X {d}), Registry, Row(d))

PlanStore == Sys("native-plans-resellers.json")
Plan(x) == <<"plan", x>>
Reseller(x) == <<"reseller", x>>

\* The limits of the plan, the row again with the plan, the domain's package.
PlanApplyToDomain(d, x) ==
  Look(PlanStore, {Plan(x)}, {})
  \o LimitsSet(d, x)
  \o Read(Registry) \o When(Save(Registry, {<<x, d>>, <<"plan", d>>}, Items \X {d}), Registry, Row(d))
  \o Rewrite(Cfg("package.json", d), {x})

PlanUpsert(x) == Edit(PlanStore, {Plan(x)}, {})
PlanCreate(x) == AddNew(PlanStore, Plan(x))
PlanDelete(x) == Edit(PlanStore, {}, {Plan(x)})
ResellerCreate(x) == AddNew(PlanStore, Reseller(x))
ResellerDelete(x) == Edit(PlanStore, {}, {Reseller(x)})

Ufw == Sys("ufw")
FirewallAllow(x) == Outside(Ufw, {x}, {})
FirewallDeny(x) == Caught(Outside(Ufw, {}, {x})) \o Outside(Ufw, {<<"deny", x>>}, {})

-----------------------------------------------------------------------------
ApplySecurity == Try
SecuritySetSpam(d) == Resolve(d) \o Edit(Cfg("security.json", d), {<<"spam", "on">>}, {}) \o ApplySecurity
SecuritySetDkim(d) == Resolve(d) \o Edit(Cfg("security.json", d), {<<"dkim", "on">>}, {}) \o ApplySecurity

\* The scan line of a domain is in the crontab of its unix user; every scan
\* line there is taken out, those of the domains that share the user too.
Malware(d) == Cfg("malware.json", d)
Scan(d) == <<"malware scan", d>>
SyncMalwareCron(d, lines) ==
  Read(Crontab(d)) \o EditWhole(Crontab(d), lines, {Scan(e) : e \in {x \in Domains : Owner[x] = Owner[d]}})

MalwareScheduleSet(d) ==
  Resolve(d) \o Edit(Malware(d), {Enabled}, {}) \o Resolve(d) \o SyncMalwareCron(d, {Scan(d)})
MalwareScheduleOff(d) ==
  Resolve(d) \o Edit(Malware(d), {}, {Enabled}) \o Resolve(d) \o SyncMalwareCron(d, {})

\* The settings are read before the scan, of up to 30 minutes, and written
\* back with its result.
MalwareScanDomain(d) ==
  Resolve(d) \o Read(Malware(d)) \o Caught(Try)
  \o Rewrite(Cfg("clamav.log", d), {Row(d)}) \o Save(Malware(d), {<<"lastScanAt", d>>}, {})

CloudStore == Sys("cloud-credentials.json")
CloudCredentialsSave(x) == Edit(CloudStore, {x}, {})

-----------------------------------------------------------------------------
\* The counter of the domain, then the one of the campaign if it has one.
NewsletterTrackRecord(d, x) ==
  LET campaigns == Cfg("newsletter-campaigns.json", d)
  IN  Edit(Cfg("newsletter-tracking.json", d), {x}, {})
      \o Read(campaigns) \o When(Save(campaigns, {<<"opened", x>>}, {}), campaigns, x)

NewsletterTemplateSave(d, x) == Edit(Cfg("newsletter-templates.json", d), {x}, {})
NewsletterSegmentSave(d, x) == Edit(Cfg("newsletter-segments.json", d), {x}, {})

\* Suppressed, then unsubscribed.
BounceSuppressAdd(d, x) ==
  Edit(Cfg("bounce-suppress.json", d), {x}, {})
  \o Edit(Cfg("newsletter-subscribers.json", d), {<<"unsubscribed", x>>}, {x})

AutoreplyConf(d) == Cfg("mailbox-autoreply.json", d)
MailboxAutoreplyApply(d, user) ==
  Look(AutoreplyConf(d), {user}, {}) \o Resolve(d) \o Try \o ApplyAutoresponderSieve(d, {user})

MailboxQuotaSet(d, user) == Edit(Cfg("mailbox-quotas.json", d), {user}, {})

-----------------------------------------------------------------------------
Git(d) == Cfg("git-deploy.json", d)
GitLog(d) == Cfg("git-deploy-log.jsonl", d)

GitDeploySet(d, x) == Rewrite(Git(d), {x})

\* The settings are read, the tree fetched, the settings written back.
GitDeployRun(d, x) ==
  Resolve(d) \o Look(Git(d), {x}, {}) \o Outside(Public(d), {<<"commit", x>>}, {})
  \o Save(Git(d), {<<"lastDeploy", x>>}, {}) \o Outside(GitLog(d), {<<"deploy", x>>}, {})

GitDeployRollback(d, x) ==
  Resolve(d) \o Outside(Public(d), {}, {<<"commit", x>>}) \o Outside(GitLog(d), {<<"rollback", x>>}, {})

\* Only where there is a WordPress: its core, its plugins.
WpUpdate(d, what) ==
  Resolve(d) \o Look(WordpressConf(d), {Wordpress}, {}) \o Outside(Public(d), {<<"updated", what>>}, {})
WpToolkitUpdate(d) == WpUpdate(d, "core")
WpToolkitPlugins(d) == WpUpdate(d, "plugins")
WpToolkitBackup(d) == Resolve(d) \o BackupCreate(d, "website")

Maintenance(d) == Cfg("maintenance.json", d)
Flag(d) == Cfg(".maintenance", Owner[d])
MaintenanceSet(d) == Resolve(d) \o Rewrite(Maintenance(d), {Enabled}) \o Rewrite(Flag(d), {Enabled})
MaintenanceOff(d) == Resolve(d) \o Rewrite(Maintenance(d), {}) \o Caught(Wipe({Flag(d)}))

\* The page, the snippet, a reload that may fail.
Snippet(d) == Cfg("qadbak-maint.conf", d)
MaintenanceNginx(d) ==
  Resolve(d) \o Rewrite(Cfg(".maintenance-nginx.html", Owner[d]), {Enabled})
  \o Rewrite(Snippet(d), {Enabled}) \o Caught(Reload)
MaintenanceNginxOff(d) == Caught(Wipe({Snippet(d)})) \o Caught(Reload)

ContactForm(d) == Cfg("contact-form.json", d)
ListId == <<"listId", "default">>

\* A question that writes: the form gets its list the first time it is asked.
ContactFormGet(d) ==
  Read(ContactForm(d)) \o Unless(Save(ContactForm(d), {ListId, Enabled}, {}), ContactForm(d), ListId)
ContactFormSet(d, x) == Edit(ContactForm(d), {x}, {})
\* The log is read from one name and written to another: one entry is kept.
ContactFormSubmit(d, x) ==
  Look(ContactForm(d), {Enabled, ListId}, {}) \o MailSendDirect(d, x)
  \o Read(Cfg("contact-form-log.jsonl", d)) \o Rewrite(Cfg("contact-form-log.json", d), {x})

-----------------------------------------------------------------------------
Staging(d) == Cfg("staging.json", d)
StagingTree(d) == Cfg("staging", Owner[d])

StagingSync(d) ==
  Resolve(d) \o Read(Staging(d)) \o Copy(Public(d), StagingTree(d))
  \o Save(Staging(d), {Enabled}, {})
\* rsync without --delete: what is only live stays.
StagingPromote(d, x) == Resolve(d) \o Outside(Public(d), {x}, {})
StagingVhost(d) == Resolve(d) \o Caught(Try) \o Edit(Staging(d), {<<"vhost", "applied">>}, {})

\* Questions that keep a history.
BandwidthUsage(d) == Resolve(d) \o Read(Limits(d)) \o Edit(Cfg("bandwidth-history.json", d), {Row(d)}, {})
BandwidthTraffic(d) == Resolve(d) \o Edit(Cfg("traffic-history.json", d), {Row(d)}, {})
AnalyticsHistory(d) == Edit(Cfg("analytics-history.json", d), {Row(d)}, {})
AwstatsConfig(d) ==
  Resolve(d) \o Read(Cfg("awstats.json", d))
  \o When(Save(Cfg("awstats.json", d), {<<"snippet", d>>}, {}), Cfg("awstats.json", d), Enabled)
AwstatsRun(d) == Read(Cfg("awstats.json", d)) \o Caught(Try)

RedisSet(d, x) == Rewrite(Cfg("redis.json", d), {x})
MemcachedSet(d, x) == Rewrite(Cfg("memcached.json", d), {x})
MongoCreate(d, x) == Resolve(d) \o Outside(Sys("mongodb"), {<<x, d>>}, {})
CiPipelineSet(d, x) == Rewrite(Cfg("ci-pipeline.json", d), {x})
CiPipelineRun(d, x) == Resolve(d) \o Read(Cfg("ci-pipeline.json", d)) \o Outside(Public(d), {x}, {})
SubdomainAdd(d, x) == Caught(DnsAdd(d, x)) \o Resolve(d) \o Outside(Public(d), {<<"sub", x>>}, {})

SshKeys(d) == Cfg("authorized_keys", Owner[d])
SshKeysAdd(d, x) == Resolve(d) \o Outside(SshKeys(d), {x}, {}) \o Caught(Try)
\* By the line number the panel saw.
SshKeysDelete(d, x) == Resolve(d) \o Look(SshKeys(d), {x}, {}) \o Save(SshKeys(d), {}, {x})

-----------------------------------------------------------------------------
Tickets(d) == Cfg("support-tickets.json", d)
Invoices(d) == Cfg("billing-invoices.json", d)
Contacts(d) == Cfg("carddav-contacts.json", d)

TicketsCreate(d, x) == Edit(Tickets(d), {x}, {})
TicketsReply(d, x) == Look(Tickets(d), {x}, {}) \o Save(Tickets(d), {<<"reply", x>>}, {})
TicketNotify(d, x) == MailSendDirect(d, x)

BillingInvoiceCreate(d, x) == Edit(Invoices(d), {x}, {})
InvoiceMarkSent(d, x) == Look(Invoices(d), {x}, {}) \o Save(Invoices(d), {<<"sent", x>>}, {})
InvoicePdfGenerate(d, x) ==
  Look(Invoices(d), {x}, {}) \o Rewrite(Cfg("invoice.html", d), {x}) \o Save(Invoices(d), {<<"pdf", x>>}, {})
\* The list is read, the payment created at the provider, the list written back.
InvoicePaymentLink(d, x) ==
  Look(Invoices(d), {x}, {}) \o Outside(Sys("payments"), {<<x, d>>}, {})
  \o Save(Invoices(d), {<<"link", x>>}, {})

CarddavContactUpsert(d, x) == Edit(Contacts(d), {x}, {})

Nodes == Sys("cluster-nodes.json")
NodesRegister(x) == Edit(Nodes, {x}, {})
\* Every node is asked before the list that was read is written back.
NodesPingHealth(x) == Read(Nodes) \o Caught(Try) \o Save(Nodes, {}, {})
PanelPolicySet(x) == Rewrite(Sys("panel-policy.json"), {x})

-----------------------------------------------------------------------------
Library(d) == Cfg("media-library.json", d)
Jellyfin(d) == Cfg("jellyfin.json", d)
Player == <<"container", "jellyfin">>

\* The row of the media sub-domain goes in before anything else is made;
\* the records of the application come last.
EnsureMediaSubdomain(d, sub) ==
  Read(Registry)
  \o UnlessFound(Look(Registry, {Row(d)}, {}) \o Save(Registry, {Row(sub)}, {}) \o ApplyNginx(sub), Registry, Row(sub))

JellyfinInstall(d, sub) ==
  Resolve(d) \o EnsureMediaSubdomain(d, sub) \o Read(Library(d))
  \o Outside(Cfg("jellyfin compose", Owner[d]), {Player}, {}) \o Try \o Outside(Containers, {Player}, {})
  \o Caught(DnsAdd(d, MailA(sub)))
  \o Edit(Proxies(sub), {Player}, {}) \o ApplyNginx(sub) \o Caught(SslIssue(sub))
  \o Rewrite(Jellyfin(d), {Row(sub)}) \o Rewrite(Library(d), {Row(d)})
  \o Edit(Scripts(d), {Player}, {})

\* The folder is on file before the container is made anew.
JellyfinSetMediaPath(d, x) ==
  Read(Jellyfin(d)) \o Resolve(d) \o Try \o Rewrite(Library(d), {x})
  \o When(Outside(Cfg("jellyfin compose", Owner[d]), {Player}, {}) \o Outside(Containers, {Player}, {})
          \o Save(Jellyfin(d), {<<"mediaPath", x>>}, {}), Jellyfin(d), Row(d))

-----------------------------------------------------------------------------
AdminState == Sys("native-admin-state.json")
Templates == Sys("native-templates.json")
Admin(x) == <<x, "admin">>

AdminTemplatesList(x) ==
  Read(Templates) \o Unless(Rewrite(Templates, {<<"template", "Default">>}), Templates, <<"template", "Default">>)

AdminAdminsCreate(x) ==
  Parse(UsersJson, {}, {Account(x)}) \o Try \o Save(UsersJson, {Account(x), Admin(x)}, {})

\* "Cannot delete the last panel administrator."
AdminAdminsDelete(x) ==
  Parse(UsersJson, {Admin(x)}, {})
  \o <<[Refusal EXCEPT !.lacks = {<<UsersJson, Admin(y)>> : y \in Items \ {x}}]>>
  \o Save(UsersJson, {}, {Account(x), Admin(x)} \cup ({x} \X Domains))

Defaults == <<"globalFeatures", "defaults">>
\* A question that writes the defaults.
AdminGlobalFeaturesList(x) == Read(AdminState) \o Unless(Save(AdminState, {Defaults}, {}), AdminState, Defaults)
AdminGlobalFeatureSet(x) == Edit(AdminState, {Defaults, x}, {})
AdminConfigSystem(x) == Caught(Reload)
AdminCheckConfig(x) == Caught(Try) \o Read(Registry) \o Edit(AdminState, {<<"lastCheckConfig", x>>}, {})
AdminS3Upload(x) == Try \o Outside(Sys("bucket"), {x}, {})
-----------------------------------------------------------------------------
AccountCommands ==
  ForItem("shared-create", SharedCreate) @@ ForItem("shared-delete", SharedDelete)
  @@ ForItem("feature-set", FeatureSet) @@ ForItem("limits-set", LimitsSet)
  @@ ForItem("plan-apply", PlanApplyToDomain) @@ ForHost("plan-upsert", PlanUpsert)
  @@ ForHost("plan-create", PlanCreate) @@ ForHost("plan-delete", PlanDelete)
  @@ ForHost("reseller-create", ResellerCreate) @@ ForHost("reseller-delete", ResellerDelete)

HardeningCommands ==
  ForHost("firewall-allow", FirewallAllow) @@ ForHost("firewall-deny", FirewallDeny)
  @@ ForDomain("security-spam", SecuritySetSpam) @@ ForDomain("security-dkim", SecuritySetDkim)
  @@ ForDomain("malware-schedule-set", MalwareScheduleSet) @@ ForDomain("malware-schedule-off", MalwareScheduleOff)
  @@ ForDomain("malware-scan", MalwareScanDomain) @@ ForHost("cloud-credentials-save", CloudCredentialsSave)

MessageCommands ==
  ForItem("mail-send", MailSendDirect) @@ ForItem("mail-draft-save", MailDraftSaveDirect)
  @@ ForItem("imap-copy", ImapCopy) @@ ForItem("newsletter-track-record", NewsletterTrackRecord)
  @@ ForItem("newsletter-template-save", NewsletterTemplateSave)
  @@ ForItem("newsletter-segment-save", NewsletterSegmentSave)
  @@ ForItem("bounce-suppress-add", BounceSuppressAdd)
  @@ ForItem("mailbox-autoreply-apply", MailboxAutoreplyApply)
  @@ ForItem("mailbox-quota-set", MailboxQuotaSet)

ToolCommands ==
  ForItem("git-deploy-set", GitDeploySet) @@ ForItem("git-deploy-run", GitDeployRun)
  @@ ForItem("git-deploy-rollback", GitDeployRollback)
  @@ ForDomain("wp-toolkit-update", WpToolkitUpdate) @@ ForDomain("wp-toolkit-plugins", WpToolkitPlugins)
  @@ ForDomain("wp-toolkit-backup", WpToolkitBackup)
  @@ ForDomain("maintenance-set", MaintenanceSet) @@ ForDomain("maintenance-off", MaintenanceOff)
  @@ ForDomain("maintenance-nginx", MaintenanceNginx) @@ ForDomain("maintenance-nginx-off", MaintenanceNginxOff)
  @@ ForDomain("contact-form-get", ContactFormGet) @@ ForItem("contact-form-set", ContactFormSet)
  @@ ForItem("contact-form-submit", ContactFormSubmit)

SiteToolCommands ==
  ForDomain("staging-sync", StagingSync) @@ ForItem("staging-promote", StagingPromote)
  @@ ForDomain("staging-vhost", StagingVhost) @@ ForDomain("bandwidth-usage", BandwidthUsage)
  @@ ForDomain("bandwidth-traffic", BandwidthTraffic) @@ ForDomain("analytics-history", AnalyticsHistory)
  @@ ForDomain("awstats-config", AwstatsConfig) @@ ForDomain("awstats-run", AwstatsRun)
  @@ ForItem("redis-set", RedisSet) @@ ForItem("memcached-set", MemcachedSet)
  @@ ForItem("mongo-create", MongoCreate) @@ ForItem("ci-pipeline-set", CiPipelineSet)
  @@ ForItem("ci-pipeline-run", CiPipelineRun) @@ ForItem("subdomain-add", SubdomainAdd)
  @@ ForItem("ssh-keys-add", SshKeysAdd) @@ ForItem("ssh-keys-delete", SshKeysDelete)

OfficeCommands ==
  ForItem("tickets-create", TicketsCreate) @@ ForItem("tickets-reply", TicketsReply)
  @@ ForItem("ticket-notify", TicketNotify) @@ ForItem("billing-invoice-create", BillingInvoiceCreate)
  @@ ForItem("invoice-mark-sent", InvoiceMarkSent) @@ ForItem("invoice-pdf-generate", InvoicePdfGenerate)
  @@ ForItem("invoice-payment-link", InvoicePaymentLink)
  @@ ForItem("carddav-contact-upsert", CarddavContactUpsert)
  @@ ForHost("nodes-register", NodesRegister) @@ ForHost("nodes-ping-health", NodesPingHealth)
  @@ ForHost("panel-policy-set", PanelPolicySet)

MediaCommands ==
  [c \in {"jellyfin-install"} \X Domains \X Domains |-> JellyfinInstall(c[2], c[3])]
  @@ ForItem("jellyfin-set-media-path", JellyfinSetMediaPath)

AdminCommands ==
  ForHost("admin-templates", AdminTemplatesList) @@ ForHost("admin-admins-create", AdminAdminsCreate)
  @@ ForHost("admin-admins-delete", AdminAdminsDelete)
  @@ ForHost("admin-global-features", AdminGlobalFeaturesList)
  @@ ForHost("admin-global-feature-set", AdminGlobalFeatureSet)
  @@ ForHost("admin-config-system", AdminConfigSystem) @@ ForHost("admin-check-config", AdminCheckConfig)
  @@ ForHost("admin-s3-upload", AdminS3Upload)

StoreCommands ==
  AccountCommands @@ HardeningCommands @@ MessageCommands @@ ToolCommands
  @@ SiteToolCommands @@ OfficeCommands @@ MediaCommands @@ AdminCommands
=============================================================================
