------------------------------ MODULE HostRoutes ------------------------------
(***************************************************************************)
(* The other request handlers: signing in and out, the mobile app, the     *)
(* list and creation of domains, the administrator's pages, the API for    *)
(* keys, the public forms.  As in DomainRoutes, one record per route file. *)
(* Signing in counts for a user, not for a token: x.                       *)
(***************************************************************************)
EXTENDS DomainRoutes

AdminCall(s, op, x) == RequireAdmin(s) \o Call(s, op, Host, x)
AdminChange(s, op, x) == AdminCall(s, op, x) \o Audit(s)

-----------------------------------------------------------------------------
(* Signing in and out.                                                     *)

GetPanelPolicy(x) == Caught(Helper("panel-policy-get", Host, x))

\* A wrong password is counted against the address and the name.
LoginRoute(s, d, x) ==
  ("POST" :> CheckLoginRateLimit(x) \o FindUser(x) \o GetPanelPolicy(x) \o Audit(x))
  @@ ("POST wrong" :> CheckLoginRateLimit(x) \o Parse(UsersJson, {}, {}) \o RecordLoginRateLimitFailure(x) \o Audit(x))
  @@ ("POST totp" :> Parse(UsersJson, {Account(x), Totp(x)}, {}) \o CheckLoginRateLimit(x) \o Audit(x))
MobileLoginRoute(s, d, x) ==
  ("POST" :> CheckLoginRateLimit(x) \o FindUser(x) \o GetPanelPolicy(x) \o IssueMobileTokens(x, s) \o Audit(x))
  @@ ("POST totp" :> Parse(UsersJson, {Account(x), Totp(x)}, {}) \o CheckLoginRateLimit(x)
                     \o IssueMobileTokens(x, s) \o Audit(x))

\* Public: a failure in between is swallowed, the answer is ok.
LogoutRoute(s, d, x) == [POST |-> Caught(MarkUserLoggedOut(UserOf[s]) \o RevokeSessionJti(s))]
MeRoute(s, d, x) == [GET |-> VerifySessionToken(s)]
TotpRoute(s, d, x) ==
  LET u == UserOf[s]
  IN  [GET |-> RequireSession(s) \o FindUser(u)]
      @@ ("POST enable" :> RequireSession(s) \o FindUser(u) \o SetUserTotpSecret(u, {Totp(u)}, {}) \o Audit(s))
      @@ ("POST disable" :> RequireSession(s) \o FindUser(u) \o SetUserTotpSecret(u, {}, {Totp(u)}) \o Audit(s))

\* The token s presents is the one user x holds at first.
RefreshRoute(s, d, x) ==
  [POST |-> MutateBucket(RefreshBucket, x) \o FindUserIdForRefreshToken(Token(x, x)) \o FindUser(x)
            \o RotateMobileRefreshToken(Token(x, x), s) \o Audit(x)]
MobileLogoutRoute(s, d, x) ==
  ("POST" :> RequireSession(s) \o RevokeMobileRefreshToken(Token(UserOf[s], UserOf[s]))
             \o RevokeSessionJti(s) \o Audit(s))
  @@ ("POST allDevices" :> RequireSession(s) \o RevokeAllMobileRefreshTokens(UserOf[s])
                           \o MarkUserLoggedOut(UserOf[s]) \o Audit(s))

\* The middleware's question to the server.
SessionRevocationRoute(s, d, x) == [POST |-> Read(Revocations)]

-----------------------------------------------------------------------------
(* The mobile app.                                                         *)

PushTokens == Sys("mobile-push-tokens.json")
Device(u) == <<"device", u>>
RegisterMobilePushToken(u) == Edit(PushTokens, {Device(u)}, {})
\* Saved only when the list has the device.
UnregisterMobilePushToken(u) ==
  Read(PushTokens) \o When(Save(PushTokens, {}, {Device(u)}), PushTokens, Device(u))

\* Everybody on the list gets an alert that is not in the state yet, domain by
\* domain; the state is written once, at the end, if anything was delivered.
AlertState == Sys("mobile-push-alert-state.json")
Apns == Sys("apns")
Sent(d) == <<"sent", d>>
BroadcastAlert(d, by) ==
  Script(Read(PushTokens) \o Parse(UsersJson, {}, {})) \o Outside(Apns, {<<"alert", d, by>>}, {})

EvaluateMobilePushAlerts(by, d, x) ==
  Helper("domain-health-batch", Host, x) \o Read(AlertState)
  \o Unless(BroadcastAlert(d, by) \o Save(AlertState, {Sent(d)}, {}), AlertState, Sent(d))

\* The schedulers' ticks swallow what goes wrong.
PushTick(s, d, x) == [tick |-> Caught(Script(EvaluateMobilePushAlerts(Host, d, x)))]
HeartbeatTick(s, d, x) ==
  ("tick" :> Caught(Script(HeartbeatLicense("active"))))
  @@ ("tick expired" :> Caught(Script(HeartbeatLicense("expired"))))
  @@ ("tick revoked" :> Caught(Script(HeartbeatRevoked)))

BootstrapRoute(s, d, x) == [GET |-> RequireSession(s) \o Read(License) \o ProbeLiveFilesystem \o GetLicensePublicInfo]
PushRegisterRoute(s, d, x) ==
  [POST |-> RequireSession(s) \o RegisterMobilePushToken(UserOf[s]),
   DELETE |-> RequireSession(s) \o UnregisterMobilePushToken(UserOf[s])]
WidgetsRoute(s, d, x) == [GET |-> RequireSession(s) \o Helper("domain-health-batch", Host, x) \o Caught(Script(ListDomains))]

-----------------------------------------------------------------------------
(* Domains.                                                                *)

\* A client account, a panel of its own, the repair and the backup schedule
\* are tried one after the other; none of them undoes the domain.  A domain
\* that is not in the list afterwards is an answer 502, and no journal entry.
DoCreateDomain(s, d, x) ==
  RequireAdmin(s)
  \o Handled(
       CreateDomain(s, d, x) \o FindDomain(d) \o Audit(s) \o Read(License)
       \o When(Caught(Script(UpsertPanelClient(x, d))) \o Caught(Script(EnsurePanelVhost(d))), License, Active)
       \o Caught(Script(RepairAvailable \o RepairDomainWebsite(d)))
       \o Caught(Helper("backup-schedule-ensure", d, x)) \o JournalEntry(s, "done"),
       JournalEntry(s, "failed"))
DomainsRoute(s, d, x) ==
  [GET |-> RequireSession(s) \o ListDomains \o Audit(s), POST |-> DoCreateDomain(s, d, x)]
HealthOverviewRoute(s, d, x) ==
  [GET |-> VerifySessionToken(s) \o Helper("domain-health-batch", Host, x) \o Caught(Script(ListDomains))]

\* Links into the legacy panel: where there is none the call fails.
HostingEmbedLinkRoute(s, d, x) == [GET |-> RequireDomainApi(s, d) \o Read(Passwd) \o Fail]
LegacyPanelLinkRoute(s, d, x) == [GET |-> RequireDomainApi(s, d) \o ListDomains \o Fail]
AdminLegacyPanelLinkRoute(s, d, x) == [GET |-> RequireAdmin(s) \o Fail]

GetPanelClientStatus(d) == RequirePremiumFeature \o Parse(UsersJson, {}, {}) \o Read(PanelVhost(d))
PanelClientRoute(s, d, x) ==
  [GET |-> RequireAdmin(s) \o GetPanelClientStatus(d)]
  @@ ("POST upsert-client" :> RequireAdmin(s) \o UpsertPremiumClient(x, d) \o GetPanelClientStatus(d))
  @@ ("POST apply-vhost" :> RequireAdmin(s) \o EnsurePanelVhost(d) \o GetPanelClientStatus(d))

-----------------------------------------------------------------------------
(* Administrator: accounts, keys, plans, policy.                           *)

AdminsRoute(s, d, x) ==
  [GET |-> AdminCall(s, "listAdmins", x), POST |-> AdminChange(s, "createAdmin", x),
   DELETE |-> AdminChange(s, "deleteAdmin", x)]
ApiKeysRoute(s, d, x) ==
  [GET |-> RequireAdmin(s) \o Read(ApiKeys), POST |-> RequireAdmin(s) \o CreateApiKey(x) \o Audit(s),
   DELETE |-> RequireAdmin(s) \o RevokeApiKey(x) \o Audit(s)]
PlansRoute(s, d, x) ==
  [GET |-> AdminCall(s, "listPlans", x), POST |-> AdminChange(s, "createPlan", x),
   DELETE |-> AdminChange(s, "deletePlan", x)]
ResellersRoute(s, d, x) ==
  [GET |-> AdminCall(s, "listResellers", x), POST |-> AdminChange(s, "createReseller", x),
   DELETE |-> AdminChange(s, "deleteReseller", x)]
PanelPolicyRoute(s, d, x) ==
  [GET |-> AdminCall(s, "panel-policy-get", x), POST |-> AdminChange(s, "panel-policy-set", x)]
SystemRoute(s, d, x) ==
  [GET |-> AdminCall(s, "listGlobalFeatures", x)]
  @@ ("POST feature" :> AdminChange(s, "setGlobalFeature", x) \o Call(s, "listGlobalFeatures", Host, x))
  @@ ("POST config-system" :> AdminChange(s, "runConfigSystem", x))
TemplatesRoute(s, d, x) == [GET |-> AdminCall(s, "listTemplates", x)]
CheckConfigRoute(s, d, x) == [GET |-> AdminChange(s, "checkServerConfig", x)]

LicenseRoute(s, d, x) ==
  [GET |-> RequireAdmin(s) \o ListDomains \o GetLicensePublicInfo \o Read(License)]
  @@ ("POST activate" :> RequireAdmin(s) \o Read(License) \o Journalled(s, ActivateLicense(x))
                         \o Audit(s) \o GetLicensePublicInfo)
  @@ ("POST deactivate" :> RequireAdmin(s) \o Read(License)
                           \o Journalled(s, ClearStoredLicense)
                           \o Audit(s) \o GetLicensePublicInfo)
  @@ ("POST heartbeat" :> RequireAdmin(s) \o HeartbeatLicense("active") \o Audit(s) \o GetLicensePublicInfo)
  @@ ("POST heartbeat expired" :>
        RequireAdmin(s) \o HeartbeatLicense("expired") \o Audit(s) \o GetLicensePublicInfo)
  @@ ("POST heartbeat revoked" :>
        RequireAdmin(s) \o HeartbeatRevoked \o Audit(s) \o GetLicensePublicInfo)
LicenseActivationsRoute(s, d, x) ==
  [GET |-> RequireAdmin(s) \o Read(License) \o When(Try, License, Stored),
   DELETE |-> RequireAdmin(s) \o LicenseActivations \o Audit(s)]

\* BrandingFile is read for what the request leaves out; the logo is a file of
\* its own, written or removed after it.
Branding == Sys("branding.json")
Logo == Sys("logo.png")
SavePanelBranding(x) == Read(Branding) \o Read(Logo) \o Rewrite(Branding, {x}) \o Rewrite(Logo, {x})
ResetPanelBranding == Wipe({Branding}) \o Wipe({Logo})
AdminBrandingRoute(s, d, x) ==
  [GET |-> RequireAdmin(s) \o Read(Branding) \o Read(Logo)]
  @@ ("PUT" :> RequireAdmin(s) \o RequirePremiumFeature \o SavePanelBranding(x) \o Audit(s))
  @@ ("PUT reset" :> RequireAdmin(s) \o RequirePremiumFeature \o ResetPanelBranding \o Audit(s))
BrandingRoute(s, d, x) == [GET |-> Read(Branding) \o Read(Logo)]
BrandingLogoRoute(s, d, x) == [GET |-> Read(Logo)]

-----------------------------------------------------------------------------
(* Administrator: the server.                                              *)

FirewallRoute(s, d, x) ==
  [GET |-> AdminCall(s, "firewall-status", x)]
  @@ ("POST allow" :> AdminChange(s, "firewall-allow", x))
  @@ ("POST deny" :> AdminChange(s, "firewall-deny", x))
Fail2banRoute(s, d, x) == [GET |-> AdminCall(s, "fail2ban-status", x)]
SecuritySnapshotRoute(s, d, x) ==
  [GET |-> RequireAdmin(s) \o Caught(Helper("firewall-status", Host, x)) \o Caught(Helper("fail2ban-status", Host, x))]
MetricsHistoryRoute(s, d, x) ==
  [GET |-> RequireAdmin(s) \o ReadMetricsHistory, POST |-> AdminCall(s, "metrics-snapshot", x)]
HostMetricsRoute(s, d, x) == [GET |-> RequireAdmin(s) \o GetHostMetrics]
AdminHealthRoute(s, d, x) == [GET |-> RequireAdmin(s) \o RunHealthChecks(d)]
AwstatsRoute(s, d, x) == [GET |-> AdminCall(s, "system-awstats-summary", x)]
AdminCronRoute(s, d, x) == [GET |-> AdminCall(s, "system-cron-list", x)]
NetworkingRoute(s, d, x) == [GET |-> AdminCall(s, "system-network-summary", x)]
VmStatusRoute(s, d, x) == [GET |-> AdminCall(s, "getNativeServerStatus", x) \o ListDomains]
ServerRoute(s, d, x) ==
  [GET |-> RequireAdmin(s) \o ListAdminBandwidth(d) \o ListAdminServerServices,
   POST |-> RequireAdmin(s) \o ControlAdminServerService(x) \o Audit(s)]

\* The answer to a change has the checks run again.
StackAdminRoute(s, d, x) ==
  LET gate == RequireAdmin(s) \o ProbeStackHelperSudo
      Change(steps) == gate \o Script(steps) \o Audit(s) \o ValidateStackConfig
  IN  [GET |-> gate \o ValidateStackConfig]
      @@ ("POST nginx-reload" :> Change(CmdNginxReload))
      @@ ("POST apply-nginx-vhosts" :> Change(CmdApplyNginxVhosts(d)))
      @@ ("POST apply-php-fpm-pools" :> Change(CmdApplyPhpFpmPools(d)))
      @@ ("POST ufw-allow" :> Change(CmdUfwAllow(x)))
PanelControlRoute(s, d, x) ==
  [GET |-> RequireAdmin(s) \o ProbePanelPm2Sudo \o ListPanelPm2Processes,
   POST |-> RequireAdmin(s) \o ProbePanelPm2Sudo \o RunPanelPm2Action \o Caught(Script(ListPanelPm2Processes))]
AdminTerminalRoute(s, d, x) ==
  [GET |-> RequireAdmin(s) \o TerminalBackendReady \o AdminTerminalStepUpRequired,
   POST |-> RequireAdmin(s) \o TerminalBackendReady \o VerifyAdminTerminalStepUp
            \o CreateAdminTerminalWsToken(s)]
  @@ ("connect" :> OpenAdminShell(s))

DockerRoute(s, d, x) ==
  [GET |-> RequireAdmin(s) \o DockerAvailable \o ListContainers, POST |-> RequireAdmin(s) \o DockerAvailable]
DockerComposeRoute(s, d, x) ==
  ("POST validate" :> RequireAdmin(s) \o ValidateComposeYaml)
  @@ ("POST up" :> RequireAdmin(s) \o ComposeUp(x) \o Audit(s))
  @@ ("POST down" :> RequireAdmin(s) \o ComposeDown(x) \o Audit(s))
  @@ ("POST ps" :> RequireAdmin(s) \o ComposePs)
DockerContainersRoute(s, d, x) ==
  ("POST logs" :> RequireAdmin(s) \o ContainerLogs)
  @@ ("POST" :> RequireAdmin(s) \o ContainerAction(x) \o Audit(s))
DockerResourcesRoute(s, d, x) ==
  ("POST pull" :> RequireAdmin(s) \o PullImage(x) \o Audit(s))
  @@ ("POST remove image" :> RequireAdmin(s) \o RemoveImage(x) \o Audit(s))
  @@ ("POST remove volume" :> RequireAdmin(s) \o RemoveVolume(x) \o Audit(s))

\* The probe, then the helper; a job is asked about by its number.
UpdatesGate(s, x) == RequireAdmin(s) \o ProbeUpdatesHelperSudo(x)
UpdatesLinuxRoute(s, d, x) ==
  ("GET" :> UpdatesGate(s, x) \o GetLinuxUpdateStatus(FALSE, x))
  @@ ("GET jobId" :> UpdatesGate(s, x) \o GetUpdateJob(x))
  @@ ("POST refresh" :> UpdatesGate(s, x) \o GetLinuxUpdateStatus(TRUE, x))
  @@ ("POST upgrade" :> UpdatesGate(s, x) \o StartLinuxUpgrade(x))
UpdatesQadbakRoute(s, d, x) ==
  ("GET" :> UpdatesGate(s, x) \o GetQadbakUpdateStatus(x))
  @@ ("POST upgrade" :> UpdatesGate(s, x) \o StartQadbakUpgrade(x))
UpdatesUbuntuRoute(s, d, x) ==
  ("GET" :> UpdatesGate(s, x) \o GetUbuntuReleaseStatus(FALSE, x))
  @@ ("POST refresh" :> UpdatesGate(s, x) \o GetUbuntuReleaseStatus(TRUE, x))
  @@ ("POST upgrade" :> UpdatesGate(s, x) \o StartUbuntuReleaseUpgrade(x))

-----------------------------------------------------------------------------
(* Administrator: what happened, alerts, clouds, nodes, apps.              *)

AuditRoute(s, d, x) == [GET |-> RequireAdmin(s) \o Read(AuditLog)]
PrivacyRoute(s, d, x) ==
  [GET |-> RequireAdmin(s) \o BuildPrivacyReport,
   POST |-> RequireAdmin(s) \o RotateAuditLog \o Audit(s) \o BuildPrivacyReport]
JournalRoute(s, d, x) == [GET |-> RequireAdmin(s) \o Read(JournalFile)]
JournalEntryRoute(s, d, x) == [GET |-> RequireAdmin(s) \o Look(JournalFile, {<<"done", s>>}, {})]

\* The undo of an activation: the license is read again, compared by its key,
\* and removed (Journal has the entries and the marks).
UndoLicenseActivate(x) ==
  Read(License) \o Unless(Fail, License, KeyHint(x)) \o ClearStoredLicense
JournalUndoRoute(s, d, x) ==
  [POST |-> RequireAdmin(s) \o Read(JournalFile) \o Journalled(s, UndoLicenseActivate(x))]

AlertSettings == Sys("alert-settings.json")
EvaluateAlerts(d, x) ==
  Read(AlertSettings) \o Caught(Helper("domain-health-batch", Host, x))
  \o Caught(Helper("ssl-list", d, x)) \o Caught(Helper("backup-list", d, x)) \o Caught(Try)
AlertsRoute(s, d, x) ==
  [GET |-> RequireAdmin(s) \o Read(AlertSettings), PATCH |-> RequireAdmin(s) \o Rewrite(AlertSettings, {x})]
  @@ ("POST evaluate" :> RequireAdmin(s) \o EvaluateAlerts(d, x))
  @@ ("POST mobile-push" :> RequireAdmin(s) \o EvaluateMobilePushAlerts(s, d, x))

CloudCredentialsRoute(s, d, x) ==
  [GET |-> AdminCall(s, "cloud-credentials-list", x), POST |-> AdminChange(s, "cloud-credentials-save", x)]
CloudRoute(s, d, x) ==
  ("POST buckets" :> AdminCall(s, "listS3Buckets", x)) @@ ("POST files" :> AdminCall(s, "listS3Files", x))
  @@ ("POST upload" :> AdminChange(s, "uploadS3File", x))

NodesRoute(s, d, x) ==
  [GET |-> RequireAdmin(s) \o LoadNodes \o ProbeNodeHealth,
   POST |-> RequireAdmin(s) \o Parse(Servers, {}, {x}) \o SaveNodes(x) \o ProbeNodeHealth]
NodesProvisionRoute(s, d, x) ==
  [POST |-> RequireAdmin(s) \o Parse(Servers, {x}, {}) \o AgentProvisionDomain \o Caught(Helper("nodes-ping-health", Host, x)) \o Audit(s)]
PingClusterRoute(s, d, x) == [POST |-> AdminCall(s, "nodes-ping-health", x)]
ClusterNodesRoute(s, d, x) ==
  [GET |-> AdminCall(s, "nodes-health", x), POST |-> AdminChange(s, "nodes-register", x)]

\* templates/*.ts: a database first, then the program; the database stays when
\* the program cannot be installed.
InstallWordpress(d, x) == Helper("db-create", d, x) \o Helper("app-install-wordpress", d, x)
InstallFromCatalog(d, x) == Helper("db-create", d, x) \o Helper("script-install", d, x)
\* media.DOMAIN, a sub-domain served by the same unix user.
InstallJellyfin(d) ==
  LET subs == {e \in Domains \ {d} : Owner[e] = d}
  IN  IF subs = {} THEN Fail ELSE Helper("jellyfin-install", d, CHOOSE e \in subs : TRUE)
\* What the form says is looked at before the journal's entry begins.
Validate == Try
RunAppInstall(s, install) == Validate \o Journalled(s, install)
AppsRoute(s, d, x) == [GET |-> RequireAdmin(s)]
AppsCatalogRoute(s, d, x) == [GET |-> RequireAdmin(s) \o Caught(Try)]
AppsInstallRoute(s, d, x) ==
  ("POST wordpress" :> RequireAdmin(s) \o RunAppInstall(s, InstallWordpress(d, x)))
  @@ ("POST catalog" :> RequireAdmin(s) \o RunAppInstall(s, InstallFromCatalog(d, x)))
  @@ ("POST jellyfin" :> RequireAdmin(s) \o RunAppInstall(s, InstallJellyfin(d)))

-----------------------------------------------------------------------------
(* API keys, and the public forms of the hosted sites.                     *)

V1DomainsRoute(s, d, x) ==
  [GET |-> RequireApiV1(x) \o ListDomains,
   POST |-> RequireApiV1(x) \o Helper("domain-create", d, Host) \o Helper("limits-set", d, x) \o Audit(x)]
V1PlansRoute(s, d, x) ==
  [GET |-> RequireApiV1(x) \o Helper("plan-list", Host, x),
   POST |-> RequireApiV1(x) \o Helper("plan-upsert", Host, x) \o Audit(x)]

\* One domain with a key: the key acts as an administrator (a reseller's key is
\* turned down for a domain that is not the reseller's; rows carry no such mark
\* here).
V1Call(x, d, steps) == RequireApiV1(x) \o AssertApiV1DomainAccess(d) \o steps
V1Change(x, d, cmd) == V1Call(x, d, Helper(cmd, d, x) \o Audit(x))
V1DomainRoute(s, d, x) == [GET |-> V1Call(x, d, ListDomains), DELETE |-> V1Change(x, d, "domain-delete")]
V1BackupsRoute(s, d, x) ==
  [GET |-> V1Call(x, d, Helper("backup-list", d, x) \o Caught(Helper("backup-list-remote", d, x))),
   POST |-> V1Change(x, d, "backup-create")]
  @@ ("POST pull-remote" :> V1Change(x, d, "backup-pull-remote"))
  @@ ("POST pull-remote-restore" :> V1Change(x, d, "backup-pull-remote-restore"))
V1DnsRoute(s, d, x) ==
  [GET |-> V1Call(x, d, Helper("dns-get", d, x)), POST |-> V1Change(x, d, "dns-add")]
  @@ ("POST delete" :> V1Change(x, d, "dns-del"))
V1LimitsRoute(s, d, x) ==
  [GET |-> V1Call(x, d, Helper("limits-get", d, x)),
   PATCH |-> V1Change(x, d, "limits-set") \o Helper("limits-get", d, x)]
  @@ ("PATCH plan" :> V1Change(x, d, "plan-apply") \o Helper("limits-get", d, x))
V1MailRoute(s, d, x) == [GET |-> V1Call(x, d, Helper("mail-list", d, x)), POST |-> V1Change(x, d, "mail-create")]
V1SslRoute(s, d, x) == [GET |-> V1Call(x, d, Helper("ssl-list", d, x)), POST |-> V1Change(x, d, "ssl-issue")]
V1SuspendRoute(s, d, x) ==
  ("POST enable" :> V1Change(x, d, "domain-enable")) @@ ("POST suspend" :> V1Change(x, d, "domain-disable"))

FormLimit == MutateBucket(AddressBucket, Host)
ContactSubmitRoute(s, d, x) == [POST |-> FormLimit \o Helper("contact-form-submit", d, x)]
NewsletterTrackRoute(s, d, x) == [GET |-> Caught(Helper("newsletter-track-record", d, x))]
PublicSubscribe(d, x) == FormLimit \o Script(Edit(Subscribers(d), {x}, {}))
PublicLeave(d, x) == FormLimit \o Script(Look(Subscribers(d), {x}, {}) \o Save(Subscribers(d), {<<"left", x>>}, {}))
PublicConfirm(d, x) == FormLimit \o Script(Look(Subscribers(d), {x}, {}) \o Save(Subscribers(d), {<<"confirmed", x>>}, {}))
NewsletterSubscribeRoute(s, d, x) == [POST |-> PublicSubscribe(d, x)]
NewsletterConfirmRoute(s, d, x) == [GET |-> PublicConfirm(d, x)]
NewsletterUnsubscribeRoute(s, d, x) == [GET |-> PublicLeave(d, x), POST |-> PublicLeave(d, x)]
HealthRoute(s, d, x) == [GET |-> Caught(Try)]

\* What a panel asks the agent of this node; a tool of the command line.
NodeAgentRoute(s, d, x) ==
  [GET |-> Try] @@ ("POST call" :> LegacyApiCall(d, x)) @@ ("POST provision" :> NodeProvisionDomain(d))
WeakPasswordsRoute(s, d, x) == [run |-> RotateWeakPasswords(x)]

-----------------------------------------------------------------------------
(* Every request, by route and method.                                     *)

DomainPages(s, d, x) ==
  [domain |-> DomainRoute(s, d, x), enable |-> EnableRoute(s, d, x), disable |-> DisableRoute(s, d, x),
   features |-> FeaturesRoute(s, d, x), limits |-> LimitsRoute(s, d, x), logs |-> LogsRoute(s, d, x),
   lifecycle |-> LifecycleRoute(s, d, x), repair |-> RepairWebsiteRoute(s, d, x), stack |-> StackRoute(s, d, x),
   websiteHealth |-> WebsiteHealthRoute(s, d, x), terminal |-> WsTokenRoute(s, d, x),
   redirects |-> RedirectsRoute(s, d, x), proxies |-> ProxiesRoute(s, d, x), ssl |-> SslRoute(s, d, x),
   php |-> PhpRoute(s, d, x), ftp |-> FtpRoute(s, d, x), protected |-> ProtectedRoute(s, d, x),
   protectedUsers |-> ProtectedUsersRoute(s, d, x), scripts |-> ScriptsRoute(s, d, x),
   runtimes |-> RuntimesRoute(s, d, x), security |-> SecurityRoute(s, d, x), files |-> FilesRoute(s, d, x),
   content |-> FilesContentRoute(s, d, x), download |-> FilesDownloadRoute(s, d, x),
   upload |-> FilesUploadRoute(s, d, x), media |-> MediaRoute(s, d, x), videos |-> MediaVideosRoute(s, d, x),
   stream |-> MediaStreamRoute(s, d, x), gitWebhook |-> GitWebhookRoute(s, d, x),
   users |-> UsersRoute(s, d, x), aliases |-> AliasesRoute(s, d, x), dns |-> DnsRoute(s, d, x),
   mailDns |-> MailDnsRoute(s, d, x), mailLogs |-> MailLogsRoute(s, d, x),
   mailSettings |-> MailSettingsRoute(s, d, x), shared |-> SharedRoute(s, d, x),
   mailboxes |-> MailboxesRoute(s, d, x), messages |-> MessagesRoute(s, d, x), message |-> MessageRoute(s, d, x),
   draft |-> DraftRoute(s, d, x), send |-> SendRoute(s, d, x), newsletter |-> NewsletterRoute(s, d, x),
   subscribers |-> NewsletterSubscribersRoute(s, d, x), import |-> NewsletterImportRoute(s, d, x),
   campaigns |-> NewsletterCampaignsRoute(s, d, x), campaignSend |-> NewsletterSendRoute(s, d, x),
   campaignProcess |-> NewsletterProcessRoute(s, d, x), campaignTest |-> NewsletterTestRoute(s, d, x),
   databases |-> DatabasesRoute(s, d, x), cron |-> CronRoute(s, d, x), backups |-> BackupsRoute(s, d, x),
   archive |-> BackupArchiveRoute(s, d, x), backupDownload |-> BackupDownloadRoute(s, d, x),
   backupPolicy |-> BackupPolicyRoute(s, d, x), backupRemote |-> BackupRemoteRoute(s, d, x),
   backupRestore |-> BackupRestoreRoute(s, d, x), backupUpload |-> BackupUploadRoute(s, d, x),
   tools |-> ToolsRoute(s, d, x), embedLink |-> HostingEmbedLinkRoute(s, d, x),
   legacyLink |-> LegacyPanelLinkRoute(s, d, x)]

HostPages(s, d, x) ==
  [login |-> LoginRoute(s, d, x), mobileLogin |-> MobileLoginRoute(s, d, x), logout |-> LogoutRoute(s, d, x),
   me |-> MeRoute(s, d, x), totp |-> TotpRoute(s, d, x), refresh |-> RefreshRoute(s, d, x),
   mobileLogout |-> MobileLogoutRoute(s, d, x), revocation |-> SessionRevocationRoute(s, d, x),
   bootstrap |-> BootstrapRoute(s, d, x), pushRegister |-> PushRegisterRoute(s, d, x),
   widgets |-> WidgetsRoute(s, d, x), pushTick |-> PushTick(s, d, x), heartbeat |-> HeartbeatTick(s, d, x),
   domains |-> DomainsRoute(s, d, x), healthOverview |-> HealthOverviewRoute(s, d, x),
   adminLegacyLink |-> AdminLegacyPanelLinkRoute(s, d, x), panelClient |-> PanelClientRoute(s, d, x),
   admins |-> AdminsRoute(s, d, x), apiKeys |-> ApiKeysRoute(s, d, x), plans |-> PlansRoute(s, d, x),
   resellers |-> ResellersRoute(s, d, x), panelPolicy |-> PanelPolicyRoute(s, d, x),
   system |-> SystemRoute(s, d, x), templates |-> TemplatesRoute(s, d, x), checkConfig |-> CheckConfigRoute(s, d, x),
   license |-> LicenseRoute(s, d, x), activations |-> LicenseActivationsRoute(s, d, x),
   adminBranding |-> AdminBrandingRoute(s, d, x), branding |-> BrandingRoute(s, d, x),
   logo |-> BrandingLogoRoute(s, d, x), firewall |-> FirewallRoute(s, d, x), fail2ban |-> Fail2banRoute(s, d, x),
   securitySnapshot |-> SecuritySnapshotRoute(s, d, x), metricsHistory |-> MetricsHistoryRoute(s, d, x),
   hostMetrics |-> HostMetricsRoute(s, d, x), adminHealth |-> AdminHealthRoute(s, d, x),
   awstats |-> AwstatsRoute(s, d, x), adminCron |-> AdminCronRoute(s, d, x), networking |-> NetworkingRoute(s, d, x),
   vmStatus |-> VmStatusRoute(s, d, x), server |-> ServerRoute(s, d, x), adminStack |-> StackAdminRoute(s, d, x),
   panelControl |-> PanelControlRoute(s, d, x), adminTerminal |-> AdminTerminalRoute(s, d, x),
   docker |-> DockerRoute(s, d, x), compose |-> DockerComposeRoute(s, d, x),
   containers |-> DockerContainersRoute(s, d, x), resources |-> DockerResourcesRoute(s, d, x),
   updatesLinux |-> UpdatesLinuxRoute(s, d, x), updatesQadbak |-> UpdatesQadbakRoute(s, d, x),
   updatesUbuntu |-> UpdatesUbuntuRoute(s, d, x), audit |-> AuditRoute(s, d, x), privacy |-> PrivacyRoute(s, d, x),
   journal |-> JournalRoute(s, d, x), journalEntry |-> JournalEntryRoute(s, d, x),
   journalUndo |-> JournalUndoRoute(s, d, x), alerts |-> AlertsRoute(s, d, x),
   cloudCredentials |-> CloudCredentialsRoute(s, d, x), cloud |-> CloudRoute(s, d, x), nodes |-> NodesRoute(s, d, x),
   nodesProvision |-> NodesProvisionRoute(s, d, x), pingCluster |-> PingClusterRoute(s, d, x),
   clusterNodes |-> ClusterNodesRoute(s, d, x), apps |-> AppsRoute(s, d, x), catalog |-> AppsCatalogRoute(s, d, x),
   appsInstall |-> AppsInstallRoute(s, d, x), v1Domains |-> V1DomainsRoute(s, d, x), v1Plans |-> V1PlansRoute(s, d, x),
   v1Domain |-> V1DomainRoute(s, d, x), v1Backups |-> V1BackupsRoute(s, d, x), v1Dns |-> V1DnsRoute(s, d, x),
   v1Limits |-> V1LimitsRoute(s, d, x), v1Mail |-> V1MailRoute(s, d, x), v1Ssl |-> V1SslRoute(s, d, x),
   v1Suspend |-> V1SuspendRoute(s, d, x),
   contact |-> ContactSubmitRoute(s, d, x), track |-> NewsletterTrackRoute(s, d, x),
   subscribe |-> NewsletterSubscribeRoute(s, d, x), confirm |-> NewsletterConfirmRoute(s, d, x),
   unsubscribe |-> NewsletterUnsubscribeRoute(s, d, x), health |-> HealthRoute(s, d, x),
   nodeAgent |-> NodeAgentRoute(s, d, x), weakPasswords |-> WeakPasswordsRoute(s, d, x)]

Pages(s, d, x) == DomainPages(s, d, x) @@ HostPages(s, d, x) @@ RemotePages(s, d, x)

=============================================================================
