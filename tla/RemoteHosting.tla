---------------------------- MODULE RemoteHosting ----------------------------
(***************************************************************************)
(* The other provisioner (hosting-remote.ts behind legacy-remote-adapter): *)
(* every method asks the hosting API of another control panel to run a     *)
(* program there.  What the program may be depends on the role             *)
(* (features.ts), the domain on the actor's list (rbac.ts).                *)
(*                                                                         *)
(* One record per section of the adapter, from the method to its steps for *)
(* session s, domain d and item x.                                         *)
(***************************************************************************)
EXTENDS HostHelpers

-----------------------------------------------------------------------------
(* features.ts: the programs of each feature of a domain, by role.         *)

\* Mail, databases, DNS, certificates, aliases, redirects, backups.
BasicFeatures ==
  LET both == {"list-users", "create-user", "modify-user", "delete-user", "list-mailbox", "search-maillogs",
               "modify-mail", "list-databases", "create-database", "modify-database-pass", "get-dns", "modify-dns",
               "list-certs", "list-certs-expiry", "generate-letsencrypt-cert", "list-simple-aliases",
               "create-simple-alias", "delete-alias", "list-redirects", "create-redirect", "delete-redirect",
               "list-scheduled-backups"}
  IN  [client |-> both,
       admin |-> both \cup {"copy-mailbox", "resend-email", "install-cert", "list-aliases", "create-alias",
                            "backup-domain", "modify-scheduled-backup", "restore-domain"}]

\* Files, terminal, logs, PHP, protected directories, mail security.
SiteFeatures ==
  LET both == {"create-login-link", "list-domains", "get-logs", "list-php-versions", "list-php-directories",
               "set-php-directory", "list-php-ini", "modify-php-ini", "list-protected-directories",
               "create-protected-directory", "list-protected-users", "create-protected-user",
               "delete-protected-user", "set-spam", "set-dkim"}
  IN  [client |-> both, admin |-> both \cup {"delete-php-directory", "delete-protected-directory", "modify-web"}]

\* Features, limits, lifecycle.
OwnerFeatures ==
  [client |-> {},
   admin |-> {"list-features", "enable-feature", "disable-feature", "modify-limits", "modify-resources",
              "delete-domain", "migrate-domain", "transfer-domain", "clone-domain", "validate-domains",
              "check-config"}]

\* Scripts, media, runtimes, proxies, cron, FTP, shared addresses, tools.
AppFeatures ==
  LET both == {"list-scripts", "list-available-scripts", "list-domains", "list-proxies", "list-cron-jobs",
               "list-users", "create-user", "modify-user", "delete-user", "list-shared-addresses"}
  IN  [client |-> both,
       admin |-> both \cup {"install-script", "delete-script", "create-proxy", "modify-proxy", "delete-proxy",
                            "create-cron-job", "delete-cron-job", "create-shared-address",
                            "delete-shared-address"}]

ServerPrograms ==
  {"list-bandwidth", "list-server-statuses", "restart-server", "list-resellers", "create-reseller",
   "modify-reseller", "delete-reseller", "list-plans", "create-plan", "modify-plan", "delete-plan",
   "list-templates", "get-template", "modify-template", "list-admins", "create-admin", "modify-admin",
   "delete-admin", "license-info", "setup-repos"}
CloudPrograms ==
  {"modify-scheduled-backup", "restore-domain", "list-s3-buckets", "list-s3-files", "upload-s3-file",
   "config-system", "set-global-feature", "list-global-features"}
GlobalPrograms ==
  [client |-> {"list-domains", "create-login-link"},
   admin |-> {"list-domains", "create-domain", "clone-domain", "delete-domain", "migrate-domain",
              "transfer-domain", "disable-domain", "enable-domain", "create-login-link", "get-command",
              "validate-domains", "check-config"} \cup ServerPrograms \cup CloudPrograms]

RoleOf(s) == IF s \in Admins THEN "admin" ELSE "client"
ProgramsForRole(role) ==
  UNION {t[role] : t \in {GlobalPrograms, BasicFeatures, SiteFeatures, OwnerFeatures, AppFeatures}}

-----------------------------------------------------------------------------
(* One call.                                                               *)

\* What the other panel has of a domain, its row among it, and of the host.
OtherPanel(d) == Cfg("other panel", d)
OtherPanelHost == Sys("other panel")

DomainOptional ==
  {"list-domains", "get-command", "create-domain", "check-config", "list-available-scripts"}
    \cup ServerPrograms \cup CloudPrograms

\* A program that takes a domain is refused without one; a client has those in
\* the token.
HasDomain(s, program, d) ==
  program \in DomainOptional \/ (d # Host /\ (s \in Admins \/ d \in Claims[s]))

\* Sent, carried out, answered: without an answer, or with an exit status, the
\* error is thrown whatever the program has done.
HostingRemoteCall(s, program, d, change) ==
  IF program \in ProgramsForRole(RoleOf(s)) /\ HasDomain(s, program, d) THEN change \o Try ELSE Fail

Query(s, program, d) == HostingRemoteCall(s, program, d, <<>>)
Set(s, program, d, t) == HostingRemoteCall(s, program, d, Outside(OtherPanel(d), {t}, {}))
Drop(s, program, d, t) == HostingRemoteCall(s, program, d, Outside(OtherPanel(d), {}, {t}))
SetHost(s, program, t) == HostingRemoteCall(s, program, Host, Outside(OtherPanelHost, {t}, {}))
DropHost(s, program, t) == HostingRemoteCall(s, program, Host, Outside(OtherPanelHost, {}, {t}))

\* qadbak-node-agent.mjs, on the node: a call of the panel there, sent without a
\* look at what the program is, or a domain of its own.
LegacyApiCall(d, x) == Outside(OtherPanel(d), {<<"called", x>>}, {}) \o Try
NodeProvisionDomain(d) == Helper("domain-create", d, Host)

-----------------------------------------------------------------------------
(* Domains and the links into the other panel.                             *)

\* The list of a client is filtered by the names in the token.
ListRemoteDomains(s) == Query(s, "list-domains", Host)
FindDomainByName(s, d) == ListRemoteDomains(s) \o Query(s, "list-domains", Host) \o Script(Look(OtherPanel(d), {Row(d)}, {}))
ResolveDomainUnixUser(s) == ListRemoteDomains(s)

\* requireDomainApi with this provisioner.
RequireRemoteDomain(s, d) ==
  RequireSession(s) \o ListRemoteDomains(s) \o Script(Look(OtherPanel(d), {Row(d)}, {}))
  \o AssertActorDomainAccess(s, d)

SetDomainEnabled(s, d) ==
  [enableDomain |-> Drop(s, "enable-domain", d, Off(d)), disableDomain |-> Set(s, "disable-domain", d, Off(d))]

\* For a client nothing is switched on; an error is swallowed.
EnsureDomainLegacyPanelLogin(s, d) ==
  IF s \in Admins THEN Caught(Script(Set(s, "enable-feature", d, <<"feature", "admin ui">>))) ELSE <<>>

\* Tried again without the redirect, where the other panel does not know it.
CallCreateLoginLink(s, d) == OrElse(Script(Query(s, "create-login-link", d)), Query(s, "create-login-link", d))

\* As the owner, or else as the unix user.
CreateDomainLegacyLoginLink(s, d) ==
  ResolveDomainUnixUser(s) \o EnsureDomainLegacyPanelLogin(s, d)
  \o OrElse(Script(CallCreateLoginLink(s, d)), CallCreateLoginLink(s, d))

\* For the host and for a mailbox the call names no domain.
CreateLegacyPanelLoginLink(s, d) ==
  [domain |-> CreateDomainLegacyLoginLink(s, d),
   root |-> AdminRole(s) \o CallCreateLoginLink(s, Host),
   account |-> CallCreateLoginLink(s, Host)]

\* domain-files-service.ts: the tree, or a link into the other panel, or neither
\* with a hint: a listing has no error of its own.
ResolveDomainFilesListing(s, d) ==
  OrElse(Script(ListDomainFilesLive(d)), Caught(Script(CreateDomainLegacyLoginLink(s, d))))

-----------------------------------------------------------------------------
(* The sections of the adapter.                                            *)

Mailbox(x) == <<"mailbox", x>>
RemoteMailboxes(s, d, x) ==
  [listMailboxes |-> Query(s, "list-users", d), createMailbox |-> Set(s, "create-user", d, Mailbox(x)),
   updateMailboxPassword |-> Set(s, "modify-user", d, <<"password", x>>),
   deleteMailbox |-> Drop(s, "delete-user", d, Mailbox(x))]
RemoteDatabases(s, d, x) ==
  [listDatabases |-> Query(s, "list-databases", d), createDatabase |-> Set(s, "create-database", d, <<"database", x>>),
   updateDatabasePassword |-> Set(s, "modify-database-pass", d, <<"database password", x>>)]
RemoteDns(s, d, x) ==
  [getDns |-> Query(s, "get-dns", d), addDnsRecord |-> Set(s, "modify-dns", d, <<"record", x>>),
   deleteDnsRecord |-> Drop(s, "modify-dns", d, <<"record", x>>)]
RemoteSsl(s, d, x) ==
  [listSslCerts |-> OrElse(Script(Query(s, "list-certs-expiry", d)), Query(s, "list-certs", d)),
   requestLetsEncrypt |-> Set(s, "generate-letsencrypt-cert", d, <<"certificate", x>>)]

\* The second program is an administrator's.
RemoteAliases(s, d, x) ==
  [listAliases |-> OrElse(Script(Query(s, "list-simple-aliases", d)), Query(s, "list-aliases", d)),
   createAlias |-> Set(s, "create-simple-alias", d, <<"alias", x>>),
   deleteAlias |-> Drop(s, "delete-alias", d, <<"alias", x>>)]
RemoteRedirects(s, d, x) ==
  [listRedirects |-> Query(s, "list-redirects", d), createRedirect |-> Set(s, "create-redirect", d, <<"redirect", x>>),
   deleteRedirect |-> Drop(s, "delete-redirect", d, <<"redirect", x>>)]
RemoteBackups(s, d, x) ==
  [listScheduledBackups |-> Query(s, "list-scheduled-backups", d),
   startBackup |-> Set(s, "backup-domain", d, <<"backup", d>>),
   pauseScheduledBackup |-> Set(s, "modify-scheduled-backup", d, <<"paused", x>>),
   resumeScheduledBackup |-> Drop(s, "modify-scheduled-backup", d, <<"paused", x>>),
   restoreDomain |-> Set(s, "restore-domain", d, <<"restored", x>>)]
RemoteCloud(s, d, x) ==
  [listS3Buckets |-> Query(s, "list-s3-buckets", Host), listS3Files |-> Query(s, "list-s3-files", Host),
   uploadS3File |-> SetHost(s, "upload-s3-file", <<"object", x>>)]
RemoteSystem(s, d, x) ==
  [listGlobalFeatures |-> Query(s, "list-global-features", Host),
   setGlobalFeature |-> SetHost(s, "set-global-feature", <<"feature", x>>),
   runConfigSystem |-> SetHost(s, "config-system", <<"configured", x>>)]
RemotePhp(s, d, x) ==
  [listPhpVersions |-> Query(s, "list-php-versions", d), listPhpDirectories |-> Query(s, "list-php-directories", d),
   setPhpDirectory |-> Set(s, "set-php-directory", d, <<"php directory", x>>),
   deletePhpDirectory |-> Drop(s, "delete-php-directory", d, <<"php directory", x>>),
   listPhpIni |-> Query(s, "list-php-ini", d), modifyPhpIni |-> Set(s, "modify-php-ini", d, <<"php.ini", x>>)]
RemoteProtected(s, d, x) ==
  [listProtectedDirectories |-> Query(s, "list-protected-directories", d),
   createProtectedDirectory |-> Set(s, "create-protected-directory", d, <<"protected", x>>),
   deleteProtectedDirectory |-> Drop(s, "delete-protected-directory", d, <<"protected", x>>),
   listProtectedUsers |-> Query(s, "list-protected-users", d),
   createProtectedUser |-> Set(s, "create-protected-user", d, <<"protected user", x>>),
   deleteProtectedUser |-> Drop(s, "delete-protected-user", d, <<"protected user", x>>)]

\* The settings are not read: the answer is always the same.
RemoteSecurity(s, d, x) ==
  [getMailSecurity |-> <<>>, setSpamFilter |-> Set(s, "set-spam", d, <<"spam", x>>),
   setDkim |-> Set(s, "set-dkim", d, <<"dkim", x>>), modifyWeb |-> Set(s, "modify-web", d, <<"web", x>>)]
RemoteFeatures(s, d, x) ==
  [listDomainFeatures |-> Query(s, "list-features", d),
   enableDomainFeature |-> Set(s, "enable-feature", d, <<"feature", x>>),
   disableDomainFeature |-> Drop(s, "disable-feature", d, <<"feature", x>>)]

\* Two programs: the limits stay when the second fails.
RemoteLimits(s, d, x) ==
  [getDomainLimits |-> ListRemoteDomains(s),
   updateDomainLimits |-> Set(s, "modify-limits", d, <<"limits", x>>)
                            \o Set(s, "modify-resources", d, <<"resources", x>>)]

\* A domain that is there already is none to be created: found, that will do.
RemoteCreateDomain(s, d) ==
  Read(OtherPanel(d))
  \o Unless(HostingRemoteCall(s, "create-domain", d, Outside(OtherPanel(d), {Row(d)}, {})), OtherPanel(d), Row(d))
  \o When(FindDomainByName(s, d), OtherPanel(d), Row(d))
RemoteLifecycle(s, d, x) ==
  [cloneDomain |-> Set(s, "clone-domain", d, <<"cloned to", x>>),
   deleteDomain |-> Drop(s, "delete-domain", d, Row(d)),
   migrateDomain |-> Set(s, "migrate-domain", d, <<"migrated to", x>>),
   transferDomain |-> Set(s, "transfer-domain", d, <<"owner", x>>),
   validateDomain |-> Query(s, "validate-domains", d)]
RemoteScripts(s, d, x) ==
  [listAvailableScripts |-> Query(s, "list-available-scripts", d), listInstalledScripts |-> Query(s, "list-scripts", d),
   installScript |-> Set(s, "install-script", d, <<"script", x>>),
   deleteInstalledScript |-> Drop(s, "delete-script", d, <<"script", x>>)]

\* Not with this provisioner: none listed, none installed.
RemoteRuntimes == [getRuntimes |-> <<>>, installNodeRuntime |-> Fail, installPythonRuntime |-> Fail,
                   installDockerRuntime |-> Fail]
RemoteProxies(s, d, x) ==
  [listProxies |-> Query(s, "list-proxies", d), createProxy |-> Set(s, "create-proxy", d, <<"proxy", x>>),
   deleteProxy |-> Drop(s, "delete-proxy", d, <<"proxy", x>>)]

\* An error, or an empty list, is answered with the two jobs of the demo.
RemoteCron(s, d, x) ==
  [listCronJobs |-> Caught(Script(Query(s, "list-cron-jobs", d))),
   createCronJob |-> Set(s, "create-cron-job", d, <<"cron", x>>),
   deleteCronJob |-> Drop(s, "delete-cron-job", d, <<"cron", x>>)]
RemoteMail(s, d, x) ==
  [listImapMailboxes |-> Query(s, "list-mailbox", d), copyMailbox |-> Set(s, "copy-mailbox", d, <<"copied", x>>),
   searchMailLogs |-> Query(s, "search-maillogs", d), resendEmail |-> Set(s, "resend-email", d, <<"resent", x>>),
   getMailSettings |-> <<>>, updateMailSettings |-> Set(s, "modify-mail", d, <<"catch-all", x>>)]

\* FTP accounts are users of the domain, as mailboxes are.
RemoteFtp(s, d, x) ==
  [listFtpAccountsSafe |-> Query(s, "list-users", d), createFtpAccount |-> Set(s, "create-user", d, <<"ftp", x>>),
   updateFtpPassword |-> Set(s, "modify-user", d, <<"ftp password", x>>),
   deleteFtpAccount |-> Drop(s, "delete-user", d, <<"ftp", x>>)]
RemoteShared(s, d, x) ==
  [listSharedAddresses |-> Query(s, "list-shared-addresses", d),
   createSharedAddress |-> Set(s, "create-shared-address", d, <<"shared", x>>),
   deleteSharedAddress |-> Drop(s, "delete-shared-address", d, <<"shared", x>>)]
RemoteServer(s, d, x) ==
  [listBandwidth |-> Query(s, "list-bandwidth", Host), listServerStatuses |-> Query(s, "list-server-statuses", Host),
   restartServer |-> SetHost(s, "restart-server", <<"restarted", x>>)]
RemoteAccounts(s, d, x) ==
  [listResellers |-> Query(s, "list-resellers", Host), createReseller |-> SetHost(s, "create-reseller", <<"reseller", x>>),
   deleteReseller |-> DropHost(s, "delete-reseller", <<"reseller", x>>),
   listPlans |-> Query(s, "list-plans", Host), createPlan |-> SetHost(s, "create-plan", <<"plan", x>>),
   deletePlan |-> DropHost(s, "delete-plan", <<"plan", x>>)]
RemoteAdmins(s, d, x) ==
  [listTemplates |-> Query(s, "list-templates", Host), getTemplate |-> Query(s, "get-template", Host),
   listAdmins |-> Query(s, "list-admins", Host), createAdmin |-> SetHost(s, "create-admin", <<"admin", x>>),
   deleteAdmin |-> DropHost(s, "delete-admin", <<"admin", x>>), getLicenseInfo |-> Query(s, "license-info", Host)]

-----------------------------------------------------------------------------
(* The handlers on this provisioner: the gate, then the method.            *)

OfDomain(s, d, x) ==
  RemoteMailboxes(s, d, x) @@ RemoteDatabases(s, d, x) @@ RemoteDns(s, d, x) @@ RemoteSsl(s, d, x)
  @@ RemoteAliases(s, d, x) @@ RemoteRedirects(s, d, x) @@ RemoteBackups(s, d, x) @@ RemotePhp(s, d, x)
  @@ RemoteProtected(s, d, x) @@ RemoteSecurity(s, d, x) @@ RemoteFeatures(s, d, x) @@ RemoteLimits(s, d, x)
  @@ RemoteLifecycle(s, d, x) @@ RemoteScripts(s, d, x) @@ RemoteRuntimes @@ RemoteProxies(s, d, x)
  @@ RemoteCron(s, d, x) @@ RemoteMail(s, d, x) @@ RemoteFtp(s, d, x) @@ RemoteShared(s, d, x)
  @@ SetDomainEnabled(s, d) @@ [getWebsiteLogs |-> Query(s, "get-logs", d)]
OfHost(s, d, x) ==
  RemoteCloud(s, d, x) @@ RemoteSystem(s, d, x) @@ RemoteServer(s, d, x) @@ RemoteAccounts(s, d, x)
  @@ RemoteAdmins(s, d, x)
  @@ [checkServerConfig |-> Query(s, "check-config", Host), createDomain |-> RemoteCreateDomain(s, d)]

\* A change is written to audit.log, and so is a look at the logs.
Answered(s, m, steps) ==
  IF Writes(steps) # {} \/ m \in {"getWebsiteLogs", "checkServerConfig"} THEN steps \o Audit(s) ELSE steps

RemotePages(s, d, x) ==
  LET gate == RequireRemoteDomain(s, d)
      methods == OfDomain(s, d, x)
      links == CreateLegacyPanelLoginLink(s, d)
      server == OfHost(s, d, x)
  IN  [remote |-> [m \in DOMAIN methods |-> gate \o Answered(s, m, methods[m])],
       remoteServer |-> [m \in DOMAIN server |-> RequireAdmin(s) \o Answered(s, m, server[m])],
       remoteLink |-> [m \in DOMAIN links |-> (IF m = "root" THEN RequireAdmin(s) ELSE gate) \o links[m] \o Audit(s)]]
=============================================================================
