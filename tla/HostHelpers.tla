----------------------------- MODULE HostHelpers -----------------------------
(***************************************************************************)
(* The panel's work on the host itself, beside the provisioning helper:    *)
(* the stack, services and update helpers behind sudo, Docker, the panel's *)
(* own processes, the nodes of a cluster, and the reports that only read.  *)
(* Each function is the steps it takes; Try stands for a call that changes *)
(* nothing here and may fail, Caught(Try) for one whose failure is part of *)
(* the answer.                                                             *)
(***************************************************************************)
EXTENDS PanelOps

\* stack-helper.mjs.  A check that fails is an answer, a script that fails an
\* error; the two scripts render for every domain, here for one.
ProbeStackHelperSudo == Caught(Try)
ValidateStackConfig == Try
CmdNginxReload == Reload
CmdApplyNginxVhosts(d) == Render(Conf(d), VhostSources(d)) \o Reload
CmdApplyPhpFpmPools(d) == Render(Pool(d), {Php(d)})
CmdUfwAllow(x) == Outside(Sys("firewall"), {x}, {})
ValidateDomainStackConfig(d) == Read(Registry) \o Caught(Script(Read(Conf(d)))) \o Try

\* host-services-helper.mjs: systemctl of a unit on its list; disk use per row
\* of the registry.
Services == Sys("services")
CmdList == Try
CmdControl(x) == Outside(Services, {<<"restarted", x>>}, {})
CmdBandwidth(d) == Read(Registry) \o Caught(Try) \o Read(Limits(d))

\* admin-server-services.ts: without the helper there is no answer (the legacy
\* panel is not there to be asked).
ListAdminServerServices == Try \o CmdList
ListAdminBandwidth(d) == Try \o Script(CmdBandwidth(d))
ControlAdminServerService(x) == Try \o CmdControl(x)

-----------------------------------------------------------------------------
(* update-status-helper.mjs: a detached script, then its result in the     *)
(* file the start has written.  Nothing else ever changes it.              *)

Job(x) == Cfg("update job", x)
JobLog(x) == Cfg("update log", x)
JobMeta == <<"file", "there">>
JobStarted == <<"status", "running">>
JobEnded == <<"status", "ended">>

\* Log, record and script are written; the script runs on its own.  It reads
\* its record back, and writes the status with the exit code.
StartNohupJob(x, work) ==
  Rewrite(JobLog(x), {JobStarted}) \o Rewrite(Job(x), {JobMeta, JobStarted})
  \o Rewrite(Cfg("update script", x), {JobStarted}) \o Caught(work)
  \o Script(Parse(Job(x), {JobMeta}, {})) \o Save(Job(x), {JobEnded}, {JobStarted})
CmdLinuxUpgradeStart(x) == StartNohupJob(x, Try)
BackupPanelData == Copy(UsersJson, Sys("users.json copy")) \o Copy(Registry, Sys("native-domains.json copy"))
CmdQadbakUpgradeStart(x) == BackupPanelData \o StartNohupJob(x, Try \o Try)
\* A preflight that fails starts no job.
CmdUbuntuReleaseStart(x) == Try \o StartNohupJob(x, Try)
CmdJobStatus(x) == Look(Job(x), {JobMeta}, {}) \o Read(JobLog(x))

\* Fresh for an hour: JobStarted stands for a cache that is.
UpdateCache == Sys("linux-update-cache.json")
CmdLinuxRefresh == Try \o Caught(Try) \o Rewrite(UpdateCache, {JobStarted})
CmdLinuxStatus == Read(UpdateCache) \o Unless(CmdLinuxRefresh, UpdateCache, JobStarted)
CmdUbuntuReleaseStatus == Read(UpdateCache) \o Caught(Try) \o Caught(Try)
\* git rev-parse and git fetch: either error is part of the answer.
CmdQadbakStatus == Caught(Try) \o Caught(Try)

UpdateCommands(x) ==
  [ping |-> Try]
  @@ ("linux-status" :> CmdLinuxStatus) @@ ("linux-refresh" :> CmdLinuxRefresh)
  @@ ("linux-upgrade-start" :> CmdLinuxUpgradeStart(x))
  @@ ("ubuntu-release-status" :> CmdUbuntuReleaseStatus) @@ ("ubuntu-release-start" :> CmdUbuntuReleaseStart(x))
  @@ ("qadbak-status" :> CmdQadbakStatus) @@ ("qadbak-upgrade-start" :> CmdQadbakUpgradeStart(x))
  @@ ("job-status" :> CmdJobStatus(x))

\* updates-helper.ts: every call asks for the license, the probe as well.
RunUpdateHelper(cmd, x) == Script(UpdateCommands(x)[cmd])
ProbeUpdatesHelperSudo(x) == RequirePremiumFeature \o RunUpdateHelper("ping", x)
Licensed(cmd, x) == RequirePremiumFeature \o RunUpdateHelper(cmd, x)
GetLinuxUpdateStatus(refresh, x) == Licensed(IF refresh THEN "linux-refresh" ELSE "linux-status", x)
StartLinuxUpgrade(x) == Licensed("linux-upgrade-start", x)
GetUbuntuReleaseStatus(refresh, x) ==
  RequirePremiumFeature \o (IF refresh THEN RunUpdateHelper("linux-refresh", x) ELSE <<>>)
  \o RunUpdateHelper("ubuntu-release-status", x)
StartUbuntuReleaseUpgrade(x) == Licensed("ubuntu-release-start", x)
GetQadbakUpdateStatus(x) == Licensed("qadbak-status", x)
StartQadbakUpgrade(x) == Licensed("qadbak-upgrade-start", x)
GetUpdateJob(x) == Licensed("job-status", x)

-----------------------------------------------------------------------------
(* Docker.  What is there: projects, images, volumes, what was done to a   *)
(* container.  A compose file is only in a temporary directory.            *)

Docker == Sys("docker")
Project(x) == <<"project", x>>
DockerAvailable == Caught(Try)
ListContainers == Read(Docker)
ContainerAction(x) == Outside(Docker, {<<"acted on", x>>}, {})
ContainerLogs == Try
PullImage(x) == Outside(Docker, {<<"image", x>>}, {})
RemoveImage(x) == Outside(Docker, {}, {<<"image", x>>})
RemoveVolume(x) == Outside(Docker, {}, {<<"volume", x>>})
ValidateComposeYaml == Try
ComposeUp(x) == Outside(Docker, {Project(x)}, {})
ComposeDown(x) == Outside(Docker, {}, {Project(x)})
ComposePs == Read(Docker)

-----------------------------------------------------------------------------
(* The panel's own processes, its terminal, the nodes.                     *)

ProbePanelPm2Sudo == RequirePremiumFeature \o Try
ListPanelPm2Processes == RequirePremiumFeature \o Try
RunPanelPm2Action == RequirePremiumFeature \o Outside(Services, {<<"restarted", Host>>}, {})

\* The terminal's server is asked whether it is there; its token is signed for a
\* session not revoked meanwhile.  An account with a TOTP secret is asked for a
\* code (codes are not modelled: a wrong one is answered 403).
TerminalBackendReady == Caught(Try)
CreateTerminalWsToken(s) == IsSessionRevoked(s)
AdminTerminalStepUpRequired == Parse(UsersJson, {}, {})
VerifyAdminTerminalStepUp == AdminTerminalStepUpRequired \o Parse(UsersJson, {}, {})
CreateAdminTerminalWsToken(s) == AdminRole(s) \o IsSessionRevoked(s)

\* domain-terminal-ws.mjs, which has the token's session looked up once more.  The
\* shell is gone when the connection is, which nobody looks up again.
Shell(d) == Cfg("shell", d)
RootShell == Sys("shell")
AttachPty(f, s) == Outside(f, {<<"shell", s>>}, {}) \o Outside(f, {}, {<<"shell", s>>})
OpenDomainShell(s, d) == VerifySessionToken(s) \o AssertActorDomainAccess(s, d) \o AttachPty(Shell(d), s)
OpenAdminShell(s) == VerifySessionToken(s) \o AdminRole(s) \o AttachPty(RootShell, s)

\* rotate-weak-passwords.mjs: the accounts read first are written back when every
\* password has been asked for; then the passwords, beside the copy taken before.
WeakPasswordsBackup == Sys("users.json.bak")
Credentials == Sys("users.json.bak.credentials.json")
RotateWeakPasswords(x) ==
  Parse(UsersJson, {Account(x)}, {}) \o Copy(UsersJson, WeakPasswordsBackup) \o Try
  \o SaveUsers({<<x, "password">>}, {}) \o Caught(Try) \o Rewrite(Credentials, {<<x, "password">>}) \o Caught(Try)

\* servers.json: unlike other stores, one that does not parse is an error.
Servers == Sys("servers.json")
LoadNodes == Parse(Servers, {}, {})
SaveNodes(x) == Save(Servers, {x}, {})
ProbeNodeHealth == Caught(Try)
AgentProvisionDomain == Try

-----------------------------------------------------------------------------
(* Reports: what they read, and what of it may fail.                       *)

\* /proc and df; the firewall is left out when its program fails.
GetHostMetrics == Try \o Caught(Try)

\* Each check runs on its own and has a time limit; an error is its result.  A
\* unit that cannot be asked is unknown, a certificate that cannot be read is none.
RunOne(check) == Caught(Script(check))
DiskCheck == GetHostMetrics
MemoryCheck == GetHostMetrics \o Caught(Try)
ServicesCheck == Caught(Try)
SslCheck(d) == Caught(Script(Read(Cert(d))))
RunHealthChecks(d) ==
  RunOne(DiskCheck) \o RunOne(MemoryCheck) \o RunOne(ServicesCheck) \o RunOne(SslCheck(d))

-----------------------------------------------------------------------------
(* website-health.ts: the site asked for over HTTP, on this host and from   *)
(* outside.  No answer is a result, and so is whatever else fails.          *)

\* A default page is the site's own where it is what public_html has.
BodyMatchesPublicHtmlIndex(d) == Caught(Script(Read(Public(d))))
AnalyzeHttpResponse(d) == BodyMatchesPublicHtmlIndex(d)
ProbeHttp(d) == Caught(Try \o AnalyzeHttpResponse(d))

\* curl, address by address, here one, then fetch; curl's two temporary files go
\* either way.
ProbeUrlWithCurl(d) == Handled(Try \o AnalyzeHttpResponse(d), Caught(Try)) \o Caught(Try)
ProbeLocalWebsite(d) == OrElse(ProbeUrlWithCurl(d), ProbeHttp(d))
ProbePublicWebsite(d) == OrElse(ProbeUrlWithCurl(d), ProbeHttp(d))

\* domain-repair.ts: the script behind sudo, or else the helper, which runs the
\* same one.
RepairAvailable == OrElse(Try, Try)
RepairDomainWebsite(d) == OrElse(Try \o Script(FixDomainWebsite(d)), Helper("domain-repair", d, Host))

\* The registry and the certificates are asked about for administrators only.
GetWebsiteHealth(s, d) ==
  LET ofAdmin(steps) == IF s \in Admins THEN Caught(Script(steps)) ELSE <<>>
  IN  ofAdmin(Call(s, "validateDomain", d, Host)) \o ProbeLocalWebsite(d) \o ProbePublicWebsite(d)
      \o Caught(Helper("runtimes-get", d, Host)) \o ofAdmin(Call(s, "listSslCerts", d, Host))
      \o ofAdmin(Helper("backup-list", d, Host)) \o Caught(RepairAvailable)

-----------------------------------------------------------------------------
ReadMetricsHistory == Read(Sys("metrics-history.jsonl"))
BuildPrivacyReport ==
  GetLicensePublicInfo \o Caught(Script(Read(AuditLog))) \o Parse(UsersJson, {}, {}) \o Read(ApiKeys) \o Caught(Try)
=============================================================================
