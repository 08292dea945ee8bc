------------------------------ MODULE DomainViews ------------------------------
(* The pages of a domain, and of the panel's users. *)
EXTENDS Views, TLC

RedirectsManager == ListPage("redirects")
AliasesManager == ListPage("aliases")
CronManager == ListPage("jobs")
ProxiesManager == ListPage("proxies")
SharedAddressesManager == ListPage("addresses")

\* The origin is looked up once, and a lookup that fails is ignored.
DnsManager ==
  [origin |-> Effect(<<Caught(Get({"origin"}))>>),
   addRecord |-> Form(Change("records")), removeRecord |-> EachRow(Form(Change("records")))]

\* The password button waits for nothing.
FtpManager ==
  [create |-> Form(Change("accounts")), confirmDelete |-> EachRow(Form(Change("accounts"))),
   savePassword |-> EachRow(Repeatable(Form(<<Post({"password"})>>)))]

DatabaseManager ==
  [createDb |-> Form(Change("databases")), savePassword |-> EachRow(Form(<<Post({"password"})>>))]

EmailManager ==
  [mailHost |-> Effect(<<Caught(Get({"mailHost"}))>>),
   createMailbox |-> Form(Change("users")), confirmDelete |-> EachRow(Form(Change("users"))),
   resetPassword |-> EachRow(Form(<<Post({"password"})>>)), saveQuota |-> EachRow(Form(Change("users")))]

\* The users of the chosen directory; removing one waits for nothing.
ProtectedManager ==
  LET change == <<OfChosen(Post({"users"})), OfChosen(Get({"users"}))>>
  IN  [select |-> Click(<<Picking(Get({"users"}))>>),
       addDirectory |-> Form(<<Post({"directories"}), Get({"directories"}), Picking(Get({"users"}))>>),
       addUser |-> Form(change), removeUser |-> Repeatable(Form(change)),
       confirmDeleteDir |-> Form(Change("directories"))]

SecuritySettings ==
  [load |-> Effect(<<Need({"mail", "waf"})>>), loadMalware |-> Effect(<<Need({"malware"})>>),
   saveMail |-> Form(<<Keep({"mail"})>>), saveWaf |-> Form(<<Keep({"waf"}), Need({"mail", "waf"})>>),
   loadModsecLogs |-> Form(<<Need({"logs"})>>)]

MalwareScans ==
  [runMalwareScan |-> Form(Renew("malware")), saveMalwareSchedule |-> Form(Renew("malware"))]

SecurityManager == SecuritySettings @@ MalwareScans

SslManager == [requestLe |-> Form(Change("certs"))]

PhpManager ==
  [setDirectory |-> Form(Change("php")), removeDirectory |-> EachRow(Form(Change("php"))),
   saveIni |-> Form(Change("php"))]

LimitsManager == [save |-> Form(<<Keep({"limits"})>>)]

\* The button of the rollback waits for nothing.
ScriptsManager ==
  [doInstall |-> Form(Change("installed")), confirmDelete |-> EachRow(Form(Change("installed"))),
   rollback |-> EachRow(Repeatable(Form(Change("installed"))))]

RuntimesManager == [post |-> Form(Change("runtimes"))]

MailSettingsManager ==
  [dns |-> Effect(<<Caught(Get({"dns"}))>>), save |-> Form(<<Keep({"settings"})>>)]

MailLogsManager ==
  [search |-> Form(<<Need({"lines"})>>), loadRecent |-> OnMount(Form(<<Need({"lines"})>>))]

LogsManager == [load |-> Form(<<Picking(Need({"log"}))>>)]

LifecycleManager ==
  [refreshValidation |-> Click(<<Get({"validation"})>>), runAction |-> Form(Change("validation"))]

\* A feature that was switched is shown so without asking again.
FeaturesManager == [toggle |-> RowOf("loading", <<Keep({"features"})>>)]

\* The connection that follows the session is left out.
DomainTerminal == [load |-> OnMount(Form(<<Need({"session"})>>))]

DomainPanelClientCard ==
  [load |-> Setting("loading", Effect(<<Need({"client"})>>)),
   saveClient |-> FormOf("acting", Renew("client")), applyVhost |-> FormOf("acting", Renew("client"))]

DomainDetail == [toggle |-> FormOf("busy", <<Post({"domain"})>>)]

\* The button waits for nothing.
MediaPlayerPanel == [load |-> OnMount(Repeatable(Form(<<Need({"videos"})>>)))]

MediaLibraryManager ==
  [refresh |-> Click(<<Need({"status"})>>), savePath |-> Form(<<Answer({"status"})>>)]

WebsiteHealthCard ==
  [load |-> OnMount(Form(<<Need({"health"})>>)),
   validateStack |-> FormOf("stackChecking", <<Need({"stack"})>>),
   repair |-> FormOf("repairing", Renew("health"))]

ClientOnboardingWizard == [load |-> Setting("loading", Effect(<<Caught(Get({"dns", "mailboxes"}))>>))]

DashboardDomainOverview == [load |-> OnMount(Form(<<Need({"domains"})>>))]

DomainsList == [toggle |-> RowOf("busy", Change("domains"))]

CreateDomainForm == [onSubmit |-> Form(<<Post({"domain"})>>)]

\* The secret of the set-up is in the answer only.
AccountTotpSetup ==
  [load |-> Effect(<<Need({"enabled"})>>), beginSetup |-> FormOf("busy", <<Need({"secret"})>>),
   enable |-> FormOf("busy", <<Keep({"enabled"})>>), disable |-> FormOf("busy", <<Keep({"enabled"})>>)]

\* The file of a logo is read first, and nothing is disabled meanwhile.
BrandingEditor ==
  LET save == FormOf("busy", <<Answer({"branding"})>>)
  IN  [saveAll |-> save, onLogoFile |-> Repeatable(save), removeLogo |-> save, reset |-> save]

AppShell == [logout |-> Click(<<Send({"session"})>>)]

-----------------------------------------------------------------------------
(* Files, backups, the newsletter and the tools of a site.                 *)

\* The editor is about a file, the listing a part of the page: a directory is
\* shown with its name.  Folders in the list and in the path wait for nothing,
\* nor does the keyboard's save.
FilesOpened ==
  [navigate |-> Repeatable(Form(<<Need({"listing"})>>)),
   refresh |-> Waiting(Click(<<Need({"listing"})>>), {"loading"}),
   openEditor |-> Repeatable(Form(<<Opening(Need({"editor"}))>>)),
   saveFile |-> Repeatable(Form(<<OfChosen(Keep({"editor"})), Need({"listing"})>>))]

FilesChanged ==
  [uploadFiles |-> Form(Renew("listing")), createDir |-> Form(Renew("listing")),
   confirmDelete |-> EachRow(Form(Renew("listing"))),
   createFile |-> Form(Renew("listing") \o <<Opening(Need({"editor"}))>>)]

\* Each dialog has a flag of its own.
FileRenameDialog == [rename |-> FormOf("renaming", Renew("listing"))]
FileMoveDialog == [move |-> FormOf("moving", Renew("listing"))]
FileArchiveDialog == [archive |-> FormOf("archiving", Renew("listing"))]

FileManager ==
  FilesOpened @@ FilesChanged @@ FileRenameDialog @@ FileMoveDialog @@ FileArchiveDialog

BackupsLists ==
  [loadOffsitePolicy |-> Waiting(OnMount(Click(<<Caught(Need({"policy"}))>>)), {"loading"}),
   saveOffsitePolicy |-> Form(<<Keep({"policy"})>>),
   browseArchiveList |-> Form(<<Picking(Need({"entries"}))>>),
   loadRemoteBackups |-> Form(<<Need({"remote"})>>),
   runImportRemote |-> EachRow(Form(<<Post({"scheduled"}), Caught(Get({"scheduled"}))>>))]

\* An entry of an archive waits for nothing.
BackupsArchive ==
  [openArchiveEntry |-> Repeatable(Form(<<Picking(Need({"entries"}))>>)),
   restoreDatabase |-> EachRow(Form(<<Post({"site"})>>)),
   restorePartialFile |-> EachRow(Form(<<Post({"site"})>>))]

BackupsRestore == [runRestore |-> Form(<<Post({"site"})>>)]

BackupsSchedules ==
  [startBackup |-> Form(Change("scheduled")), uploadBackup |-> Form(Change("scheduled")),
   saveSchedule |-> Form(Change("scheduled")), deleteBackup |-> EachRow(Form(Change("scheduled"))),
   toggleSchedule |-> Form(<<Answer({"scheduled"})>>), toggleLegacyRow |-> EachRow(Form(<<Answer({"scheduled"})>>))]

BackupsManager == BackupsLists @@ BackupsArchive @@ BackupsSchedules @@ BackupsRestore

\* What the page shows is loaded twice when it appears: when it is mounted, and
\* when the domain is entered.
NewsletterLists ==
  LET all == Setting("loading", Effect(<<Need({"settings", "stats", "subscribers", "campaigns"})>>))
      change == <<Post({"subscribers", "stats"}), Need({"subscribers"}), Need({"settings", "stats"})>>
  IN  [refreshAll |-> all, enterDomain |-> all, saveSettings |-> Form(<<Answer({"settings"})>>),
       addSubscriber |-> Form(change), importSubscribers |-> Form(change),
       removeSubscriber |-> EachRow(Form(change))]

\* The button that goes on sending waits for nothing; its batches are one call.
NewsletterCampaigns ==
  [saveCampaign |-> Form(Renew("campaigns")), sendTest |-> Form(<<Ask>>),
   confirmSendCampaign |->
     EachRow(Form(<<Post({"campaigns"}), Need({"campaigns"}), Need({"settings", "stats"})>>)),
   continueSending |-> EachRow(Repeatable(Form(Renew("campaigns"))))]

NewsletterManager == NewsletterLists @@ NewsletterCampaigns

\* The calls of a section are made at once, and each resets the flag when its
\* answer is there; so the section is taken not to set it.
Section(parts) == Waiting(OnMount(Click(<<Caught(Need(parts))>>)), {"loading"})

PanelToolsDeliverability ==
  [loadSection |-> Section({"dmarc", "score", "bounces", "stats", "templates", "segments"}),
   saveDmarc |-> Form(<<Post({"dmarc", "score"}), Need({"dmarc"})>>),
   autoresponder |-> Form(<<Post({"autoreply"})>>), suppress |-> Form(Renew("suppressed")),
   saveTemplate |-> Form(Renew("templates")), saveSegment |-> Form(Renew("segments"))]

PanelToolsWebsite ==
  [loadSection |-> Section({"analytics", "git", "deploys", "wordpress", "shop", "contact", "missing"}),
   saveGit |-> Form(<<Post({"git"})>>), deploy |-> Form(<<Post({"deploys"})>>),
   rollback |-> Form(<<Post({"deploys"})>>), updateCore |-> Form(Renew("wordpress")),
   maintenance |-> Form(<<Post({"site"})>>), pipeline |-> Form(<<Post({"site"})>>)]

PanelToolsStaging ==
  [loadSection |-> Section({"bandwidth", "traffic"}), staging |-> Form(<<Post({"site"})>>),
   services |-> Form(<<Post({"services"})>>), addKey |-> Form(Renew("keys")),
   report |-> Form(<<Post({"report"})>>)]

PanelToolsSupport ==
  [loadSection |-> Section({"tickets", "invoices"}), createTicket |-> Form(Renew("tickets")),
   notify |-> EachRow(Form(<<Post({"mail"})>>)), createInvoice |-> Form(Renew("invoices")),
   pdf |-> EachRow(Form(<<Ask>>)), payLink |-> EachRow(Form(Renew("invoices"))),
   markSent |-> EachRow(Form(Renew("invoices"))), saveContact |-> Form(Renew("contacts"))]

-----------------------------------------------------------------------------
DomainPages ==
  [RedirectsManager |-> RedirectsManager, AliasesManager |-> AliasesManager, CronManager |-> CronManager,
   ProxiesManager |-> ProxiesManager, SharedAddressesManager |-> SharedAddressesManager,
   DnsManager |-> DnsManager, FtpManager |-> FtpManager, DatabaseManager |-> DatabaseManager,
   EmailManager |-> EmailManager, ProtectedManager |-> ProtectedManager,
   SecurityManager |-> SecurityManager, SslManager |-> SslManager, PhpManager |-> PhpManager,
   LimitsManager |-> LimitsManager, ScriptsManager |-> ScriptsManager,
   RuntimesManager |-> RuntimesManager, MailSettingsManager |-> MailSettingsManager,
   MailLogsManager |-> MailLogsManager, LogsManager |-> LogsManager,
   LifecycleManager |-> LifecycleManager, FeaturesManager |-> FeaturesManager,
   DomainTerminal |-> DomainTerminal, DomainPanelClientCard |-> DomainPanelClientCard,
   DomainDetail |-> DomainDetail, MediaPlayerPanel |-> MediaPlayerPanel,
   MediaLibraryManager |-> MediaLibraryManager, WebsiteHealthCard |-> WebsiteHealthCard,
   ClientOnboardingWizard |-> ClientOnboardingWizard,
   DashboardDomainOverview |-> DashboardDomainOverview, DomainsList |-> DomainsList,
   CreateDomainForm |-> CreateDomainForm, AccountTotpSetup |-> AccountTotpSetup,
   BrandingEditor |-> BrandingEditor, AppShell |-> AppShell, FileManager |-> FileManager,
   BackupsManager |-> BackupsManager, NewsletterManager |-> NewsletterManager,
   PanelToolsDeliverability |-> PanelToolsDeliverability,
   PanelToolsWebsite |-> PanelToolsWebsite, PanelToolsStaging |-> PanelToolsStaging,
   PanelToolsSupport |-> PanelToolsSupport]
=============================================================================
