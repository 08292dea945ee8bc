------------------------------- MODULE AdminViews -------------------------------
(* The pages of an administrator. *)
EXTENDS Views, TLC

AdminListView == ListPage("items")
AdminResellersView == ListPage("resellers")

AdminNetworkingView == [load |-> OnMount(Form(<<Need({"summary"})>>))]
AdminCronView == [load |-> OnMount(Form(<<Need({"jobs"})>>))]
AdminAwstatsView == [load |-> OnMount(Form(<<Need({"rows"})>>))]
AdminHostMetrics == [refresh |-> Form(<<Need({"metrics"})>>)]
HealthBrowser == [run |-> OnMount(Form(<<Need({"report"})>>))]
ServerConfigButton == [check |-> Form(<<Ask>>)]
AppInstallForm == [submit |-> Form(<<Post({"app"})>>)]

\* Each service has its three buttons, and each disables itself.
AdminServerView ==
  LET control == RowOf("loading", Change("services"))
  IN  [start |-> control, stop |-> control, restart |-> control]

AdminCloudCredentials == [load |-> Effect(<<Get({"providers"})>>), save |-> Form(Change("providers"))]

AdminSystemView ==
  [toggleFeature |-> EachRow(Form(<<Answer({"features"})>>)), runConfig |-> Form(<<Post({"config"})>>)]

\* The entries of a filter: typing in it loads them and waits for nothing.
AdminAuditLog ==
  [load |-> OnMount(Form(<<OfChosen(Need({"entries"}))>>)),
   filter |-> Repeatable(Form(<<Picking(Need({"entries"}))>>))]

\* Revoking a key waits for nothing, and does not look at the answer.
AdminApiKeysView ==
  [load |-> Effect(<<Get({"keys"})>>), create |-> Form(Change("keys")),
   revoke |-> EachRow(Click(<<Send({"keys"}), Get({"keys"})>>))]

\* The answer of an action may hold the checks; otherwise they are loaded.
AdminStackView ==
  [load |-> OnMount(Form(<<Need({"checks"})>>)), action |-> FormOf("acting", Renew("checks")),
   validatedAction |-> FormOf("acting", <<Answer({"checks"})>>)]

\* A bucket is chosen when its files are there; that loading the buckets clears
\* them is left out.
AdminCloudView ==
  [loadBuckets |-> Form(<<Need({"buckets"})>>), loadFiles |-> Form(<<Opening(Need({"files"}))>>),
   upload |-> Form(<<OfChosen(Post({"files"})), OfChosen(Need({"files"}))>>)]

\* Nothing can be pressed while the settings are loaded.
AdminAlertsSettings ==
  LET all == {"bootLoading", "saving", "evaluating"}
  IN  [load |-> Setting("bootLoading", Effect(<<Get({"settings"})>>)),
       save |-> Waiting(FormOf("saving", <<Keep({"settings"})>>), all),
       evaluate |-> Waiting(FormOf("evaluating", <<Post({"alerts"})>>), all)]

\* After a restart of the panel itself a timer loads both lists.
AdminDashboardPanel ==
  LET both == Get({"processes", "services"})
  IN  [load |-> OnMount(Click(<<both>>)),
       panelAction |-> FormOf("acting", <<Post({"processes"}), both>>),
       serviceAction |-> EachRow(FormOf("acting", <<Post({"services"}), both>>))]

\* The history of the chosen hours.  Both handlers count in loadSeq and would
\* drop an answer that was overtaken; the count is left out, since every button
\* is disabled meanwhile.
AdminMetricsHistory ==
  LET history == Need({"history"})
  IN  [load |-> OnMount(Form(<<Picking(history)>>)),
       snapshot |-> Form(<<OfChosen(Post({"history"})), OfChosen(history)>>)]

\* Four flags, each for its own button.
AdminNodesView ==
  [load |-> OnMount(Form(<<Need({"nodes"})>>)), addNode |-> FormOf("adding", Renew("nodes")),
   pingCluster |-> FormOf("clusterPing", Renew("nodes")),
   remoteProvision |-> FormOf("provisioning", <<Post({"domain"})>>)]

\* That the activations are loaded again when the license shown changes is left
\* out: they are loaded at the end of an action as well.
AdminLicensePanel ==
  LET activations == Caught(Get({"activations"}))
      load == OnMount(FormOf("activationsLoading", <<activations>>))
  IN  [loadActivations |-> Waiting(load, {"busy", "activationsLoading"}),
       removeActivation |-> EachRow(FormOf("busy", <<Post({"activations"}), activations>>)),
       runAction |-> FormOf("busy", <<Call({"license", "activations"}, {"license"}), activations>>)]

AdminPrivacyCenter ==
  [refresh |-> OnMount(Form(<<Need({"report"})>>)), security |-> Effect(<<Caught(Get({"security"}))>>),
   trim |-> Repeatable(Form(<<Answer({"report"})>>))]

\* One of the three kinds of update.  The buttons wait for the first load, not
\* for the call that is under way.  A timer polls the job; the poll that sees it
\* ended loads the status again, which is the end of the upgrade here.
PollJob == <<Need({"job"}), Need({"status"})>>
LoadUpdates == [loadAll |-> Setting("loading", Effect(<<Need({"status"})>>))]

AdminUpdatesView ==
  LoadUpdates @@
  [refresh |-> Waiting(FormOf("acting", <<Answer({"status"})>>), {"loading"}),
   upgrade |-> Waiting(FormOf("acting", <<Post({"job", "status"})>> \o PollJob), {"loading"}),
   pollJob |-> Click(PollJob)]

AdminPanelPolicyView ==
  [load |-> Setting("loading", Effect(<<Need({"policy"})>>)),
   save |-> Waiting(FormOf("saving", <<Keep({"policy"})>>), {"loading", "saving"})]

AdminFirewallView ==
  [load |-> Effect(<<Need({"rules"})>>), loadFail2ban |-> Effect(<<Get({"fail2ban"})>>),
   act |-> Form(Renew("rules"))]

\* The flag holds the name of the container and the action.  Those of the
\* dialogs and of compose wait for any of them, the list for itself at most.
DockerContainers ==
  [refresh |-> OnMount(Repeatable(Form(<<Need({"data"})>>))),
   containerAction |-> RowOf("busy", Renew("data")),
   logs |-> RowOf("busy", <<Opening(Need({"logs"}))>>),
   pullImage |-> Named("busy", Renew("data")),
   composeAction |-> Waiting(Named("busy", Renew("data")), {"busy"})]

DockerRemovals == [remove |-> Waiting(RowOf("busy", Renew("data")), {"busy"})]

DockerManager == DockerContainers @@ DockerRemovals

\* The list of the filter that was applied, and the entry that is selected: its
\* loading waits for nothing and is not cancelled.
JournalList ==
  [refresh |-> OnMount(Form(<<Need({"list"})>>)),
   select |-> Setting("undoing", Click(<<Picking(Need({"entry"}))>>))]

\* Only a selected entry can be undone; the answer holds it, and the list is
\* loaded again.  The button is in the detail of the entry, which each selection
\* takes off the page until the entry is there, and which is new then: so the flag
\* is set by a selection, too, and off when an entry has come, also if that entry
\* is still being undone.  Left out: that selecting the selected entry does
\* nothing, and that an undo which ends leaves the flag of a newer detail alone.
JournalEntryDetail ==
  LET undo == OnChosen({"entry"}, Call({"entry", "list"}, {"entry"}))
  IN  [runUndo |-> FormOf("undoing", <<undo, Need({"list"})>>)]

JournalBrowser == JournalList @@ JournalEntryDetail

-----------------------------------------------------------------------------
AdminPages ==
  [AdminListView |-> AdminListView, AdminResellersView |-> AdminResellersView,
   AdminNetworkingView |-> AdminNetworkingView, AdminCronView |-> AdminCronView,
   AdminAwstatsView |-> AdminAwstatsView, AdminHostMetrics |-> AdminHostMetrics,
   HealthBrowser |-> HealthBrowser, ServerConfigButton |-> ServerConfigButton,
   AppInstallForm |-> AppInstallForm, AdminServerView |-> AdminServerView,
   AdminCloudCredentials |-> AdminCloudCredentials, AdminSystemView |-> AdminSystemView,
   AdminAuditLog |-> AdminAuditLog, AdminApiKeysView |-> AdminApiKeysView,
   AdminStackView |-> AdminStackView, AdminCloudView |-> AdminCloudView,
   AdminAlertsSettings |-> AdminAlertsSettings, AdminDashboardPanel |-> AdminDashboardPanel,
   AdminMetricsHistory |-> AdminMetricsHistory, AdminNodesView |-> AdminNodesView,
   AdminLicensePanel |-> AdminLicensePanel, AdminPrivacyCenter |-> AdminPrivacyCenter,
   AdminUpdatesView |-> AdminUpdatesView, AdminPanelPolicyView |-> AdminPanelPolicyView,
   AdminFirewallView |-> AdminFirewallView, DockerManager |-> DockerManager,
   JournalBrowser |-> JournalBrowser]
=============================================================================
