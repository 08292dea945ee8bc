-------------------------------- MODULE ViewRun --------------------------------
(***************************************************************************)
(* A page in the browser.  A click starts a handler, which makes its calls  *)
(* one after the other; nothing keeps another handler from running          *)
(* meanwhile but the buttons that are disabled.  The server serves calls in *)
(* any order, answers arrive in any order, a call may be refused or lost.   *)
(*                                                                         *)
(*   stored   the changes each part on the server holds (a part of an item  *)
(*            for each item)                                                *)
(*   shown    which item a part of the page is about, and the changes the   *)
(*            page learned of last, for each item                           *)
(*   chosen   the item the page is about, if any                            *)
(*   busy     the flags that disable buttons                                *)
(*   calls    the handlers at work, by the number of the click              *)
(*                                                                         *)
(* overtaken holds the parts an older answer was put into, missed those a   *)
(* handler that failed left behind, with the item they are about, twice the *)
(* handlers that submitted a change while they were submitting it.          *)
(***************************************************************************)
EXTENDS DomainViews, AdminViews, SequencesExt

CONSTANTS
    View,        \* the pages, AllViews: as a constant, TLC's coverage report does not
                 \* unfold the tables at every use
    Items,       \* rows of a list
    MaxEvents,   \* clicks on a page, and calls refused or lost
    MaxTrouble   \* calls refused or lost

AllViews == DomainPages @@ AdminPages

ASSUME ViewAssumption ==
  View = AllViews /\ \A v \in DOMAIN View : IsFiniteSet(DOMAIN View[v]) /\ "" \notin DOMAIN View[v]

VARIABLES view, stored, shown, chosen, busy, calls, overtaken, missed, twice, clicks, trouble

vars == <<view, stored, shown, chosen, busy, calls, overtaken, missed, twice, clicks, trouble>>

Page == View[view]
NoItem == "page"
ASSUME ItemsAssumption == NoItem \notin Items
Subjects == Items \cup {NoItem}
Off == <<"", NoItem>>
Showing(i) == [changes |-> [j \in Subjects |-> {}], of |-> i]
Nothing == "nothing"

Ran(h) == {Page[h].steps[i] : i \in DOMAIN Page[h].steps}
Loaded(c) == c.shows \cup c.adds
AllCalls == UNION {Ran(h) : h \in DOMAIN Page}
Parts == UNION {c.does \cup Loaded(c) : c \in AllCalls}
ShownParts == UNION {Loaded(c) : c \in AllCalls}
Itemed == UNION {c.ofItem : c \in AllCalls}
Flags == {Page[h].sets : h \in DOMAIN Page} \ {""}
Mounted == {h \in DOMAIN Page : Page[h].mount}
LoadedBy(h) == UNION {Loaded(c) : c \in Ran(h)}

-----------------------------------------------------------------------------
\* What a part is about, in a call about item i.
Of(call, p, i) == IF p \in call.ofItem THEN i ELSE NoItem
PartsOf(call, parts, i) == {<<p, Of(call, p, i)>> : p \in parts}

Picked(call, i) == IF call.picks = "before" THEN PartsOf(call, Loaded(call), i) ELSE {}
LoadsOf(h, i) == UNION {PartsOf(c, Loaded(c), i) : c \in Ran(h)}

\* A handler at work: its name, the item it is about, its next call, whether
\* that was served and how, what the answer holds, and the parts the handler
\* has yet to show: those it has changed, those of an item it has chosen, those
\* a page begins with.
Started(h, i, owed) ==
  [h |-> h, item |-> i, step |-> 1, phase |-> "sent", ok |-> TRUE, seen |-> <<>>,
   owes |-> owed \cup Picked(Page[h].steps[1], i)]

Flagged(h, i, b) == IF Page[h].sets = "" THEN b ELSE [b EXCEPT ![Page[h].sets] = <<h, i>>]
Unflagged(h, b) == IF Page[h].sets = "" THEN b ELSE [b EXCEPT ![Page[h].sets] = Off]

SetAtFirst(f) == {h \in Mounted : Page[h].sets = f}

\* Pages that begin with the first of a list chosen, if there is one, though what
\* is about it is not loaded.
Preselected == {"ProtectedManager"}

\* The properties of a page hold what the server had when it rendered it; what
\* is loaded later is not there yet.  An item is chosen by a click, unless the page
\* begins with one.
Init ==
  /\ view \in DOMAIN View
  /\ stored = [p \in Parts |-> [i \in Subjects |-> {}]]
  /\ LET first == SetToSeq(Mounted)
         begins == UNION {LoadedBy(h) : h \in Mounted}
     IN  /\ chosen \in (IF view \in Preselected THEN Subjects
                        ELSE IF Itemed \cap begins = {} THEN {NoItem} ELSE Items)
         /\ calls = [n \in DOMAIN first |-> Started(first[n], chosen, LoadsOf(first[n], chosen))]
         /\ busy = [f \in Flags |-> IF SetAtFirst(f) = {} THEN Off ELSE <<CHOOSE h \in SetAtFirst(f) : TRUE, chosen>>]
         /\ shown = [p \in ShownParts |-> Showing(IF p \in begins \cup Itemed THEN Nothing ELSE NoItem)]
         /\ missed = (Itemed \ begins) \X Subjects
  /\ overtaken = {} /\ twice = {} /\ clicks = 0 /\ trouble = 0

-----------------------------------------------------------------------------
\* A button is that of any row, or chooses one, or is about the chosen one, or
\* about no item.
AboutOf(h) ==
  IF Page[h].rows \/ (\E c \in Ran(h) : c.picks # "not") THEN Items
  ELSE IF \E c \in Ran(h) : c.ofItem # {} THEN Items \cap {chosen}
  ELSE {NoItem}

\* Mutant: the button is enabled while the handler is at work.
Enabled_NotDisabled(h, i) == Page[h].button /\ i \in AboutOf(h)

\* The button can be pressed.
Enabled(h, i) ==
  /\ Page[h].button /\ i \in AboutOf(h)
  /\ \A f \in Page[h].waits : busy[f] = Off
  /\ Page[h].own => busy[Page[h].sets] # <<h, i>>

Changes(h) == \E c \in Ran(h) : c.does # {}

Press(h, i) ==
  LET n == Cardinality(Mounted) + clicks + 1
  IN  /\ clicks + trouble < MaxEvents /\ Enabled(h, i)
      /\ calls' = [m \in DOMAIN calls \cup {n} |-> IF m = n THEN Started(h, i, {}) ELSE calls[m]]
      /\ busy' = Flagged(h, i, busy)
      /\ chosen' = IF Page[h].steps[1].picks = "before" THEN i ELSE chosen
      /\ twice' = twice \cup {g \in {h} : Changes(g) /\ \E m \in DOMAIN calls : calls[m].h = g /\ calls[m].item = i}
      /\ clicks' = clicks + 1
      /\ UNCHANGED <<view, stored, shown, overtaken, missed, trouble>>

Now(n) == Page[calls[n].h].steps[calls[n].step]
About(n, p) == Of(Now(n), p, calls[n].item)

\* A change, by the click and the call that made it.
Mark(n) == <<n, calls[n].step>>

\* The route does what it is asked, and answers with what is stored then.
Serve(n) ==
  /\ calls[n].phase = "sent"
  /\ LET now == [p \in DOMAIN stored |->
                   IF p \in Now(n).does THEN [stored[p] EXCEPT ![About(n, p)] = @ \cup {Mark(n)}] ELSE stored[p]]
     IN  /\ stored' = now
         /\ calls' = [calls EXCEPT ![n].phase = "served", ![n].owes = @ \cup PartsOf(Now(n), Now(n).does \cap DOMAIN shown, calls[n].item),
                                   ![n].seen = [p \in Now(n).shows |-> now[p][About(n, p)]]]
  /\ UNCHANGED <<view, shown, chosen, busy, overtaken, missed, twice, clicks, trouble>>

MayFail == trouble < MaxTrouble /\ clicks + trouble < MaxEvents

Refuse(n) ==
  /\ calls[n].phase = "sent" /\ MayFail
  /\ calls' = [calls EXCEPT ![n].phase = "served", ![n].ok = FALSE]
  /\ trouble' = trouble + 1
  /\ UNCHANGED <<view, stored, shown, chosen, busy, overtaken, missed, twice, clicks>>

-----------------------------------------------------------------------------
End(n, behind) ==
  /\ calls' = [m \in DOMAIN calls \ {n} |-> calls[m]]
  /\ busy' = Unflagged(calls[n].h, busy)
  /\ missed' = behind

\* On to the next call, which may choose an item first; it is about item i.
Proceed(n, owed, behind, focus) ==
  IF calls[n].step = Len(Page[calls[n].h].steps)
  THEN End(n, behind) /\ chosen' = focus
  ELSE LET call == Page[calls[n].h].steps[calls[n].step + 1]
       IN  /\ calls' = [calls EXCEPT ![n].step = @ + 1, ![n].phase = "sent", ![n].ok = TRUE, ![n].seen = <<>>,
                                     ![n].owes = owed \cup Picked(call, calls[n].item)]
           /\ chosen' = IF call.picks = "before" THEN calls[n].item ELSE focus
           /\ missed' = behind
           /\ UNCHANGED busy

\* Whether an answer about part p lacks changes of its item that the page has
\* shown, or is about another item than the chosen one.
Older(n, p) ==
  \/ About(n, p) \notin {NoItem, chosen} /\ Now(n).picks # "after"
  \/ ~(shown[p].changes[About(n, p)] \subseteq calls[n].seen[p])

Deliver(n) ==
  /\ calls[n].phase = "served" /\ calls[n].ok
  /\ LET parts == DOMAIN calls[n].seen
         old == {p \in parts : Older(n, p)}
         fresh == {p \in parts \ old : stored[p][About(n, p)] = calls[n].seen[p]}
         focus == IF Now(n).picks = "after" THEN calls[n].item ELSE chosen
     IN  /\ shown' = [p \in DOMAIN shown |->
                        IF p \in parts
                        THEN [changes |-> [shown[p].changes EXCEPT ![About(n, p)] = calls[n].seen[p]], of |-> About(n, p)]
                        ELSE IF p \in Now(n).adds
                        THEN [changes |-> [shown[p].changes EXCEPT ![About(n, p)] = @ \cup {Mark(n)}],
                              of |-> IF shown[p].of = Nothing THEN About(n, p) ELSE shown[p].of]
                        ELSE shown[p]]
         /\ overtaken' = (overtaken \cup old) \ fresh
         /\ Proceed(n, calls[n].owes \ PartsOf(Now(n), parts \cup Now(n).adds, calls[n].item),
                    missed \ PartsOf(Now(n), fresh, calls[n].item), focus)
  /\ UNCHANGED <<view, stored, twice, clicks, trouble>>

\* Without the answer the handler ends, and leaves behind what it owes, or goes
\* on without what this call would have shown.
Unanswered(n, ends) ==
  IF ends
  THEN End(n, missed \cup calls[n].owes) /\ UNCHANGED chosen
  ELSE LET passed == PartsOf(Now(n), Now(n).does \cup Loaded(Now(n)), calls[n].item)
       IN  Proceed(n, calls[n].owes, missed \cup (calls[n].owes \cap passed), chosen)

\* res.ok is false.
Refused(n) ==
  /\ calls[n].phase = "served" /\ ~calls[n].ok
  /\ Unanswered(n, Now(n).must)
  /\ UNCHANGED <<view, stored, shown, overtaken, twice, clicks, trouble>>

\* fetch throws, before or after the server did what it was asked; or the
\* answer is no JSON.
Lose(n) ==
  /\ MayFail /\ calls[n].ok
  /\ Unanswered(n, ~Now(n).tries)
  /\ trouble' = trouble + 1
  /\ UNCHANGED <<view, stored, shown, overtaken, twice, clicks>>

Next ==
  \/ \E h \in DOMAIN Page, i \in Subjects : Press(h, i)
  \/ \E n \in DOMAIN calls : Serve(n) \/ Refuse(n) \/ Deliver(n) \/ Refused(n) \/ Lose(n)

Spec == Init /\ [][Next]_vars

-----------------------------------------------------------------------------
Quiet == calls = <<>>

Focus(p) == IF p \in Itemed THEN chosen ELSE NoItem
Current(p) == shown[p].of = Focus(p) /\ shown[p].changes[Focus(p)] = stored[p][Focus(p)]

\* Parts the code lets an older answer into: a load, at the start or from a
\* button that waits for nothing, crosses a handler that changes the part.
MayBeOvertaken ==
  [ProtectedManager |-> {"directories", "users"}, FtpManager |-> {"accounts"}, SecurityManager |-> {"mail", "malware", "waf"},
   ScriptsManager |-> {"installed"}, LifecycleManager |-> {"validation"},
   DomainPanelClientCard |-> {"client"}, MediaLibraryManager |-> {"status"},
   WebsiteHealthCard |-> {"health"}, DomainsList |-> {"domains"}, AccountTotpSetup |-> {"enabled"},
   BrandingEditor |-> {"branding"}, FileManager |-> {"editor", "listing"},
   BackupsManager |-> {"entries", "policy", "scheduled"},
   NewsletterManager |-> {"campaigns", "settings", "stats", "subscribers"},
   PanelToolsDeliverability |-> {"dmarc", "score", "segments", "templates"},
   PanelToolsWebsite |-> {"deploys", "git", "wordpress"},
   PanelToolsSupport |-> {"invoices", "tickets"}, AdminServerView |-> {"services"},
   AdminCloudCredentials |-> {"providers"}, AdminAuditLog |-> {"entries"},
   AdminApiKeysView |-> {"keys"}, AdminStackView |-> {"checks"},
   AdminDashboardPanel |-> {"processes", "services"}, AdminNodesView |-> {"nodes"},
   AdminLicensePanel |-> {"activations"}, AdminPrivacyCenter |-> {"report"},
   AdminUpdatesView |-> {"job", "status"}, AdminFirewallView |-> {"rules"},
   DockerManager |-> {"data"}, JournalBrowser |-> {"entry", "list"}]

\* Parts a handler changes and does not load again.
NotRenewed ==
  [PanelToolsDeliverability |-> {"score"}, PanelToolsWebsite |-> {"deploys", "git"}]

\* Flag f of page p excludes: every handler that sets it has a button that is
\* disabled while it is set, or runs when the page appears, and is then alone.
Setters(p, f) == {h \in DOMAIN p : p[h].sets = f}
Exclusive(p, f) ==
  /\ f # ""
  /\ \A h \in Setters(p, f) : p[h].button => f \in p[h].waits
  /\ \A g, h \in Setters(p, f) : p[g].mount /\ p[h].mount => g = h

\* Handlers that can be started while they submit the same.  Their buttons wait
\* for nothing, or for a flag that another handler resets which was started
\* without waiting for it, or for the name of their row, which another row has
\* overwritten meanwhile.
MayRepeat ==
  [FtpManager |-> {"confirmDelete", "create", "savePassword"},
   ProtectedManager |-> {"addDirectory", "addUser", "confirmDeleteDir", "removeUser"},
   ScriptsManager |-> {"confirmDelete", "doInstall", "rollback"},
   BrandingEditor |-> {"onLogoFile", "removeLogo", "reset", "saveAll"},
   AppShell |-> {"logout"}, DomainsList |-> {"toggle"}, FeaturesManager |-> {"toggle"},
   FileManager |-> {"confirmDelete", "createDir", "createFile", "saveFile", "uploadFiles"},
   BackupsManager |->
     {"deleteBackup", "restoreDatabase", "restorePartialFile", "runImportRemote", "runRestore",
      "saveOffsitePolicy", "saveSchedule", "startBackup", "toggleLegacyRow", "toggleSchedule",
      "uploadBackup"},
   NewsletterManager |->
     {"addSubscriber", "confirmSendCampaign", "continueSending", "importSubscribers",
      "removeSubscriber", "saveCampaign", "saveSettings"},
   AdminServerView |-> {"restart", "start", "stop"}, AdminApiKeysView |-> {"revoke"},
   AdminPrivacyCenter |-> {"trim"}, AdminUpdatesView |-> {"refresh", "upgrade"},
   DockerManager |-> {"composeAction", "containerAction", "pullImage", "remove"},
   JournalBrowser |-> {"runUndo"}]

\* What the pages disable, while a change is being submitted.
ASSUME ButtonsAssumption ==
  \A v \in DOMAIN View : \A h \in DOMAIN View[v] :
    View[v][h].button /\ (\E i \in DOMAIN View[v][h].steps : View[v][h].steps[i].does # {}) =>
      (v \in DOMAIN MayRepeat /\ h \in MayRepeat[v]) \/ Exclusive(View[v], View[v][h].sets)

Listed(table, x) == view \in DOMAIN table /\ x \in table[view]

\* When nothing is under way, the page shows what the server stores, but for what
\* failed calls left behind, the parts of NotRenewed, and those of MayBeOvertaken
\* that an older answer was put into: every other handler loads again what it
\* changed, and every other button that could let an older answer arrive after a
\* newer one is disabled.
ShowsStored ==
  Quiet => \A p \in DOMAIN shown :
    \/ Current(p) \/ <<p, Focus(p)>> \in missed \/ Listed(NotRenewed, p)
    \/ p \in overtaken /\ Listed(MayBeOvertaken, p)

\* Only the handlers of MayRepeat submit a change again while they are submitting
\* it: the buttons of every other form are disabled until its answer is there,
\* whatever else is clicked meanwhile.
SubmittedOnce == \A h \in twice : Listed(MayRepeat, h)
=============================================================================
