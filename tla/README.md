# A verification development for Qadbak

Qadbak is a hosting control panel: a Next.js panel process (TypeScript, `src/src`),
provisioning helpers run as root in processes of their own (`src/scripts`), a Go agent that
runs on other servers and talks to the phone (`src/agent`), and an iOS app. Nearly all of its
state lives in JSON and JSONL files that are read and written whole, by several requests of
one process or by several processes. What can go wrong is seldom inside one function: it is
between a read and the write that follows it. That is what these modules are about.

Paths below are relative to the repository, with its root called `src/`.

## Inventory

| part | state | operations | hard because | correct when |
|---|---|---|---|---|
| Action journal (`src/src/lib/journal`), undo route | one JSONL file per UTC day; `fileLocks`, a map of promise chains | append, look up, undo, mark undone | every `await` lets other requests run; appends take no lock; restarts; midnight | rewrites exclude each other, marks are never lost, a confirmed undo is final, every request is answered |
| Newsletter (`scripts/lib/provision-newsletter.mjs`) | `subscribers.json`, `campaigns.json`, `queue.jsonl` per domain | subscriptions, campaigns, batches | no lock between processes, truncating writes, timeouts that kill | only confirmed subscriptions get mail, once; the queue drains |
| Agent credentials (`agent/internal/auth`) | pairing, refresh and confirmation files, one mutex | pair, rotate, revoke, confirm, act | crashes in truncating writes, lost answers, errors under the mutex | each one-time token is used once |
| Provisioning helpers (`scripts/provisioning-helper.mjs`, `scripts/lib`) | registry, one directory of JSON files per domain, Postfix maps, vhosts, pools, crontabs, unix users, archives | some 200 commands | processes without locks; several files per command; failures half way; files computed from others | computed files follow the files they come from; lists keep what they record; a refused command changes nothing |
| Panel stores (`src/src/lib`) | users, TOTP, API keys, counters, sessions revoked, refresh tokens, license and environment, alerts, jobs, metrics | the route handlers under `app/api` | requests interleave; checked values are stale when used; two schedulers | what was revoked stays so; an administrator remains; license and environment agree; an alert is sent once |
| Route handlers and RBAC (`src/src/app/api`) | none of their own | session, role, domain and license checks, then provisioner calls | the check and the effect are separate steps; a sub-domain shares the unix user of its parent | a client's request reaches nothing of another client |
| Remote hosting panel (`src/src/lib/hosting-remote.ts`) | the other panel's domains, seen through its API | the same methods as the native provisioner, one or two calls each | a call can take effect and its answer be lost; a method of two calls stops between them | a client names only its own domains and only programs of its role |
| Agent panels and privilege | none, or that of a system service | detection, wrapped commands, reports | | |
| iOS app, installers, integrations, web site | client state, set-up | | | |

`PROJECT.json` lists all components, with the reason where one is not modelled, and every
hazard with its line.

## Plan

1. `Journal`, `Newsletter`, `OneTimeTokens`/`AgentAuth` with their proofs: done.
2. The provisioning helpers as programs of steps (`Steps`, `Provision*`, `StepRun`,
   `Provisioning`): done.
3. The panel's stores and every route on top of them (`PanelStores`, `PanelOps`,
   `HostHelpers`, `DomainRoutes`, `HostRoutes`, `Panel`): done.
4. The pages of the panel in the browser (`Views`, `DomainViews`, `AdminViews`, `ViewRun`): done,
   without the mail clients.
5. The remote adapter and the agents of other servers, webmail and its folders, the file helper
   operation by operation, the health checks (`RemoteHosting`, `MailFolders`, `PanelOps`,
   `HostHelpers`): done.
6. Next: the clients for mailboxes and webmail in the browser (`ImapMailboxesManager`,
   `QadbakWebmailClient`), the panels an agent wraps.

Theorems, in the order of the modules: the journal, the agent's tokens and the newsletter are
proved but for liveness; of the step modules, what holds of every table of programs with the
shape its module assumes (`StepRunProofs`, `PanelProofs`, `PanelStoreProofs`, `ProvisioningProofs`); of the pages, that
a form is not submitted twice (`ViewProofs`). Worth proving next: the alias and mailbox maps
(`MapsAreCurrent`), for which `FInv` needs a notion of a map that may fall short of its sources by
what another map holds; `RegisteredIsServed`, from the commands that link and unlink; `ShowsStored`,
from an order of the calls of a page.

## Modules

### Journal

`Journal.tla` models one panel process. A day file is the set of its lines (a line's id is
unique, and nothing depends on the order); a line keeps its id, whether it has an `undoSpec`
and the `undoneByEntryId`. `chain[d]` is the promise chain of `withFileLock` for day `d`, whose
head is in the critical section; `fileLocks[d]` is the promise in the map.

| action | code |
|---|---|
| `Perform`, `FinishAction` | a route that performs an action, and `journal.finish` at its end (`builder.ts`, `aliases/route.ts`) |
| `Arrive`, `Lookup` | the undo `POST` up to `beginJournal`; one `Lookup` is one `readDay` of `getEntry` |
| `runUndo`, `FinishUndo` | the handler, and the append of the undo's own line |
| `Enqueue`, `ReadFile` (`SkipDay`, `SkipUnread`), `Rename`, `RewriteFails` | `markEntryUndone` under `withFileLock`: queue, read (a read that fails counts as a file without the entry), write and rename, or throw |
| `Midnight`, `Lapse`, `Crash` | the clock, `ttlMinutes`, a restart |

Each action is what runs between two `await`s. A handler is known by how it reverses the
resource of its entry (`Kind`): it deletes (`remove`, mailbox and login additions), it creates
and refuses a second copy (`create`, aliases), or it creates without looking (`readd`, DNS
records). A handler that fails may have changed the resource before. Any read of a day file and
any write may fail, up to `MaxDiskFaults`: `Lookup` and `ReadFile` then go on to the next day, as
the code does (`store.ts:70-72`, `:190-194`), and `missed` notes that the marking scan of a
request was blind to a file. `acked`, `appended` and `ran` are history variables; no action reads
them except `Arrive`, which records in `late` whether an undo of the entry had been confirmed
before this request arrived. `acked` holds the entries of which an undo was confirmed: answered
200 after its mark was written, or after a scan that found no line to mark and had read every
file. A 200 whose scan missed a file leaves the entry unmarked, and confirms nothing.

`JournalInv.tla` states the inductive invariant, `JournalProofs.tla` proves it.

### Newsletter

`Newsletter.tla` models the files of one domain and a set of `Workers`, each a helper process
running one command; `Cron` is the one the queue script starts. A command reads whole files,
computes, and writes whole files. A write is two steps: the file is opened and truncated, then
filled; a read in between gets the fallback of `readDomainConfigJson`, or of the queue the lines
that are complete so far (`readQueueLines` parses line by line and drops one that does not parse).
`Kill` ends a process at any point (the timeout of `native-exec.ts`). A person has at most
`MaxTokens` subscriptions, told apart by a token as in the code; `confirmed` is the history of
confirmed pairs. Of each campaign `mailed` holds whom it was mailed to in this queueing and whom it
had reached before, and `reached` whom it was mailed to and counted as sent to since it was created:
queueing it again forgets the others, edits forget nothing.

| action | code in `provision-newsletter.mjs` |
|---|---|
| `Start` | `native-exec.ts` starts a helper |
| `Subscribe`, `Resubscribe`, `Rename`, `Import` | `newsletterSubscriberUpsert`, `newsletterSubscribersImport` |
| `newsletterPublicConfirm`, `newsletterPublicUnsubscribe`, `newsletterSubscriberDelete`, `bounceSuppressAdd` | the functions of those names |
| `newsletterCampaignUpsert`, `newsletterCampaignDelete`, `QueueStart`, `newsletterCampaignQueue` | campaigns, and the queue file written from scratch |
| `BatchStart`, `BatchCampaigns`, `sendNewsletterMessage`, `Settled` | `newsletterSendBatch`, one message a step |
| `openX`, `writeX`, `QueueWritten` | truncation and content of each file |

Abstractions: double opt-in is on (the default of the settings); a reader of a half-written JSON
file sees it empty, never a prefix, which is what `JSON.parse` makes of both; opens, clicks,
settings and test mails are left out, for they write none of the three files.

`NewsletterInv.tla` states the inductive invariant `NInv`, `NewsletterProofs.tla` proves it.

### OneTimeTokens and AgentAuth

`OneTimeTokens.tla` is the promise: a token is unborn, live or gone; it is issued once, may be
used once (another may be issued in exchange), or is retired. `AgentAuth.tla` is the store of
`agent/internal/auth` with three files (`pairing.json`, `refresh-tokens.json`,
`confirm-jti.json`), `Store.mu`, and the handlers that call it, each a connection of `Conns`
with a program counter. `disk[t]` is the record of token `t` in its file, `torn` the files that
do not parse, `mem` what a handler has read under the lock.

| action | code |
|---|---|
| `Arrive` | a request with an argument the client was given (`handlers.go`, `actions.go`) |
| `Load` | `s.mu.Lock`, load, the checks: on to the write, or refused |
| `ConsumePairingToken` | the whole function, which removes the file in one call |
| `CreateSession` | the second lock of `pairingComplete`; on a file that does not parse, the write to a nil map panics and `withRecovery` answers, with the mutex still locked |
| `Truncate`, `DiskFault` | `os.WriteFile` empties the file; it, or the content, may be refused |
| `IssuePairingToken`, `SaveSession`, `Rotate`, `RevokeRefreshToken`, `IssueConfirmToken`, `ConsumeConfirmToken` | the content is written, the mutex released, and the answer arrives or is lost |
| `Act` | the rate limit, and the action a confirmation was spent on (`actions.go`) |
| `Expire`, `Crash` | `ExpiresAt` passes; the agent restarts |

The refinement (`Implements`) maps a token to live when the file says so, or when the file is
truncated and the holder of the mutex still has the record in memory; to gone when it was once
saved and is not live. So the step at which a token is lost is the failed write or the crash,
and not the truncation.

Abstractions: an access token is a stateless signature, and appears only as "the client was
paired"; what `randomToken` returns is new (each pool must be larger than the requests under
way, guard `Spare`); removing `pairing.json` and reading a file that exists do not fail; only
tokens in `Expiring` run out. A mutex left locked is `mu` naming a connection whose handler is
idle; that connection is not used again, its handler never ran the unlock.

`AgentAuthInv.tla` states the inductive invariant `AInv`, `AgentAuthProofs.tla` proves it.

### Steps, StepRun: programs of steps

A provisioning command and a request handler do the same few things: read a file whole,
refuse, write a file whole, compute one file from others, call a program, reload a service.
`Steps.tla` gives each of them a record and composes records into programs; a function of the
code becomes an operator that returns the steps of that function in their order.

| operator | what it stands for |
|---|---|
| `Look`, `Read`, `Parse` | a whole read; a file that is unreadable counts as empty (`readDomainConfigJson`) or, for `Parse`, is an error; `fail()` when something needed is missing or something new is there |
| `Save`, `Edit`, `Rewrite`, `AddNew` | truncate, then write the copy held, changed; or write from the request alone |
| `Render`, `RenderWhole`, `Copy` | a file computed from others, or copied |
| `EditWhole`, `Outside`, `Wipe` | changes another program makes in one piece: `crontab FILE`, `useradd`, `rm -rf` |
| `Reload`, `Postmap` | nginx loads every linked vhost; Postfix loads the maps named |
| `Try` | a call that changes nothing modelled but may fail |
| `When`, `Unless`, `Caught`, `Handled`, `Script` | conditions on what was read; `try/catch` blocks, rethrown or swallowed; exit codes of a script against the `process.exit` of `fail()` |

`StepRun.tla` runs programs in processes (`Helpers`). `disk` is every file's content (a set of
things), `torn` the files truncated and not yet written, `run[h]` a process: its command, its
next step, the copies it holds.

| action | code |
|---|---|
| `Start` | `native-exec.ts` starts a helper, or a request arrives |
| `ResolveDomainUser`, `UnknownDomain` | `resolveDomainUser` |
| `ReadFile`, `NotAcceptable` | a read and the `fail()` that follows it |
| `RenderFile`, `StripConflicts` | content computed in memory |
| `OpenFile`, `WriteFile` | `writeFile`: `O_TRUNC`, then the bytes; two writers of one file may leave one that does not parse |
| `ChangeInOnePiece`, `ReloadService`, `RunProgram` | programs that change their own tables, or nothing |
| `FailStep`, `ExitNonzero` | a failed call: its `catch` block, or the end of the command |
| `Kill` | the 600 s timeout, or the host goes down |

The remaining variables are history, and no action's guard but `Start`'s reads them: `excused`
are files that an overlap, a failure or a kill, or the command's own code (`Leaves`) may have
left out of date, `crossed` files that two processes ever used at the same time while one wrote
them, `refused` commands that answered `ok = false` after a write, `touched` what the
commands so far write, `trouble` the failures and kills so far. `excused` is as small as the
code allows: a file is put there when a copy that is out of date is written over it, or when
a process stops between its first write and the write of that file, and taken out
when it is computed afresh. Two names carry the exceptions of the properties: `Whole(f)` is a file
that is neither half written nor in `excused`; `Sound(f)` is one whose sources are whole, too; a
property that needs more names `crossed` or `trouble` itself, and its comment says what that
excepts. `Leaves(cmd)` lists, command by command, the files the code itself does not bring up to
date, each a sentence under "Divergences" below.

`Asked` is the set of commands an instance starts and `Program` their programs; `Program`
is a constant only so that TLC does not unfold the tables at every use in its coverage report,
and `ProgramAssumption` fixes it. `run[h].out` says that the request started after the logout of
its user was on file.

The proofs are about any `Program` of the right shape, and the shape is assumed by name, so that
TLC evaluates it on the programs of every run: `TablesAssumption` (jumps stay inside a program, and
what a step writes back it has read on every way there), `FilesAssumption` (the files a computed file
comes from are files of the instance) and `InstanceAssumption`. A table that loses a step the assumptions
ask for shows as a false assumption before any state is explored. `StepRunInv.tla` states the inductive
invariant `SInv`, `StepRunProofs.tla` proves it.

### The tables: ProvisionSites to HostRoutes

| module | code |
|---|---|
| `ProvisionSites` | redirects, proxies, PHP, FTP users, protected directories, TLS, apps, runtimes, cron, databases |
| `ProvisionMail` | mailboxes, aliases, Postfix maps and their synchronisation, DNS |
| `ProvisionBackup` | archives, restore, schedules, pruning, domain crontab |
| `MailFolders` | webmail: folders, messages, drafts, sent copies, the mail queue |
| `ProvisionHosts` | create, clone, delete, enable, disable, repair, migrate, transfer |
| `ProvisionStores`, `ProvisionQueries` | the commands that keep one list or setting, and those that only read |
| `PanelStores` | sessions, users, keys, counters, license, journal file, checks of a request |
| `PanelOps` | provisioner methods, newsletter and file helpers as requests call them |
| `HostHelpers` | stack, services, update commands, Docker, nodes, the terminal server, health checks and reports, the script that replaces weak passwords |
| `RemoteHosting` | the legacy remote adapter: the programs of each role, one call, the methods, the node agent |
| `DomainRoutes`, `HostRoutes` | every route file under `app/api`, method by method |

A command of the dispatcher is `<<name, domain, item>>`; a request is
`<<route, method, session, domain, item>>`, where the method names the `action` of the body when
there is one (`"POST activate"`). An item stands for whatever the command names: a path, an
address, a user, a version, an id.

A restore puts the parts of an archive in the place of what is there, except mailboxes and databases:
those the archive does not hold stay (`Merge`, whose `add` is what survives). In `MailFolders` an error of doveadm is not the end: `OrElse(a, b)` goes on with
`b` where `a` failed, and past `b` where `a` succeeded. The methods of `RemoteHosting` are requests too
(`remote`, `remoteServer`, `remoteLink`), a deployment's choice of adapter; what the other panel keeps is
one file per domain and one for the host, changed in one piece, before a `Try`: an answer that is lost
after the change.

`Provisioning` and `Panel` state what must hold; `MCProvisioning` and `MCPanel` choose domains,
sessions and the commands asked. `FollowUp` says which files are computed from which, and what a
program that writes one of them is like (`FollowAssumption`); `ProvisioningInv` and
`ProvisioningProofs`, `PanelInv`, `PanelProofs` and `PanelStoreProofs` hold the invariants and the proofs. Loops over the
registry (`Rows`) read it once and go through the rows they found (`UnlessFound`, `IfFound`), as the
code does.

### The pages of the panel

`Views` says what a page is made of: handlers that make calls of the API one after the other,
each call changing parts on the server, showing parts, or both; the flag a handler sets and
the flags its button waits for. `DomainViews` and `AdminViews` are the pages, one definition
per component of `src/src/components`, one field per handler of the same name. `ViewRun` runs one page:
`Press` starts a handler if its button is enabled; `Serve`, `Refuse`, `Deliver`, `Refused` and `Lose` are the
fate of the call it is at. Nothing orders calls of two handlers but disabled
buttons. `stored` and `shown` hold changes, not contents: a page is current when it shows every
change the server holds. What it learned of an item stays with it when it shows another, so that a late answer is
recognised as older.

A button is disabled from the render that follows the click, so two clicks on it are two
events only if no flag is set. `ButtonsAssumption` says what the buttons of the pages disable, and
`ViewProofs` proves what follows. Left out: messages, fields, dialogs that only open or close,
lists cleared while they load, and the mail clients.

Abstractions of the step modules:

- a file's content is a set; order, formatting and empty against missing are not told apart;
- a file that is half written reads as empty (which is what the `catch` of the readers makes of
  it), or is an error for `Parse`;
- operations on a directory tree are one step; of the archives of a domain only the newest
  is kept;
- the three mailbox maps are one: the maps of user and group ids are written after the first from
  the same rows (`mail-sync.mjs:106-117`) and nothing reads them back; the sources are read in one
  step; the boxes of a domain's owner and postmaster, which follow from the registry, are left out,
  and no path is absolute, so the check after the rebuild passes;
- `users.json` is there from the start and stays: `ensureUsersFile` (`users.ts:15-45`), which makes
  it from the example when it cannot be read, never has to;
- an entry of `session-revocations.json` does not expire: the token it names has expired by the time
  the entry is dropped (`session-revocation.ts:64-68`), and is refused for that;
- a license is active or expired as the server last said, or removed when it said revoked; that an
  active one goes unused once its last heartbeat is too old is left out, and the features are those
  of its key;
- rate limit counters are written but never refuse; TOTP codes are a choice; the scope of API keys
  of resellers is left out; in-process caches keyed by modification time are left out;
- a request and the helper it waits for end together when killed;
- the middleware is left out: its revocation check uses a cache of at most one second and skips
  uploads, and its role checks only repeat those of the handlers; so are the demo sandbox
  and the scan of home directories for an empty registry;
- stack scripts render every domain's file; here they render one.

## Runs

| run | bounds | shows |
|---|---|---|
| `journal` | two actions (one with a TTL), two undo requests, two days, look-back 2, one restart, one read or write that fails | `TypeOK`, the inductive invariant, `RewriteExclusive`, `MarkNamesItsUndo`, `MarksSurvive`, `EveryPostAnswered` |
| `journal_reach` | one action, three requests (symmetric), three days, look-back 2, two reads or writes that fail | `SecondPostRejected`, also when the entry leaves the look-back while undos are at work |
| `newsletter` | two overlapping helpers, two addresses, one campaign, batches of one, two subscriptions an address, four panel requests, one kill | `OnlyConfirmedMailed`, `FinishedMeansAttempted`, `DuplicatesExplained`, `QueueDrains` |
| `agent_sessions` | two connections, two codes, three refresh tokens, one confirmation that may expire, five requests, one restart, one refused write | `TypeOK`, `AInv`, `RevokeEndsChain`, `LockedOutExplained`, `PoisonMeansTorn`, `ConfirmedOnce`, `Implements`, `AnsweredUnlessPoisoned` |
| `prov_sites` | any two of the commands on a site, its databases, users and crontab, on a domain and its sub-domain, interleaved step by step; one failure or kill | `TypeOK`, `ServedIsCurrent`, `RecordsAreBacked`, `RefusesFirst` |
| `prov_hosts` | domain commands, mail commands and backups on three domains; of two commands the second runs inside the first (`Nested`); one failure or kill | `ServedIsCurrent`, `MapsAreCurrent`, `CronIsCurrent`, `RegisteredIsServed` |
| `panel_routes` | every method of every route, alone, by an administrator and a client, on own and foreign domains; one failure or kill | `EffectsAreGated`, `NothingLostAlone` |
| `panel_access` | two requests on the panel's own files, the second inside the first (`Nested`), of two administrators and a client, signing in and each answer to a license heartbeat among them; one failure or kill | `RefreshTokenOnce`, `StaysSignedIn`, `AnAdminRemains`, `EnvFollowsLicense`, `AlertSentOnce`, `JobsEnd`, `NoEffectAfterLogout`, `RevokedStaysRevoked` |
| `views` | every page, two items, its loads at the start, and three clicks, or two and one call refused or lost (`MaxEvents`, `MaxTrouble`) | `ShowsStored`, `SubmittedOnce` |
| `journal_append`, `newsletter_unsub`, `license_undo` | the least that shows the case | the findings below |

The bounds are the smallest with every case: two requests suffice for a lost update, a third
one for an arrival after a confirmation while another is still at work; two days with a
look-back of two for an entry in the older file, three for one out of reach. Two helpers
suffice for a lost update between processes; a batch of one with two addresses makes a campaign
of two batches. Two connections contend for one mutex, and three refresh tokens make a
session that is rotated, and a second one beside it; five requests pair a device and then
overlap a rotation with a revocation of the same token.

For the step modules: two commands (`MaxCommands`), since every property relates one writer to one
reader or to another writer; one failure or kill (`MaxTrouble`), at any step of either. The
second command must share a file with the first (guard of `Start`), for otherwise the
two commute. Domain `d2` is a sub-domain of `d1` and shares its unix user, pool and
crontab; `d3` does not exist yet. Item `a` is on file from the start, `b` is not, so that both
outcomes of every check occur. `prov_sites` explores every interleaving; in `prov_hosts` and
`panel_access` programs are up to a hundred steps long, and the action constraint `Nested` lets a
command that starts while another is at work end before the other goes on: every
point of the first command meets every whole effect of the second, which is what a stale copy
needs, but not two half-finished commands. `MaxTokens`, `MaxRequests`, `MaxKills`,
`MaxCrashes`, `MaxDiskFaults` and `MaxDay` only cap counters. No run checks deadlock: users may
stop clicking, and the clock and the counters have bounds.

**Fairness.** Journal: weak fairness of each request's own next step, which is the event loop
running a callback that is ready; arrivals, midnight, lapses, crashes and faults are never
forced. Newsletter: weak fairness of each helper's next step (the operating system runs a
process that can run) and of the cron batch (the script is started by a timer). Requests by
people and kills are not fair. AgentAuth: weak fairness of each handler's next step: Go runs
every goroutine that can run and hands an unlocked mutex on to a waiter. It holds for the
requests of a run that are bounded in number; it is not claimed that a stream of requests
without end leaves no waiter behind. The step modules state no fairness: their programs are
finite and nothing in them waits. Nor do the pages: an answer that never comes is a click
that shows nothing.

## Proofs

The theorems below are those of `PROJECT.json`; each holds for every value of the constants that
meets the named assumptions of its module.

### Journal and agent

`JournalProofs.tla` proves, for every set of entries and requests, every handler kind and every
bound, that `IInv` is inductive, and from it `TypeCorrect`, `RewritesExclude`,
`SecondPostsRejected`, `MarksNameTheirUndo` and `MarksAreKept` (an action property). The assumptions are
the named ones of `Journal`: kinds are kinds, bounds are naturals, look-back is positive, and
the ids of actions and requests are disjoint.

Why `IInv` is needed: that marks survive is not inductive, because the rename writes what was
read earlier. `SnapInv` says that the copy a rewriting request holds still contains every
marked line of the file; that holds since only a rewriting request marks lines, and `PostInv`
says it heads the chain of its file. That a second request is rejected needs more: a request
is answered 200 when its scan found nothing, too. `VisitedInv` says that the files it went
through do not hold the entry if it could read them all, `RequestInv` that the entry's file is no younger than the scan's
start, so at the end of the scan the entry is out of reach of every later look-up
(`SettledAt`), whichever day that is.

`AgentAuthProofs.tla` proves, for any pools of tokens, any connections and any bounds, that `AInv`
is inductive (`AlwaysAInv`), and from it `TypeCorrect`, `RevokeIsFinal`, `ActionsStartOnce`
and `StoreImplements`, that the store implements `OneTimeTokens`. The assumptions: the pools are
disjoint, `None` is no token, connection or command, the bounds are naturals.

`TokenInv` ties memory to disk: whoever writes holds the mutex (`LockInv`), has in memory what
the file held (`MemOK`), and has checked that its argument is there. With it every step maps to
a step of `OneTimeTokens` (`StepRefines`): the lemmas `RetiringStep`, `IssuingStep` and
`UsingStep` say how, from what becomes live and what ceases to be. That a token is accepted
once is then proved of the abstract steps (`OnceStep`) and used below: a code that is accepted
was not used before, so no session descends from it (`PairInv`), so of the tokens of a code
one is live at most (`ChainInv`). `RevokeEndsChain` needs just that: the token a revocation finds
on file is the live one of its session, or was revoked before. A confirmation that is accepted
has started nothing yet (`ActInv`).

Two more theorems about the store say what its faults do. `PoisonIsTorn`: the mutex is held by a
request that writes, or was left behind over a refresh file that does not parse (`HolderInv`), and
nobody mends that file, since mending it takes the mutex. `LockOutsExplained`: the one live token
of a pairing is in the client's hands until an answer or a write is lost or the agent restarts.

### Newsletter

`NewsletterProofs.tla` proves `NInv` for any people, campaigns, workers and bounds, of which People is
finite. `ConfirmedInv` gives `OnlyConfirmed`: every copy of a subscriber and every queue line, on
disk or in a helper, however old, belongs to a subscription that was confirmed if it says so. The
reason it survives stale copies is that both tokens of a record are made together and a confirmation
never leaves `confirmed`. `CleanInv` gives `DuplicatesAreExplained` and `FinishedAreAttempted`: as
long as helpers ran one at a time and none was killed, what the batch at work holds and has not tried is the
queue, without an address twice in a campaign; a campaign called sent or failed was tried on all
its addresses; one that is sending and has lines in the queue has a line for each address not
tried - without which the batch that takes a campaign's last line could call it finished; only
campaigns that are sending have lines; and one that has been counted as sent to anybody has that in
its `stats` as long as it is sending, so it ends "sent", which cannot be queued again, and the
draft or failed campaign that is queued has been counted as sent to nobody (`CountOK`).

### Programs of steps

`StepRunProofs.tla` is about every table of programs that reads first. `SInv` says, of every point
between a step that reads a file and the step that writes it back, that the copy held is the
file (`CopyInv`), unless two processes use the file at once, one of them writing (`CrossedInv`), or
something failed before. `NothingIsLostAlone` follows: what a step takes out of a file without
saying so is lost to an overlap or a failure only. That a file read as empty was not half written
needs `TornInv`: a file is truncated while its writer has it open, and after that only if
something went wrong.

`PanelProofs.tla` takes five facts about the tables, each an assumption TLC evaluates on
both panel runs: nothing is written where a refusal looks (`NothingAssumption`); every signed
request asks for the logout of its user before it does anything (`LogoutAssumption`); every write
of a client's request is of the client's own files or stands behind a refusal that does not depend
on the files (`GateAssumption`); the accounts are parsed and written back, and an administrator is taken
out only behind a check that another is left (`AdminsAssumption`); a key is put on file by the request that
creates it (`KeysAssumption`). `PInv` carries an answer from the step that asks to the step that acts on it: a
process past a refusal still holds copies that pass it (`GuardInv`); an administrator is in the
file and in every copy of it (`AdminInv`); a request started after a logout is held up before its
first write (`LogoutInv`). From them `ClientsStayInside`, `LoggedOutChangesNothing`,
`OneAdminRemains` and `KeysStayRevoked`, for any number of processes, sessions, domains, requests,
failures and kills. `OneAdminRemains` includes crossing deletions: each writes back its own
copy, in which an administrator is left.

`PanelStoreProofs.tla` is about the panel's stores when no request is at work: while one is not in
order, a process is on its way through the steps that put it in order. The steps that belong
together are named in `Panel`, and each assumption says of every step of every request that writes
the store that it is one of them: who writes that a job has started comes to the step that writes
that it has ended, whatever fails in the job's work (`JobsAssumption`); an alert is sent where the
copy of what was sent lacks it, and saved by the next step (`AlertsAssumption`); a token that goes
is replaced, or its user is written down as signed out (`TokensAssumption`); a license put on file
or taken off is followed by the two steps that edit the environment, and a refresh writes the
features of the license it has just written (`LicenseAssumption`). The invariants of `PanelInv` name
the process: `Finishing` (`JobInv`), `Making` (`SignedInInv`), `Taking` and `Issuing` (`TokenInv`),
`Aligning` and `Knowing` (`LicenseInv`), `Reporting` (`AlertInv`). All but the last hold with
failures and kills at any step of any process and with overlaps; what they except is a file in
`excused`. So what is to be shown of a process that stops on its way is that `excused` then names a
file of the comparison, and of one whose error is caught, that its way still leads to the write that
sets things right or that this file is excused (`Abandons`). A second process at the same file comes
with an out-of-date copy, or is not at a step that needs it current. No way leads into such a row
but through its first step (`OnlyThrough`, `Forward`).

`TokenInv` is what makes an exchange happen once however many devices present the same token:
whoever is about to take it holds it in its copy (`Taking`), so taking it from a file without it is
writing back an old copy; and while one process has taken the token and not yet written the next
(`Issuing`), no other has. `RefreshTokenOnce` is about `Exchanged`, the users nobody signs in as,
for whoever signs in has two tokens, on two devices; `ExchangeAssumption` says that in
`panel_access` these are all users but one. `LicenseInv` needs `Knowing`: who refreshes the features
holds the license that is on file, so what it asks of its copy is true of the file; for this the
license must not be crossed. Hence `JobsComeToAnEnd`, `UsersStaySignedIn`, `TokensAreExchangedOnce`
and `EnvironmentFollows`, without hypotheses, for every table of that shape and any number of
requests, processes, failures and kills. `AlertsAreSentOnce` is weaker: nothing fails, no two
evaluations overlap, and both files of the alerts are in the instance.

`ProvisioningProofs.tla` is about what is computed from other files: vhosts, pools, the crontab
of the panel, the map of mail domains, and what nginx has loaded (`Followers`). `FollowAssumption` says of a
program that each of its writes to a follower or one of its sources makes the follower from what
was read in the step before, leaves the entries shown as they were, is listed in `Leaves`, or is in
`Cover`: from there on every way through the program makes the follower, or skips a write of it that
`excused` will name. TLC evaluates it on the programs of both runs, and `DispatcherAssumption` on every
command of the dispatcher, those no run starts included. `FInv` is: a follower is what its sources
say, or is excused, or a process is bound to make it (`FollowInv`); what a process has computed
and not yet written is what the files say, unless one of them was written since (`PreparedInv`); of
two processes with one file open neither holds what the other writes (`CrossedOldInv`). It was checked by TLC
on both provisioning runs before it was proved. `ServedFollows` and `CronFollows` are
`FollowInv` when no process is at work. `DispatcherAssumption` excepts the clone of a domain onto
itself or onto its parent, whose names are taken.

### Pages

`ViewProofs.tla` proves `VInv` for any clicks, items and faults: a call under way keeps its flag set if
the flag excludes (`Exclusive`: every button that sets it waits for it). So `ExclusiveOnce`: such a handler submits
nothing again while it submits it, however often people click. 86 of the 138 handlers that
submit something have such a flag; the others are listed in `MayRepeat`, and `ButtonsAssumption` says that there
is no third kind. `SubmitsOnce` is `SubmittedOnce` for any number of clicks.

### What stays with TLC

- Liveness: `EveryPostAnswered`, `QueueDrains`, `AnsweredUnlessPoisoned`. TLAPS has no rules for
  fairness or ENABLED in the installed backends.
- `MapsAreCurrent`: its part on the map of mail domains is in `FollowInv`. The alias and mailbox maps
  are edited in two programs and stripped of one another's entries, which `Makes` does not describe.
- `RegisteredIsServed`, `RecordsAreBacked`: two files written by one
  command; what holds depends on the order of the writes of each command and on what each of them
  adds, command by command.
- `RefusesFirst`: whether a refusal comes first depends on the data read at both places.
- `ShowsStored`: about the order in which answers arrive, page by page.

## Findings

- `NoAppendLost`: an entry appended while `markEntryUndone` rewrites the file is lost
  (`store.ts:191` reads, `store.ts:218` renames; appends take no lock), against "Append-only"
  (`store.ts:2`) and the comment at `store.ts:146-147`.
- `UnsubscribedNotMailed`: mail queued before an unsubscribe is sent after it, against the
  text of the unsubscribe page.
- `UndoKeepsNewer`: the undo of an activation compares the stored key (`undo.ts:225`), then removes
  whatever license is on file by the time it writes, against the comment at `undo.ts:206-208`.

### Divergences without a run of their own

Journal and newsletter: two undo requests at once both run the handler (`route.ts:69` against
`undo.ts:14`); a read that fails while the mark is set (`store.ts:192`) is answered 200 with
`originalEntry` null (`route.ts:87-97`), and a later undo of the unmarked entry runs the handler
again (`SecondPostRejected` excepts it); the lock map is never cleaned up (`store.ts:160-161`: the map holds another
promise than the one compared); queueing a second campaign drops the lines of the first, which
stays "sending" and can be neither queued nor deleted again (`provision-newsletter.mjs:432`); a
campaign all of whose messages were counted failed, though some had arrived before sendmail was given
up, ends "failed", and queueing it again mails everyone (`:396-397`): `DuplicatesExplained` excepts
both this and what overlaps and kills do.

Agent: a pairing code is on disk (`store.go:61`) against "Agent memory only"
(`docs/agent/SECURITY.md:14`). After a write to `refresh-tokens.json` that failed half way the next
pairing panics and leaves the mutex locked (`PoisonMeansTorn`, `AnsweredUnlessPoisoned`); a
lost answer to a rotation locks the device out (`LockedOutExplained`).

What a command's own code leaves out of date (`Leaves`):

- a restore puts the JSON files back and rebuilds neither the alias map nor nginx nor cron
  (`backup-extras.mjs:49`); a clone copies the configuration after nginx was reloaded;
- a deletion leaves mail maps, the backup line and the zone, and removes the pool and unix user a
  sub-domain shares with its parent; `scripts/qadbak-remove-domain.sh:2` says "keeps unix
  user", the helper calls `userdel -r` (`provision-domain.mjs:293-302`);
- disabling a domain only unlinks its vhost, and any later apply links it again; enabling and
  disabling do not rebuild the mail maps, which list enabled domains;
- a deleted mailbox stays in the mailbox map until the next synchronisation, and an address an
  alias forwards to is given a mailbox (`mail-layout.mjs:144-153`), although
  `mail-sync.mjs:136` says the maps must not overlap;
- the rollback of a failed first installation empties `public_html`; pruning after a backup
  removes other domains' archives of the same user; `ftp-delete` deletes any unix user of that
  name; `modsecurity-toggle` writes before it resolves the domain; the entries of a crontab and
  of `authorized_keys` are deleted by an index the caller read earlier;
- the scheduled backup of the crontab covers `public_html` only (`provision-backup.mjs:157`),
  against the header of `scripts/run-domain-backup.sh:2`;
- the contact form's log is written to `.json` and read from `.jsonl`
  (`provision-panel-phase2.mjs:230-235`);
- with the remote adapter a failed second call leaves the first one's limits
  (`hosting-remote.ts:1618-1619`), mail security is read as a constant (`:1521`), and listing
  the folders of a mailbox makes the standard ones;
- a registry that is read while half written counts as empty in the helpers, and a domain is then
  registered alone; the panel's own reader throws instead.

Panel: a session that was logged out is admitted while the revocation file is half written
(`session-revocation.ts:23`, `:72`); the tools route lets clients run
`billing-invoice-create`, `redis-set` and `ci-pipeline-run`; creating a domain that fails answers
502 and leaves its journal entry unfinished; a job whose process died stays "running"
(`update-status-helper.mjs:190`; its file is in `excused`, and `JobsEnd` excepts it); a rotation that
dies or fails between its two writes loses the session (`mobile-auth.ts:124`; `StaysSignedIn`
excepts it); a heartbeat saves the license it read before its call over one activated or removed
meanwhile (`qadbak-license.ts:486`), and a failure between license and environment leaves them apart
(`EnvFollowsLicense` excepts both); two requests that write `session-revocations.json` or
`api-keys.json` at the same time lose a revocation (`NoEffectAfterLogout`, `RevokedStaysRevoked`);
overlapping evaluations push an alert twice (`AlertSentOnce`);
`audit-retention.ts:54` and the list of servers are loaded, checked and saved without a lock.

Pages. `ShowsStored` and `SubmittedOnce` hold but for what `ViewRun` lists; each entry is a
schedule the run produces when the entry is taken out:

- an answer arrives after a newer one (`MayBeOvertaken`). Loads at the start that disable
  nothing: `AccountTotpSetup.tsx:23`, `AdminApiKeysView.tsx:27`, `AdminCloudCredentials.tsx:35`,
  `AdminDashboardPanel.tsx:45`, `AdminFirewallView.tsx:30`, `DomainPanelClientCard.tsx:39`,
  `SecurityManager.tsx:90`, `BackupsManager.tsx:109`, `DockerManager.tsx:76`. Loads that other
  handlers do not wait for: `NewsletterManager.tsx:125` and `:129` (both run when the page
  appears, and the first to end enables the forms), `PanelToolsManager.tsx:124` (each call of a
  section resets the flag), `AdminStackView.tsx:76`, `AdminNodesView.tsx:154`,
  `AdminLicensePanel.tsx:256`, `WebsiteHealthCard.tsx:159`, `AdminUpdatesView.tsx:138` (the
  poll), `AdminPrivacyCenter.tsx:95`. Buttons that wait for their own row
  only: `AdminServerView.tsx:76`, `DomainsList.tsx:145`, `DockerManager.tsx:262`. Buttons and
  fields that wait for nothing: `AdminAuditLog.tsx:46`, `BackupsManager.tsx:656`,
  `FileManager.tsx:107`, `LifecycleManager.tsx:115`, `MediaLibraryManager.tsx:198`,
  `ProtectedManager.tsx:243`, `ScriptsManager.tsx:178`, `BrandingEditor.tsx:85`; in
  `JournalBrowser.tsx:99` the entry selected first may be shown as the one selected last, and
  an undo (`:249`) crosses a filter. Forms that are enabled too early, as the third item says, cross one
  another (`BackupsManager`, `FtpManager`, `ProtectedManager`);
- a change is not loaded again (`NotRenewed`): the score after a DMARC record
  (`PanelToolsManager.tsx:135`), the settings and log of Git deployments (`:478`, `:491`, `:501`);
- a handler is started while it submits (`MayRepeat`). Buttons that wait for nothing:
  `AdminApiKeysView.tsx:141`, `AdminPrivacyCenter.tsx:95`, `AppShell.tsx:70`, `BrandingEditor.tsx:85`,
  `FileManager.tsx:659` (the keyboard's save), `FtpManager.tsx:167`, `ProtectedManager.tsx:243`,
  `ScriptsManager.tsx:178`, and the button that goes on sending (`NewsletterManager.tsx:306`); buttons that wait for
  the job, which is known with the answer only (`AdminUpdatesView.tsx:242`, `:249`). Any of the
  first kind, started while a form of its page submits, resets that form's flag when it ends, and the form is enabled
  (`BrandingEditor`, `FileManager`, `FtpManager`, `ProtectedManager`, `ScriptsManager`; in `BackupsManager` the
  entries of an archive, `:656`; in `NewsletterManager` also the loads at the start). Where one field holds the
  name of the row at work, another row overwrites it (`AdminServerView`, `DockerManager`, `DomainsList`,
  `FeaturesManager`). In `JournalBrowser` the detail of an entry is replaced at each selection (`:105`, `:239`), and
  its flag with it (`:274`): selecting another entry and the first again enables its undo.

Three clicks are the bound of the run. At three it meets every entry of the tables but the undo of `JournalBrowser`,
which needs a fourth.
`SubmittedOnce` is proved without the bound; `ShowsStored` is checked up to it.

## Not modelled

Inside the modelled parts: `listEntries` (read-only) and `pruneOldEntries` (no caller); double
opt-in switched off; the rendering of mails; what a called program (certbot, tar, mysql, wp, apt)
does inside; parsing of listings, logs and the other panel's answers; how a health report judges a number;
paths inside a site; the mock modes of `domain-files.ts` and `hosting-remote.ts`, which
answer from memory where there is no server; the seeding of a demo panel (`scripts/seed-demo-panel.mjs`);
the mail clients of the browser, its static pages and what a page looks like.
`scripts/qadbak-license-cli.mjs` is left out, too: it removes `license.json` and leaves the environment file as
it is, so `EnvFollowsLicense` is about the panel's own requests.
Everything else, with the reason: the components of `PROJECT.json`.
