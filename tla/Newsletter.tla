----------------------------- MODULE Newsletter -----------------------------
(***************************************************************************)
(* The newsletter of one domain (src/scripts/lib/provision-newsletter.mjs).*)
(*                                                                         *)
(* Every operation is one short-lived helper process: it reads whole JSON  *)
(* files, changes them in memory and writes whole files back.  Nothing     *)
(* locks them.  The panel starts helpers for its requests and for public   *)
(* links, the cron script (src/scripts/process-newsletter-queue.sh) starts *)
(* one send batch after the other.  writeFile empties the file before it   *)
(* fills it: a reader in between, or after a kill in between, finds a JSON *)
(* file that does not parse and takes it for an empty one, and of the      *)
(* queue, which is parsed line by line, the lines written so far.          *)
(***************************************************************************)
EXTENDS Integers, Sequences, FiniteSets

CONSTANTS
  Workers,    \* helper processes that may run at once
  Cron,       \* the one of them that process-newsletter-queue.sh starts
  Campaigns,  \* campaign ids
  People,     \* e-mail addresses
  BatchSize,  \* lines one send batch takes off the queue
  Members,    \* addresses that have confirmed when the model starts
  Drafts,     \* campaigns written by then
  MaxTokens,  \* bound on the subscriptions an address goes through
  MaxRequests, \* bound on helpers the panel starts
  MaxKills,   \* bound on helpers that die at work
  None

ASSUME CronAssumption == Cron \in Workers
ASSUME PeopleAssumption == IsFiniteSet(People)
ASSUME BatchAssumption == BatchSize \in Nat \ {0}
ASSUME StartAssumption == Members \subseteq People /\ Drafts \subseteq Campaigns
ASSUME BoundsAssumption ==
  MaxTokens \in Nat \ {0} /\ MaxRequests \in Nat /\ MaxKills \in Nat
ASSUME NoneAssumption == None \notin People \cup Campaigns

VARIABLES
  subs,       \* newsletter-subscribers.json
  campaigns,  \* newsletter-campaigns.json
  queue,      \* newsletter-queue.jsonl
  proc,       \* helper -> what it holds in memory
  issued,     \* address -> tokens made for it so far
  inbox,      \* links that reached their address
  confirmed,  \* subscriptions confirmed by a valid click (history)
  told,       \* subscriptions whose address was told it is off the list (history)
  lines,      \* campaign -> addresses last queued for it (history)
  attempted,  \* campaign -> addresses a batch tried to mail since (history)
  mailed,     \* campaign -> addresses a batch mailed since, and those it had
              \*   reached before (history)
  reached,    \* campaign -> addresses it was mailed to and counted as sent to,
              \*   since it was created (history)
  twice,      \* campaigns that reached an address twice (history)
  clean,      \* no two helpers overlapped and none was killed (history)
  requests,   \* helpers the panel has started
  kills

files   == <<subs, campaigns, queue>>
history == <<confirmed, told, lines, attempted, mailed, reached,
             twice>>
vars    == <<files, proc, issued, inbox, history, clean, requests, kills>>

Tokens == 0..MaxTokens   \* 0 stands for an undefined token

\* token is the unsubscribe token; confirm the confirmToken of a pending one.
Subscriber == [status : {"absent", "pending", "active", "unsubscribed"},
               token : Tokens, confirm : Tokens]

\* ok, bad: stats.sent > 0, stats.failed > 0.
Campaign == [status : {"absent", "draft", "sending", "sent", "failed"},
             ok : BOOLEAN, bad : BOOLEAN]

QueueLine == [c : Campaigns, s : People, token : Tokens]

Link == [kind : {"confirm", "newsletter"}, s : People, token : Tokens]

NoSub      == [status |-> "absent", token |-> 0, confirm |-> 0]
NoCampaign == [status |-> "absent", ok |-> FALSE, bad |-> FALSE]
Member == [status |-> "active", token |-> 1, confirm |-> 0]
Draft  == [status |-> "draft", ok |-> FALSE, bad |-> FALSE]
NoSubs      == [s \in People |-> NoSub]
NoCampaigns == [c \in Campaigns |-> NoCampaign]

Idle == [pc |-> "idle", cmd |-> "none", who |-> None, subs |-> NoSubs,
         camps |-> NoCampaigns, out |-> <<>>, batch |-> <<>>, log |-> <<>>]

PC == {"idle", "invite", "openS", "fillS", "welcome", "readS", "readC", "send",
       "openQ", "fillQ", "openC", "fillC"}

Process == [pc : PC, cmd : {"none", "subs", "unsubscribe", "camps", "queue", "batch"},
            who : People \cup Campaigns \cup {None},
            subs : [People -> Subscriber], camps : [Campaigns -> Campaign],
            out : Seq(QueueLine), batch : Seq(QueueLine), log : Seq(BOOLEAN)]

TypeOK ==
  /\ subs \in [People -> Subscriber]
  /\ campaigns \in [Campaigns -> Campaign]
  /\ queue \in Seq(QueueLine)
  /\ proc \in [Workers -> Process]
  /\ issued \in [People -> Tokens]
  /\ inbox \subseteq Link
  /\ confirmed \subseteq People \X Tokens
  /\ told \subseteq People \X Tokens
  /\ lines \in [Campaigns -> SUBSET People]
  /\ attempted \in [Campaigns -> SUBSET People]
  /\ mailed \in [Campaigns -> SUBSET People]
  /\ reached \in [Campaigns -> SUBSET People]
  /\ twice \subseteq Campaigns
  /\ clean \in BOOLEAN
  /\ requests \in 0..MaxRequests
  /\ kills \in 0..MaxKills

Init ==
  /\ subs = [s \in People |-> IF s \in Members THEN Member ELSE NoSub]
  /\ campaigns = [c \in Campaigns |-> IF c \in Drafts THEN Draft ELSE NoCampaign]
  /\ queue = <<>>
  /\ proc = [w \in Workers |-> Idle]
  /\ issued = [s \in People |-> IF s \in Members THEN 1 ELSE 0]
  /\ inbox = {[kind |-> "confirm", s |-> s, token |-> 1] : s \in Members}
  /\ confirmed = {<<s, 1>> : s \in Members}
  /\ told = {}
  /\ lines = [c \in Campaigns |-> {}]
  /\ attempted = [c \in Campaigns |-> {}]
  /\ mailed = [c \in Campaigns |-> {}]
  /\ reached = [c \in Campaigns |-> {}]
  /\ twice = {}
  /\ clean = TRUE
  /\ requests = 0
  /\ kills = 0

\* A helper starts; it may find others at work.
Start(w) ==
  /\ proc[w].pc = "idle"
  /\ clean' = (clean /\ \A v \in Workers : proc[v].pc = "idle")

Becomes(w, r) == proc' = [proc EXCEPT ![w] = r]

-----------------------------------------------------------------------------
(* Commands on subscribers: read the list, change it, write it back *)

WillWrite(list) == [Idle EXCEPT !.pc = "openS", !.cmd = "subs", !.subs = list]

ReadSubs(w, list) ==
  /\ Start(w)
  /\ Becomes(w, WillWrite(list))
  /\ UNCHANGED <<files, inbox, history, kills>>

Pending(s) == [status |-> "pending", token |-> issued[s] + 1,
               confirm |-> issued[s] + 1]

\* newsletterSubscriberUpsert, a new address: the confirmation mail follows the
\* write (who is the address it goes to).
Subscribe(w, s) ==
  /\ subs[s].status = "absent"
  /\ issued[s] < MaxTokens
  /\ issued' = [issued EXCEPT ![s] = @ + 1]
  /\ Start(w)
  /\ Becomes(w, [WillWrite([subs EXCEPT ![s] = Pending(s)]) EXCEPT !.who = s])
  /\ UNCHANGED <<files, inbox, history, kills>>

\* ... an address on the list, with resubscribe: new tokens, and the
\* confirmation mail precedes the write.
Resubscribe(w, s) ==
  /\ subs[s].status # "absent"
  /\ issued[s] < MaxTokens
  /\ issued' = [issued EXCEPT ![s] = @ + 1]
  /\ Start(w)
  /\ Becomes(w, [WillWrite([subs EXCEPT ![s] = Pending(s)])
                   EXCEPT !.pc = "invite", !.who = s])
  /\ UNCHANGED <<files, inbox, history, kills>>

\* ... an address on the list, without: at most its name changes.
Rename(w, s) ==
  /\ subs[s].status \in {"pending", "active"}
  /\ ReadSubs(w, subs)
  /\ UNCHANGED issued

\* newsletterSubscribersImport: no confirmation mail.
Import(w, S) ==
  /\ \A s \in S : subs[s].status = "absent" /\ issued[s] < MaxTokens
  /\ issued' = [s \in People |-> IF s \in S THEN issued[s] + 1 ELSE issued[s]]
  /\ ReadSubs(w, [s \in People |-> IF s \in S THEN Pending(s) ELSE subs[s]])

newsletterSubscriberDelete(w, s) ==
  /\ subs[s].status # "absent"
  /\ ReadSubs(w, [subs EXCEPT ![s] = NoSub])
  /\ UNCHANGED issued

HasLink(kind, s, token) ==
  token # 0 /\ [kind |-> kind, s |-> s, token |-> token] \in inbox

newsletterPublicConfirm(w, s) ==
  /\ HasLink("confirm", s, subs[s].confirm)
  /\ confirmed' = confirmed \cup {<<s, subs[s].confirm>>}
  /\ Start(w)
  /\ Becomes(w, WillWrite([subs EXCEPT ![s] = [@ EXCEPT !.status = "active",
                                                        !.confirm = 0]]))
  /\ UNCHANGED <<files, issued, inbox, told, lines, attempted, mailed, reached,
                 twice, kills>>

newsletterPublicUnsubscribe(w, s) ==
  /\ HasLink("newsletter", s, subs[s].token)
  /\ Start(w)
  /\ Becomes(w, [WillWrite([subs EXCEPT ![s].status = "unsubscribed"])
                   EXCEPT !.cmd = "unsubscribe", !.who = s])
  /\ UNCHANGED <<files, issued, inbox, history, kills>>

bounceSuppressAdd(w, s) ==
  /\ ReadSubs(w, IF subs[s].status = "active"
                   THEN [subs EXCEPT ![s].status = "unsubscribed"] ELSE subs)
  /\ UNCHANGED issued

\* sendConfirmEmail; when it throws before the write, nothing is written.
sendConfirmEmail(w) ==
  LET r == proc[w]
  IN  /\ r.pc \in {"invite", "welcome"}
      /\ \/ /\ inbox' = inbox \cup
                 {[kind |-> "confirm", s |-> r.who, token |-> r.subs[r.who].confirm]}
            /\ Becomes(w, IF r.pc = "invite"
                            THEN [r EXCEPT !.pc = "openS", !.who = None] ELSE Idle)
         \/ /\ Becomes(w, Idle)
            /\ UNCHANGED inbox
      /\ UNCHANGED <<files, issued, history, clean, requests, kills>>

openSubscribers(w) ==
  /\ proc[w].pc = "openS"
  /\ subs' = NoSubs
  /\ Becomes(w, [proc[w] EXCEPT !.pc = "fillS"])
  /\ UNCHANGED <<campaigns, queue, issued, inbox, history, clean, requests, kills>>

\* The unsubscribe page is shown when its helper is done.
writeSubscribers(w) ==
  LET r == proc[w]
  IN  /\ r.pc = "fillS"
      /\ subs' = r.subs
      /\ told' = IF r.cmd = "unsubscribe"
                   THEN told \cup {<<r.who, r.subs[r.who].token>>} ELSE told
      /\ Becomes(w, IF r.cmd = "subs" /\ r.who # None
                      THEN [r EXCEPT !.pc = "welcome"] ELSE Idle)
      /\ UNCHANGED <<campaigns, queue, issued, inbox, confirmed, lines, attempted,
                     mailed, reached, twice, clean, requests, kills>>

-----------------------------------------------------------------------------
(* Commands on campaigns *)

ReadCampaigns(w, list) ==
  /\ Start(w)
  /\ Becomes(w, [Idle EXCEPT !.pc = "openC", !.cmd = "camps", !.camps = list])
  /\ UNCHANGED <<files, issued, inbox, confirmed, told, lines, attempted, mailed,
                 twice, kills>>

\* A new campaign is a draft; an edit keeps the status and the stats it read.
newsletterCampaignUpsert(w, c) ==
  LET new == campaigns[c].status = "absent"
  IN  /\ ReadCampaigns(w, IF new THEN [campaigns EXCEPT ![c] = Draft] ELSE campaigns)
      /\ reached' = IF new THEN [reached EXCEPT ![c] = {}] ELSE reached

newsletterCampaignDelete(w, c) ==
  /\ campaigns[c].status \notin {"absent", "sending"}
  /\ ReadCampaigns(w, [campaigns EXCEPT ![c] = NoCampaign])
  /\ UNCHANGED reached

\* newsletterCampaignQueue reads the campaigns, then the subscribers.
QueueStart(w, c) ==
  /\ campaigns[c].status \in {"draft", "failed"}
  /\ Start(w)
  /\ Becomes(w, [Idle EXCEPT !.pc = "readS", !.cmd = "queue", !.who = c,
                             !.camps = campaigns])
  /\ UNCHANGED <<files, issued, inbox, history, kills>>

\* Mutant: pending addresses are mailed too.
Active_NotLeft(list) ==
  {s \in People : list[s].status \in {"active", "pending"}}

Active(list) == {s \in People : list[s].status = "active"}

\* The file keeps its subscribers in some order.
InOrder(S) ==
  CHOOSE q \in [1..Cardinality(S) -> S] : \A s \in S : \E i \in 1..Cardinality(S) : q[i] = s

LinesFor(c, list) ==
  LET order == InOrder(Active(list))
  IN  [i \in 1..Cardinality(Active(list)) |->
         [c |-> c, s |-> order[i], token |-> list[order[i]].token]]

newsletterCampaignQueue(w) ==
  LET r == proc[w]
  IN  /\ r.pc = "readS"
      /\ Becomes(w, IF Active(subs) = {} THEN Idle
                    ELSE [r EXCEPT !.pc = "openQ", !.out = LinesFor(r.who, subs),
                                   !.camps[r.who] = [status |-> "sending",
                                                     ok |-> FALSE, bad |-> FALSE]])
      /\ UNCHANGED <<files, issued, inbox, history, clean, requests, kills>>

-----------------------------------------------------------------------------
(* newsletterSendBatch *)

least(a, b) == IF a < b THEN a ELSE b

\* Mutant: the last line of the batch stays in the queue.
BatchStart_KeepsLast(w) ==
  LET n == least(BatchSize, Len(queue))
  IN  /\ queue # <<>>
      /\ Start(w)
      /\ Becomes(w, [Idle EXCEPT !.pc = "readC", !.cmd = "batch",
                                 !.batch = SubSeq(queue, 1, n),
                                 !.out = SubSeq(queue, n, Len(queue))])
      /\ UNCHANGED <<files, issued, inbox, history, kills>>

\* Mutant: the line after the batch is lost.
BatchStart_DropsNext(w) ==
  LET n == least(BatchSize, Len(queue))
  IN  /\ queue # <<>>
      /\ Start(w)
      /\ Becomes(w, [Idle EXCEPT !.pc = "readC", !.cmd = "batch",
                                 !.batch = SubSeq(queue, 1, n),
                                 !.out = SubSeq(queue, n + 2, Len(queue))])
      /\ UNCHANGED <<files, issued, inbox, history, kills>>

\* An empty queue ends the batch at once.
BatchStart(w) ==
  LET n == least(BatchSize, Len(queue))
  IN  /\ queue # <<>>
      /\ Start(w)
      /\ Becomes(w, [Idle EXCEPT !.pc = "readC", !.cmd = "batch",
                                 !.batch = SubSeq(queue, 1, n),
                                 !.out = SubSeq(queue, n + 1, Len(queue))])
      /\ UNCHANGED <<files, issued, inbox, history, kills>>

BatchCampaigns(w) ==
  /\ proc[w].pc = "readC"
  /\ Becomes(w, [proc[w] EXCEPT !.pc = "send", !.camps = campaigns])
  /\ UNCHANGED <<files, issued, inbox, history, clean, requests, kills>>

\* sendNewsletterMessage: a sendmail that is given up after its timeout counts as
\* failed though the message may be on its way.
sendNewsletterMessage(w) ==
  LET r == proc[w]
      x == r.batch[Len(r.log) + 1]
  IN  /\ r.pc = "send"
      /\ \E delivered, ok \in BOOLEAN :
           /\ ok => delivered
           /\ Becomes(w, [r EXCEPT !.log = Append(@, ok),
                                   !.pc = IF Len(r.log) + 1 = Len(r.batch)
                                            THEN "openQ" ELSE "send"])
           /\ attempted' = [attempted EXCEPT ![x.c] = @ \cup {x.s}]
           /\ reached' = IF ok THEN [reached EXCEPT ![x.c] = @ \cup {x.s}] ELSE reached
           /\ \/ /\ delivered
                 /\ inbox' = inbox \cup
                      {[kind |-> "newsletter", s |-> x.s, token |-> x.token]}
                 /\ mailed' = [mailed EXCEPT ![x.c] = @ \cup {x.s}]
                 /\ twice' = IF x.s \in mailed[x.c] THEN twice \cup {x.c} ELSE twice
              \/ ~delivered /\ UNCHANGED <<inbox, mailed, twice>>
      /\ UNCHANGED <<files, issued, confirmed, told, lines, clean, requests, kills>>

\* Mutant: the finished status is not one of the statuses.
Settled_Done(r) ==
  [c \in Campaigns |->
     IF \A i \in 1..Len(r.batch) : r.batch[i].c # c THEN r.camps[c]
     ELSE [r.camps[c] EXCEPT !.status = "done"]]

\* What the batch makes of the campaigns it read before it sent.
Settled(r) ==
  LET logOf(c) == {i \in 1..Len(r.batch) :
                     \E j \in 1..Len(r.batch) :
                       r.batch[j].c = c /\ r.batch[j].s = r.batch[i].s}
      ok(c)    == r.camps[c].ok \/ \E i \in logOf(c) : r.log[i]
      bad(c)   == r.camps[c].bad \/ \E i \in logOf(c) : ~r.log[i]
      left(c)  == \E i \in 1..Len(r.out) : r.out[i].c = c
  IN  [c \in Campaigns |->
         IF (\A i \in 1..Len(r.batch) : r.batch[i].c # c)
              \/ r.camps[c].status = "absent"
           THEN r.camps[c]
           ELSE [status |-> IF ~left(c) /\ r.camps[c].status = "sending"
                              THEN IF bad(c) /\ ~ok(c) THEN "failed" ELSE "sent"
                              ELSE r.camps[c].status,
                 ok |-> ok(c), bad |-> bad(c)]]

-----------------------------------------------------------------------------
(* Writing the queue and the campaigns *)

\* writeQueueLines replaces whatever the queue holds: the file is emptied, and
\* a part of the lines may be in it before all are.
openQueue(w) ==
  LET r == proc[w]
  IN  /\ r.pc = "openQ"
      /\ \E n \in 0..Len(r.out) : queue' = SubSeq(r.out, 1, n)
      /\ Becomes(w, [r EXCEPT !.pc = "fillQ"])
      /\ IF r.cmd = "queue"
           THEN /\ lines' = [lines EXCEPT ![r.who] = {r.out[i].s : i \in 1..Len(r.out)}]
                /\ attempted' = [attempted EXCEPT ![r.who] = {}]
                /\ mailed' = [mailed EXCEPT ![r.who] = reached[r.who]]
           ELSE UNCHANGED <<lines, attempted, mailed>>
      /\ UNCHANGED <<subs, campaigns, issued, inbox, confirmed, told, reached, twice,
                     clean, requests, kills>>

\* The queue is written; a batch then works out what it makes of its campaigns.
QueueWritten(w) ==
  LET r == proc[w]
  IN  Becomes(w, [r EXCEPT !.pc = "openC",
                           !.camps = IF r.cmd = "batch" THEN Settled(r) ELSE @])

\* Mutant: lines that could not be sent go back to the end of the queue.
writeQueueLines_KeepsFailed(w) ==
  LET r == proc[w]
      failed == IF r.cmd = "batch" /\ ~r.log[Len(r.log)]
                  THEN <<r.batch[Len(r.log)]>> ELSE <<>>
  IN  /\ r.pc = "fillQ"
      /\ queue' = r.out \o failed
      /\ QueueWritten(w)
      /\ UNCHANGED <<subs, campaigns, issued, inbox, history, clean, requests, kills>>

writeQueueLines(w) ==
  /\ proc[w].pc = "fillQ"
  /\ queue' = proc[w].out
  /\ QueueWritten(w)
  /\ UNCHANGED <<subs, campaigns, issued, inbox, history, clean, requests, kills>>

openCampaigns(w) ==
  /\ proc[w].pc = "openC"
  /\ campaigns' = NoCampaigns
  /\ Becomes(w, [proc[w] EXCEPT !.pc = "fillC"])
  /\ UNCHANGED <<subs, queue, issued, inbox, history, clean, requests, kills>>

writeCampaigns(w) ==
  /\ proc[w].pc = "fillC"
  /\ campaigns' = proc[w].camps
  /\ Becomes(w, Idle)
  /\ UNCHANGED <<subs, queue, issued, inbox, history, clean, requests, kills>>

-----------------------------------------------------------------------------

\* runProvisioningHelper's timeout, or a restart of the server.
Kill(w) ==
  /\ proc[w].pc # "idle"
  /\ kills < MaxKills
  /\ kills' = kills + 1
  /\ clean' = FALSE
  /\ Becomes(w, Idle)
  /\ UNCHANGED <<files, issued, inbox, history, requests>>

\* A request to the panel, or a click on a public link, starts a helper.
Request(w) ==
  /\ requests < MaxRequests
  /\ requests' = requests + 1
  /\ \/ \E s \in People :
          \/ Subscribe(w, s) \/ Resubscribe(w, s) \/ Rename(w, s)
          \/ newsletterSubscriberDelete(w, s) \/ newsletterPublicConfirm(w, s)
          \/ newsletterPublicUnsubscribe(w, s) \/ bounceSuppressAdd(w, s)
     \/ \E S \in SUBSET People \ {{}} : Import(w, S)
     \/ \E c \in Campaigns :
          \/ newsletterCampaignUpsert(w, c) \/ newsletterCampaignDelete(w, c)
          \/ QueueStart(w, c)
     \/ BatchStart(w)

\* A helper that runs goes on.
Continue(w) ==
  \/ sendConfirmEmail(w) \/ openSubscribers(w) \/ writeSubscribers(w)
  \/ newsletterCampaignQueue(w) \/ BatchCampaigns(w) \/ sendNewsletterMessage(w)
  \/ openQueue(w) \/ writeQueueLines(w) \/ openCampaigns(w) \/ writeCampaigns(w)

Next ==
  \/ \E w \in Workers \ {Cron} : Request(w)
  \/ BatchStart(Cron) /\ UNCHANGED requests
  \/ \E w \in Workers : Continue(w) \/ Kill(w)

\* Helpers run on; cron keeps starting batches.  Nobody has to click.
Fairness ==
  /\ \A w \in Workers : WF_vars(Continue(w))
  /\ WF_vars(BatchStart(Cron) /\ UNCHANGED requests)

Spec == Init /\ [][Next]_vars /\ Fairness

-----------------------------------------------------------------------------
(* Properties *)

\* Double opt-in: whatever helpers overlap or die, a newsletter only ever goes
\* to a subscription that its address has confirmed.
OnlyConfirmedMailed ==
  \A m \in inbox : m.kind = "newsletter" => <<m.s, m.token>> \in confirmed

\* As long as helpers do not overlap, a campaign shown as sent or failed, and not
\* being queued again, has been tried on every address it was queued for.
FinishedMeansAttempted ==
  \A c \in Campaigns :
    clean /\ campaigns[c].status \in {"sent", "failed"}
      /\ (\A w \in Workers : proc[w].cmd = "queue" => proc[w].who # c)
    => lines[c] \subseteq attempted[c]

\* Only after helpers overlapped or one died does an address get a campaign twice
\* in one queueing, or once more after it was counted as sent to - however often
\* the campaign is queued, edited or resumed.  Not so when a message was on its
\* way but counted as failed: a campaign all of whose messages are ends "failed",
\* and may be queued again (provision-newsletter.mjs:396-397) for everyone.
DuplicatesExplained == twice # {} => ~clean

AtRest == \A w \in Workers : proc[w].pc = "idle"

Holding(w) == proc[w].cmd \in {"queue", "batch"}

Drained == queue = <<>> /\ \A w \in Workers : ~Holding(w)

\* Once nobody queues campaigns any more, the cron batches empty the queue, and
\* no stale batch fills it again for ever.
QueueDrains ==
  (<>[](\A w \in Workers : proc[w].cmd # "queue")) => <>[]Drained

-----------------------------------------------------------------------------
(* What texts in the code claim *)

\* "You will not receive further newsletters from this sender.": helpers that
\* neither overlap nor die mail no subscription whose address was told so.
UnsubscribedNotMailed ==
  [][\A w \in Workers :
       clean /\ proc[w].pc = "send" /\ proc'[w].log # proc[w].log
         => LET x == proc[w].batch[Len(proc[w].log) + 1]
            IN  <<x.s, x.token>> \notin told]_vars
=============================================================================
