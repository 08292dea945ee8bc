--------------------------- MODULE NewsletterInv ---------------------------
(***************************************************************************)
(* The inductive invariant behind the safety properties of Newsletter.     *)
(* ConfirmedInv holds whatever helpers overlap or die; CleanInv describes  *)
(* the helpers as long as they run one at a time and none is killed.       *)
(* NewsletterProofs proves both inductive.                                 *)
(***************************************************************************)
EXTENDS Newsletter

\* What a process carries at each point of its command.
ProcOK(r) ==
  /\ r.pc \in {"invite", "welcome"} => r.cmd = "subs" /\ r.who \in People
  /\ r.pc \in {"openS", "fillS"} => r.cmd \in {"subs", "unsubscribe"}
  /\ r.cmd = "subs" => r.who \in People \cup {None}
  /\ r.cmd = "unsubscribe" => r.who \in People
  /\ r.cmd = "queue" => r.who \in Campaigns
  /\ r.pc = "readS" => r.cmd = "queue"
  /\ r.pc \in {"readC", "send"} => r.cmd = "batch" /\ Len(r.log) < Len(r.batch)
  /\ r.pc = "readC" => r.log = <<>>
  /\ r.pc \in {"openQ", "fillQ"} =>
       \/ r.cmd = "queue"
       \/ r.cmd = "batch" /\ Len(r.log) = Len(r.batch)
  /\ r.pc \in {"openC", "fillC"} => r.cmd \in {"camps", "queue", "batch"}
  /\ r.pc = "idle" => r = Idle

ProcInv == \A w \in Workers : ProcOK(proc[w])

TypeInv == TypeOK /\ ProcInv

-----------------------------------------------------------------------------
(* Consent *)

\* A record of address s, when C are the confirmed subscriptions: its two tokens
\* were made together, and it is active only once they came back in a click.
Granted(s, r, C) ==
  /\ r.confirm # 0 => r.confirm = r.token
  /\ r.status = "active" => <<s, r.token>> \in C

ListOK(list, C) == \A s \in People : Granted(s, list[s], C)

LinesOK(q, C) == \A i \in 1..Len(q) : <<q[i].s, q[i].token>> \in C

HeldOK(r, C) == ListOK(r.subs, C) /\ LinesOK(r.out, C) /\ LinesOK(r.batch, C)

\* Every copy of a record and of a queue line, on disk or in a process however
\* old, is of a subscription that was confirmed if it says so.
ConfirmedInv ==
  /\ ListOK(subs, confirmed) /\ LinesOK(queue, confirmed)
  /\ \A w \in Workers : HeldOK(proc[w], confirmed)
  /\ OnlyConfirmedMailed

-----------------------------------------------------------------------------
(* One helper at a time *)

Working(w) == proc[w].pc # "idle"

Alone == \A v, w \in Workers : Working(v) /\ Working(w) => v = w

\* A batch has the queue in memory until it has written the rest of it back.
Batching(r) == r.cmd = "batch" /\ r.pc \in {"readC", "send", "openQ", "fillQ"}

Taken(r) == r.batch \o r.out

\* A helper that is filling or has filled the queue for its campaign, which the
\* campaigns file does not say yet.
Settling(r) == r.cmd = "queue" /\ r.pc \in {"fillQ", "openC", "fillC"}

\* A helper that has yet to write what the queue or its log made of campaigns.
Owing(r) == r.pc \in {"openC", "fillC"} \/ Settling(r)

\* Lines of queue q, of which the first n were tried: no address twice in a
\* campaign, and none of the others has had the campaign.
Distinct(q) ==
  \A i, j \in 1..Len(q) : q[i].c = q[j].c /\ q[i].s = q[j].s => i = j

Unsent(q, n, had) ==
  \A i \in 1..Len(q) : i > n => q[i].s \notin had[q[i].c]

\* The addresses the lines after the first n are for.
ToTry(c, q, n) == {q[i].s : i \in {j \in 1..Len(q) : j > n /\ q[j].c = c}}

Queued(c, q) == \E i \in 1..Len(q) : q[i].c = c

\* What a campaign's status says about its addresses, of which those in `tried`
\* were tried: all of them once it is finished; and while it is sending and
\* still in the queue, the others are in the queue.
StatusOK(c, status, q, n, wanted, tried) ==
  /\ status \in {"sent", "failed"} => wanted[c] \subseteq tried[c]
  /\ status = "sending" /\ Queued(c, q) =>
       wanted[c] \subseteq tried[c] \cup ToTry(c, q, n)

\* What record k of campaign c says of whom it reached, `sent` standing for what
\* a batch has logged and not yet counted: nobody while it may be queued, and
\* once it reached somebody that is on record.
CountOK(c, k, sent, had) ==
  /\ k.status \in {"draft", "failed"} => had[c] = {}
  /\ k.status = "sending" /\ had[c] # {} => k.ok \/ sent

\* A campaign with lines in the queue is being sent.
KnownOK(c, k, q) == Queued(c, q) => k.status = "sending"

\* The batch has sent a message of c and knows it.
LoggedOk(r, c) == \E i \in 1..Len(r.log) : r.batch[i].c = c /\ r.log[i]

\* What a batch holds counts as the queue until it has written the rest back.
BatchOK(r) ==
  Batching(r) =>
    /\ Distinct(Taken(r)) /\ Unsent(Taken(r), Len(r.log), mailed)
    /\ \A c \in Campaigns :
         /\ StatusOK(c, campaigns[c].status, Taken(r), Len(r.log), lines, attempted)
         /\ KnownOK(c, campaigns[c], Taken(r))
         /\ CountOK(c, campaigns[c], LoggedOk(r, c), reached)
    /\ r.pc # "readC" => r.camps = campaigns

QueueInv ==
  (\A w \in Workers : ~Batching(proc[w])) =>
    /\ Distinct(queue) /\ Unsent(queue, 0, mailed)
    /\ \A c \in Campaigns :
         \/ StatusOK(c, campaigns[c].status, queue, 0, lines, attempted)
         \/ \E w \in Workers : Settling(proc[w]) /\ proc[w].who = c
    /\ \A c \in Campaigns :
         \/ KnownOK(c, campaigns[c], queue) /\ CountOK(c, campaigns[c], FALSE, reached)
         \/ \E w \in Workers : Owing(proc[w])

\* What a helper that queues a campaign holds.
QueuingOK(r) ==
  r.cmd = "queue" =>
    /\ r.pc = "readS" => r.camps = campaigns
    /\ reached[r.who] = {}
    /\ r.pc \in {"openQ", "fillQ"} =>
         /\ Distinct(r.out) /\ \A i \in 1..Len(r.out) : r.out[i].c = r.who
         /\ \A c \in Campaigns \ {r.who} :
              r.camps[c] = campaigns[c] /\ CountOK(c, r.camps[c], FALSE, reached)
    /\ r.pc = "fillQ" => /\ lines[r.who] = {r.out[i].s : i \in 1..Len(r.out)}
                         /\ mailed[r.who] = {}
    /\ r.pc # "readS" => r.camps[r.who].status = "sending"
    /\ Settling(r) /\ r.pc # "fillQ" => lines[r.who] \subseteq ToTry(r.who, queue, 0)

\* What a helper is about to write into the campaigns file.
CampsOK(r) ==
  r.pc \in {"openC", "fillC"} =>
    \A c \in Campaigns :
      /\ \/ StatusOK(c, r.camps[c].status, queue, 0, lines, attempted)
         \/ Settling(r) /\ r.who = c
      /\ KnownOK(c, r.camps[c], queue) /\ CountOK(c, r.camps[c], FALSE, reached)

HelperInv ==
  \A w \in Workers : BatchOK(proc[w]) /\ QueuingOK(proc[w]) /\ CampsOK(proc[w])

CleanInv == clean => Alone /\ twice = {} /\ HelperInv /\ QueueInv

NInv == TypeInv /\ ConfirmedInv /\ CleanInv
=============================================================================
