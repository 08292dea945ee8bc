----------------------------- MODULE MailFolders -----------------------------
(***************************************************************************)
(* Webmail: the folders of a mailbox and the messages in them, through     *)
(* doveadm where it is installed, in the Maildir itself where it is not or *)
(* has nothing to say (mail-folders.mjs, dovecot-imap.mjs).  A domain's    *)
(* mailboxes share one file here: Dovecot is asked for the user, and for   *)
(* every other user of the domain after that, and the first one it knows   *)
(* is the one whose folders are used.                                      *)
(***************************************************************************)
EXTENDS ProvisionHosts

Maildir(d) == Cfg("maildir", d)
MailFolder(n) == <<"folder", n>>
\* The inbox is the Maildir itself.
Message(n, x) == IF n = "INBOX" THEN x ELSE <<n, x>>

\* Other names of a folder stand for these.
StandardMailboxFolders == {"Sent", "Drafts", "Archive", "Junk", "Trash"}

\* try { steps } catch { other }: what leads past the steps leads past the others.
OrElse(steps, other) ==
  LET n == Len(steps)
      Past(i, k) == IF i + k > n THEN k + Len(other) ELSE k
  IN  [i \in 1..n |->
         [steps[i] EXCEPT !.next = Past(i, @),
                          !.catch = CASE @ > 0 -> Past(i, @) [] steps[i].hard -> 0 [] OTHER -> n - i + 1]]
      \o other

-----------------------------------------------------------------------------
(* Whose folders: the layout of the domain's mail, the login Dovecot knows *)
(* and the Maildir on disk.  A program that is not there is an answer.     *)

DoveadmAvailable == Caught(Try)
DiscoverMailLayout(d) == Read(Homes(d)) \o Caught(Try)
ListMailboxesFromLayout(d) == Read(Homes(d)) \o Read(Vmailbox) \o Read(AliasMap)
ResolveMailboxMaildir(d) == Read(Vmailbox) \o Caught(Try)
ResolveDovecotAuthUser == DoveadmAvailable \o Caught(Try)

ListDomainMailUsers(d) == Resolve(d) \o DiscoverMailLayout(d) \o ListMailboxesFromLayout(d)
ImapSession(d) == ListDomainMailUsers(d) \o ResolveMailboxMaildir(d) \o ResolveDovecotAuthUser

\* A mailbox of the layout, or the one an alias forwards to.
KnownMailbox(d, x) ==
  ListDomainMailUsers(d)
  \o <<[Refusal EXCEPT !.lacks = {<<Homes(d), x>>, <<Vmailbox, Addr(d, x)>>}
                                   \cup {<<AliasMap, Addr(d, y)>> : y \in {z \in Items : Dest[z] = x}}]>>

-----------------------------------------------------------------------------
\* Where a folder is on disk; one that is nowhere is made.
ResolveFolderMaildirPath(d, n) ==
  IF n = "INBOX" THEN <<>>
  ELSE Read(Maildir(d)) \o Unless(Outside(Maildir(d), {MailFolder(n)}, {}), Maildir(d), MailFolder(n))

\* The folders on disk, or an error; then Dovecot's, each if it can be made.
EnsureStandardMailboxes(d) ==
  Outside(Maildir(d), {MailFolder(n) : n \in StandardMailboxFolders}, {}) \o Caught(Try)

\* The names Dovecot lists, each with its numbers, or with those of the disk.
StatsForFolder(d) == Caught(Try) \o Read(Maildir(d))
ListMailboxesDoveadm(d) == Try \o StatsForFolder(d)
ListMailboxesMaildir(d) == Read(Maildir(d)) \o Try

\* The name Dovecot has for a folder; without an answer, ours.
ResolveDovecotMailboxName == DoveadmAvailable \o Caught(Try)

\* Saved by doveadm from a temporary file or, where there is no doveadm, into
\* the folder: neither is tried after the other.
SaveMailToFolder(d, n, x) ==
  ImapSession(d) \o EnsureStandardMailboxes(d) \o ResolveDovecotMailboxName \o Try
  \o Outside(Maildir(d), {Message(n, x)}, {})

\* The answer says whether there is a copy; the message has gone either way.
SaveSentCopy(d, x) == Caught(SaveMailToFolder(d, "Sent", x))

-----------------------------------------------------------------------------
(* Messages.  Dovecot first: a list that is empty, or an error, is the     *)
(* Maildir's turn, and an empty Maildir Dovecot's again.                   *)

ListMessagesDoveadmSearch == Caught(Try) \o Caught(Try)
ListMessagesDoveadm == Caught(Try) \o ListMessagesDoveadmSearch
\* A message that cannot be parsed is listed without its headers.
ListMessagesMaildir(d) == Read(Maildir(d)) \o Try
ListMessagesInFolder(d, n) ==
  ResolveFolderMaildirPath(d, n) \o ListMessagesDoveadm \o ListMessagesMaildir(d) \o ListMessagesDoveadmSearch

FetchMessageDoveadm == Try
FetchMessageMaildir(d, n, x) == Script(Look(Maildir(d), {Message(n, x)}, {}))
FetchMessageInFolder(d, n, x) ==
  ResolveFolderMaildirPath(d, n)
  \o OrElse(FetchMessageDoveadm, OrElse(FetchMessageMaildir(d, n, x), FetchMessageDoveadm))

-----------------------------------------------------------------------------
(* The commands.                                                           *)

\* Listing the folders makes the standard ones.
ImapList(d) ==
  ImapSession(d) \o EnsureStandardMailboxes(d) \o OrElse(ListMailboxesDoveadm(d), ListMailboxesMaildir(d))
ImapMessages(d, n) == ImapSession(d) \o ListMessagesInFolder(d, n)
ImapFetch(d, x) == ImapSession(d) \o FetchMessageInFolder(d, "INBOX", x)

\* doveadm's error is the answer; a copy on disk only without a login.
ImapCopy(d, n) == ImapSession(d) \o Outside(Maildir(d), {MailFolder(n), Message(n, "copied")}, {})

EnsureMailReady == EnsureNativeMailStack
MailQueue == Sys("mail queue")
QueueSendmail(d, x) == Outside(MailQueue, {Addr(d, x)}, {})
\* An answer that does not come in time is an error, and the message sent again.
SmtpInjectLocal(d, x) == Try \o Outside(MailQueue, {Addr(d, x)}, {}) \o Try
DeliverLocalMessage(d, x) == OrElse(SmtpInjectLocal(d, x), QueueSendmail(d, x))

\* From a mailbox the layout knows, to one of the same domain.
MailSendDirect(d, x) == EnsureMailReady \o Try \o KnownMailbox(d, x) \o DeliverLocalMessage(d, x) \o SaveSentCopy(d, x)
MailDraftSaveDirect(d, x) == Try \o SaveMailToFolder(d, "Drafts", x)
=============================================================================
