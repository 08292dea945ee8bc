---------------------------- MODULE Provisioning ----------------------------
(***************************************************************************)
(* What the provisioning helpers keep true of a server: what is computed   *)
(* from the JSON files follows them, whatever the order the helpers ran in *)
(* and wherever one was stopped, except where excused says why not.        *)
(***************************************************************************)
EXTENDS FollowUp

\* When no helper is at work, every vhost file says what the domain's JSON
\* files say, the pool has the version one of its domains asks for, and nginx
\* serves exactly the linked vhosts.  Excepted is a file that is half written, or
\* in excused: its last writer failed, was killed or wrote back an out-of-date
\* copy before anyone rendered it again (Whole); and for a vhost also one that
\* was rendered from such a file (Sound).
ServedIsCurrent ==
  Quiet =>
    /\ \A d \in Domains : Sound(Conf(d)) /\ Row(d) \in disk[Linked] =>
          disk[Conf(d)] = Derived(Conf(d), VhostSources(d), Seen)
    /\ \A d \in Domains : Whole(Pool(d)) =>
          \E e \in Domains : /\ Pool(e) = Pool(d)
                             /\ Php(e) \in excused \/ disk[Pool(d)] = Derived(Pool(d), {Php(e)}, Seen)
    /\ Whole(Served) => disk[Served] = Loaded(Seen)

\* When no helper is at work, Postfix's maps follow the registry, the aliases
\* and the mailboxes of the domains, and Postfix has loaded them; but for files
\* left behind by a failure, a kill or an out-of-date copy, and for an alias map
\* that two commands wrote at the same time.
MapsAreCurrent ==
  Quiet =>
    /\ Sound(DomainMap) => disk[DomainMap] = {Row(d) : d \in MailDomains(Seen)}
    /\ Sound(AliasMap) /\ AliasMap \notin crossed =>
         /\ disk[AliasMap] \subseteq AliasEntries(Seen)
         /\ Whole(Vmailbox) => AliasEntries(Seen) \ disk[AliasMap] \subseteq disk[Vmailbox]
    /\ Whole(Vmailbox) /\ Whole(Registry) =>
         UNION {{Addr(d, x) : x \in Seen[Homes(d)]} : d \in MailDomains(Seen)} \subseteq disk[Vmailbox]
    /\ \A m \in Maps : Whole(m) /\ Whole(Postfix) =>
         {t \in disk[Postfix] : t[1] = m[1]} = {<<m[1], x>> : x \in disk[m]}

\* When no helper is at work, the panel's crontab has one line for every
\* registered domain whose backups are not paused, unless it or a file it is
\* made from was left behind by a failure, a kill or an out-of-date copy: one of
\* two commands that overlapped, the last of which had read the older schedules.
CronIsCurrent == Quiet /\ Sound(BackupCron) => disk[BackupCron] = CronLines(Seen)

\* A domain of the registry that is not disabled is linked, and its unix user
\* exists, unless two commands used the registry at the same time: one that
\* finds it truncated takes it for empty and answers ok, and a creation that ends
\* late writes back a registry without the domains created meanwhile.
RegisteredIsServed ==
  Quiet /\ Whole(Registry) /\ Registry \notin crossed =>
    \A d \in Domains : Row(d) \in disk[Registry] =>
      /\ Off(d) \notin disk[Registry] /\ Whole(Linked) => Row(d) \in disk[Linked]
      /\ Whole(Passwd) => User(d) \in disk[Passwd]

\* A record of one of the panel's lists has the thing it records: an FTP
\* account its unix user, a runtime its unit or compose file, a protected directory
\* its .htaccess; unless a step of the command failed or was killed after the
\* record was written, or two commands changed the users at the same time.
RecordsAreBacked ==
  Quiet =>
    \A d \in Domains :
      /\ Whole(Ftp(d)) /\ Whole(Passwd) /\ crossed \cap {Passwd} = {} => disk[Ftp(d)] \subseteq disk[Passwd]
      /\ Whole(Runtimes(d)) => disk[Runtimes(d)] \subseteq disk[Units] \cup disk[Compose(d)]
      /\ Whole(Protected(d)) /\ Whole(Htaccess(d)) => disk[Protected(d)] \subseteq disk[Htaccess(d)]
=============================================================================
