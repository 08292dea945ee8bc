---------------------------- MODULE ProvisionMail ----------------------------
(***************************************************************************)
(* The commands that shape mail and DNS.  Postfix reads maps Qadbak writes *)
(* whole from the registry, the domains' JSON files and the mailbox homes  *)
(* (mail-sync.mjs); every change of one domain rebuilds the maps of all.   *)
(***************************************************************************)
EXTENDS Steps, FiniteSetsExt

CONSTANT Dest      \* the local part an alias forwards to

ASSUME DestAssumption == Dest \in [Items -> Items]

Aliases(d) == Cfg("aliases.json", d)
MailSettings(d) == Cfg("mail-settings.json", d)
Zone(d) == Cfg("zone", d)
Homes(d) == Cfg("homes", Owner[d])
Sieve(d) == Cfg(".dovecot.sieve", Owner[d])

AliasMap == Sys("qadbak-virtual")
DomainMap == Sys("qadbak-domains")
Vmailbox == Sys("qadbak-vmailbox")
Maps == {AliasMap, DomainMap, Vmailbox}
Postfix == Sys("postfix")

Addr(d, local) == <<d, local>>
CatchAll(d) == <<"catch-all", d>>

\* Rows that get mail: enabled, not of type alias.
MailDomains(seen) ==
  {d \in Domains \ AliasDomains : Row(d) \in seen[Registry] /\ Off(d) \notin seen[Registry]}

\* rebuildVirtualAliasMap and readMailSettingsCatchAllEntries.
AliasEntries(seen) ==
  UNION {{Addr(d, x) : x \in seen[Aliases(d)]}
         \cup (IF seen[MailSettings(d)] # {} THEN {CatchAll(d)} ELSE {}) : d \in MailDomains(seen)}

\* listMailboxesFromLayout: the homes, what the map held before, and the local
\* part every alias of the domain forwards to.
Mailboxes(d, seen) ==
  seen[Homes(d)]
  \cup {x \in Items : Addr(d, x) \in seen[Vmailbox]}
  \cup {Dest[x] : x \in {y \in Items : Addr(d, y) \in seen[AliasMap]}}

VmailboxEntries(seen) ==
  UNION {{Addr(d, x) : x \in Mailboxes(d, seen)} : d \in MailDomains(seen)}

AliasSources == {Registry} \cup UNION {{Aliases(d), MailSettings(d)} : d \in Domains}
MailboxSources == {Registry, Vmailbox, AliasMap} \cup {Homes(d) : d \in Domains}

SyncVirtualDomainsFile == Render(DomainMap, {Registry}) \o Postmap({DomainMap})
\* One map stands for three: those of the user and group ids are written after it
\* from the same rows and nothing reads them back.  The sources are read in one
\* step.  The boxes of the domain's owner and postmaster follow from the registry
\* alone and are left out; no path is absolute, as the rebuild's last check asks.
RebuildPostfixMailboxMaps == Render(Vmailbox, MailboxSources)
RebuildVirtualAliasMap == Render(AliasMap, AliasSources)
PostmapReloadAll == Postmap(Maps)

\* Addresses that are mailboxes are taken out of the alias map.
StripVirtualAliasMailboxConflicts ==
  LET from == {AliasMap, Vmailbox}
  IN  <<[Blank EXCEPT !.op = "strip", !.f = AliasMap, !.src = from],
        [Blank EXCEPT !.op = "save", !.f = AliasMap, !.src = from]>>

-----------------------------------------------------------------------------
Soa == <<"SOA", "record">>
Mx(d) == <<"MX", d>>
MailA(d) == <<"A", d>>

\* A zone that is missing is created for a domain of the registry; otherwise
\* fail() ends the whole command.
FindZonePath(d) ==
  Read(Zone(d))
  \o Unless(Look(Registry, {Row(d)}, {}), Zone(d), Soa)
  \o Unless(Outside(Zone(d), {Soa}, {}), Zone(d), Soa)

DnsAdd(d, r) == Resolve(d) \o FindZonePath(d) \o Edit(Zone(d), {r}, {}) \o Caught(Try)
DnsDel(d, r) == Resolve(d) \o FindZonePath(d) \o Edit(Zone(d), {}, {r}) \o Caught(Try)

\* An MX and an address record, each if the zone read first has none.
EnsureInboundMailDns(d) ==
  Caught(FindZonePath(d) \o Unless(DnsAdd(d, Mx(d)), Zone(d), Mx(d))
         \o Unless(DnsAdd(d, MailA(d)), Zone(d), MailA(d)))

EnsureNativeMailStack == Try

EnsureDomainMailSetup(d) ==
  RebuildPostfixMailboxMaps \o RebuildVirtualAliasMap \o StripVirtualAliasMailboxConflicts
  \o SyncVirtualDomainsFile \o PostmapReloadAll \o EnsureInboundMailDns(d)

MailSyncAll ==
  EnsureNativeMailStack \o ReadRows
  \o RebuildPostfixMailboxMaps \o RebuildVirtualAliasMap \o StripVirtualAliasMailboxConflicts
  \o SyncVirtualDomainsFile \o PostmapReloadAll
  \o FoldSet(LAMBDA d, steps : steps \o IfFound(UnlessFound(EnsureInboundMailDns(d), Rows, Off(d)), Rows, Row(d)),
             <<>>, Domains \ AliasDomains)

-----------------------------------------------------------------------------
AliasCreate(d, from) ==
  Resolve(d) \o AddNew(Aliases(d), from)
  \o Edit(AliasMap, {Addr(d, from)}, {}) \o PostmapReloadAll

AliasDelete(d, from) ==
  Resolve(d) \o Edit(Aliases(d), {}, {from})
  \o Edit(AliasMap, {}, {Addr(d, from)}) \o PostmapReloadAll

\* Mutant: the mailbox map is not rebuilt.
MailCreateDirect_OldMap(d, local) ==
  EnsureNativeMailStack \o Resolve(d)
  \o Read(Passwd) \o Unless(Outside(Passwd, {local}, {}), Passwd, local)
  \o Outside(Homes(d), {local}, {})
  \o SyncVirtualDomainsFile \o RebuildVirtualAliasMap
  \o PostmapReloadAll \o EnsureInboundMailDns(d) \o Try

\* The account and its home, then every map; the alias map is not stripped.
MailCreateDirect(d, local) ==
  EnsureNativeMailStack \o Resolve(d)
  \o Read(Passwd) \o Unless(Outside(Passwd, {local}, {}), Passwd, local)
  \o Outside(Homes(d), {local}, {})
  \o SyncVirtualDomainsFile \o RebuildPostfixMailboxMaps \o RebuildVirtualAliasMap
  \o PostmapReloadAll \o EnsureInboundMailDns(d) \o Try

\* The maps are rebuilt while the account and its home are still there.
MailDeleteDirect(d, local) ==
  Resolve(d) \o Caught(Edit(AliasMap, {}, {Addr(d, local)}))
  \o RebuildPostfixMailboxMaps \o RebuildVirtualAliasMap \o PostmapReloadAll
  \o Read(Passwd)
  \o When(Outside(Passwd, {}, {local}) \o Outside(Homes(d), {}, {local}), Passwd, local)

MailPassDirect(d, local) == Resolve(d) \o Look(Passwd, {local}, {}) \o Try

\* A sieve script when an answer is set, none otherwise.
ApplyAutoresponderSieve(d, message) ==
  IF message = {} THEN Wipe({Sieve(d)}) ELSE Try \o Rewrite(Sieve(d), message) \o Caught(Try)

ApplyDomainMailSettings(d, message) == Resolve(d) \o ApplyAutoresponderSieve(d, message)

MailSettingsSet(d, settings) ==
  Resolve(d) \o Rewrite(MailSettings(d), settings) \o ApplyDomainMailSettings(d, settings)
  \o RebuildPostfixMailboxMaps \o RebuildVirtualAliasMap \o StripVirtualAliasMailboxConflicts
  \o Try \o PostmapReloadAll

MailSettingsCatchAll(d, x) == MailSettingsSet(d, {x})
MailSettingsClear(d) == MailSettingsSet(d, {})

\* Diagnosis rewrites the list of domains on its way.
\* A message to a mailbox the layout knows, then up to 30 s of looking for it.
MailReceiveTest(d, local) ==
  Resolve(d) \o Script(Look(Homes(d), {local}, {})) \o Try
  \o Outside(Sys("mail queue"), {Addr(d, local)}, {}) \o Caught(Try)
\* Asked what is wrong, it writes the domain map too.
MailDiagnose(d, local) ==
  Read(Registry) \o Caught(Try) \o Read(Vmailbox) \o SyncVirtualDomainsFile
  \o Caught(MailReceiveTest(d, local))

DmarcSet(d, policy) == Rewrite(Cfg("dmarc-settings.json", d), {policy}) \o Caught(DnsAdd(d, policy))

MailboxAutoreplySet(d, user) ==
  Edit(Cfg("mailbox-autoreply.json", d), {user}, {}) \o Resolve(d)
  \o Caught(ApplyAutoresponderSieve(d, {user}))

-----------------------------------------------------------------------------
DnsCommands == ForItem("dns-add", DnsAdd) @@ ForItem("dns-del", DnsDel)

MailboxCommands ==
  ForItem("mail-create", MailCreateDirect) @@ ForItem("mail-delete", MailDeleteDirect)
  @@ ForItem("mail-pass", MailPassDirect)
  @@ ForDomain("mail-sync", LAMBDA d : MailSyncAll)
  @@ ForItem("mail-diagnose", MailDiagnose) @@ ForItem("mail-receive-test", MailReceiveTest)

AliasCommands == ForItem("alias-create", AliasCreate) @@ ForItem("alias-delete", AliasDelete)

MailSettingsCommands ==
  ForItem("mail-settings-set", MailSettingsCatchAll)
  @@ ForDomain("mail-settings-clear", MailSettingsClear)

MailPolicyCommands ==
  ForItem("dmarc-set", DmarcSet) @@ ForItem("mailbox-autoreply-set", MailboxAutoreplySet)

MailCommands ==
  DnsCommands @@ MailboxCommands @@ AliasCommands @@ MailSettingsCommands @@ MailPolicyCommands
=============================================================================
