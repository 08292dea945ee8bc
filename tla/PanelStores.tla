----------------------------- MODULE PanelStores -----------------------------
(***************************************************************************)
(* The panel's own files (src/lib of the panel): who is logged out, which  *)
(* refresh tokens and API keys are live, how often somebody asked, who the *)
(* users are, what was done; and the checks every request makes on them    *)
(* before its handler does anything.                                       *)
(***************************************************************************)
EXTENDS ProvisionQueries

CONSTANTS
    Sessions,   \* signed session tokens
    UserOf,     \* the panel user of each, one of Items
    Admins,     \* the tokens with the role "admin"
    Claims      \* the domains in a token of role "client"

ASSUME SessionsAssumption == /\ IsFiniteSet(Sessions)
                             /\ UserOf \in [Sessions -> Items]
                             /\ Admins \subseteq Sessions
                             /\ Claims \in [Sessions -> SUBSET Domains]

Fail == <<Refusal>>

-----------------------------------------------------------------------------
(* session-revocation.json: tokens revoked one by one, users logged out    *)
(* everywhere.  A file that does not parse counts as empty.  An entry that *)
(* expires and is dropped belongs to a token that has expired by then, and *)
(* is refused for it: entries do not expire here.                          *)

Revocations == Sys("session-revocations.json")
Jti(s) == <<"jti", s>>
LoggedOut(u) == <<"logged out", u>>

RevokeSessionJti(s) == Edit(Revocations, {Jti(s)}, {})
MarkUserLoggedOut(u) == Edit(Revocations, {LoggedOut(u)}, {})
IsSessionRevoked(s) == Look(Revocations, {}, {Jti(s)})
IsUserSessionRevoked(u) == Look(Revocations, {}, {LoggedOut(u)})

VerifySessionToken(s) == IsSessionRevoked(s) \o IsUserSessionRevoked(UserOf[s])

-----------------------------------------------------------------------------
(* Rate buckets: a file per key, read, counted up and written.  A write    *)
(* that fails is given up.  The limit itself is not modelled: a request    *)
(* over it is answered 429 before it does anything.                        *)

UserBucket(u) == <<"rate bucket", u>>
AddressBucket == Sys("rate bucket")
LoginBucket(u) == <<"login bucket", u>>
RefreshBucket == Sys("refresh bucket")

MutateBucket(f, who) == Caught(Edit(f, {<<"hit", who>>}, {}))
CheckSessionApiRateLimit(s) == MutateBucket(UserBucket(UserOf[s]), s) \o MutateBucket(AddressBucket, s)
CheckLoginRateLimit(u) == Read(AddressBucket) \o Read(LoginBucket(u))
RecordLoginRateLimitFailure(u) == MutateBucket(AddressBucket, u) \o MutateBucket(LoginBucket(u), u)

-----------------------------------------------------------------------------
(* The gates.                                                              *)

RequireSession(s) == VerifySessionToken(s) \o CheckSessionApiRateLimit(s)
AdminRole(s) == IF s \in Admins THEN <<>> ELSE Fail
RequireAdmin(s) == RequireSession(s) \o AdminRole(s)

\* assertActorDomainAccess, and the filter of listDomains: the same domains.
AssertActorDomainAccess(s, d) == IF s \in Admins \/ d \in Claims[s] THEN <<>> ELSE Fail

\* The panel, unlike the helper, takes a registry that does not parse for an
\* error; a row counts when its home is there.
ListDomains == Parse(Registry, {}, {}) \o Read(Passwd)
FindDomain(d) == Parse(Registry, {Row(d)}, {}) \o Look(Passwd, {User(d)}, {})

RequireDomainApi(s, d) == RequireSession(s) \o FindDomain(d) \o AssertActorDomainAccess(s, d)

-----------------------------------------------------------------------------
(* audit.log: one line appended, an error swallowed; every fiftieth line a *)
(* rotation writes back the lines it read.                                 *)

AuditLog == Sys("audit.log")
AuditLine(s) == <<"audit", s>>
Audit(s) == Caught(Outside(AuditLog, {AuditLine(s)}, {}))
RotateAuditLog == Caught(Read(AuditLog) \o EditWhole(AuditLog, {}, {}))

\* An entry of the action journal, written when the request ends.
JournalFile == Sys("action-journal.jsonl")
JournalEntry(s, ok) == Caught(Outside(JournalFile, {<<ok, s>>}, {}))
Journalled(s, steps) ==
  Handled(Script(steps) \o JournalEntry(s, "done"), JournalEntry(s, "failed"))

-----------------------------------------------------------------------------
(* users.json: invalid JSON is an error for every reader.  The file is     *)
(* there from the start and nothing of the panel removes it, so that       *)
(* ensureUsersFile, which makes it from the example when it cannot be      *)
(* read, has nothing to do.                                                *)

FindUser(u) == Parse(UsersJson, {Account(u)}, {})
SaveUsers(add, del) == Save(UsersJson, add, del)

Totp(u) == <<u, "totp">>
SetUserTotpSecret(u, add, del) == FindUser(u) \o SaveUsers(add, del)

Client(u) == <<u, "client">>
CreateClientUser(u, d) == Parse(UsersJson, {}, {Account(u)}) \o SaveUsers({Account(u), Client(u), <<u, d>>}, {})
SetClientPassword(u) == Parse(UsersJson, {Account(u), Client(u)}, {}) \o SaveUsers({<<u, "password">>}, {})
AssignDomainToClient(u, d) ==
  Parse(UsersJson, {Account(u), Client(u)}, {})
  \o SaveUsers({<<u, d>>}, {<<other, d>> : other \in Items \ {u}})

\* An account that is there gets a new password and the domain: two writes.
UpsertPanelClient(u, d) ==
  Parse(UsersJson, {}, {})
  \o When(SetClientPassword(u) \o AssignDomainToClient(u, d), UsersJson, Account(u))
  \o Unless(CreateClientUser(u, d), UsersJson, Account(u))

PanelVhost(d) == Cfg("panel vhost", d)
ApplyClientPanelVhost(d) == Rewrite(PanelVhost(d), {Row(d)}) \o Reload

-----------------------------------------------------------------------------
(* mobile-refresh-tokens.json.  A token is live while the file has it; the *)
(* one user u holds at first is Token(u, u), one issued to the device of   *)
(* session s is Token(u, s).                                               *)

Tokens == Sys("mobile-refresh-tokens.json")
Token(u, i) == <<"token", u, i>>
TokensOf(u) == {Token(u, i) : i \in {u} \cup Sessions}

IssueMobileTokens(u, s) == Edit(Tokens, {Token(u, s)}, {})
FindUserIdForRefreshToken(t) == Look(Tokens, {t}, {})
\* The old token is gone before the new one is on file.
RotateMobileRefreshToken(t, s) ==
  Look(Tokens, {t}, {}) \o Save(Tokens, {}, {t}) \o IssueMobileTokens(t[2], s)
\* Not there: nothing is written.
Prune(gone) ==
  Read(Tokens) \o <<[Blank EXCEPT !.op = "read", !.f = Sys("nothing"), !.lacks = {<<Tokens, t>> : t \in gone}, !.next = 2]>>
  \o Save(Tokens, {}, gone)
RevokeMobileRefreshToken(t) == Prune({t})
RevokeAllMobileRefreshTokens(u) == Prune(TokensOf(u))

-----------------------------------------------------------------------------
(* license.json, at most one license, known by its key, and whether the    *)
(* license server last said that it is active; the features of its plan    *)
(* are copied into the environment file of the panel, whatever its status. *)
(* A file that does not parse counts as no license.  That a license goes   *)
(* unused once its last heartbeat is too old is not modelled.              *)

License == Sys("license.json")
EnvFile == Sys(".env.local")
InstanceId == Sys("license-instance-id")
Stored == <<"license", "stored">>
Active == <<"license", "active">>
KeyHint(x) == <<"license key", x>>
Features(x) == <<"features of", x>>

GetOrCreateInstanceId ==
  Read(InstanceId) \o Unless(Rewrite(InstanceId, {<<"id", Host>>}), InstanceId, <<"id", Host>>)
SyncPremiumFeaturesEnv(x) == Edit(EnvFile, {Features(x)}, {Features(y) : y \in Items \ {x}})
ClearPremiumFeaturesEnv == Caught(Edit(EnvFile, {}, {Features(y) : y \in Items}))

ActivateLicense(x) ==
  GetOrCreateInstanceId \o Try \o Rewrite(License, {Stored, Active, KeyHint(x)}) \o SyncPremiumFeaturesEnv(x)
ClearStoredLicense == Caught(Wipe({License})) \o ClearPremiumFeaturesEnv

\* Read, asked, written back with the status the server gives it: the features
\* of the license read.  A revoked one is removed.
HeartbeatLicense(status) ==
  Look(License, {Stored}, {}) \o Try
  \o (IF status = "active" THEN Save(License, {Active}, {}) ELSE Save(License, {}, {Active}))
  \o FoldSet(LAMBDA x, steps : steps \o When(SyncPremiumFeaturesEnv(x), License, KeyHint(x)), <<>>, Items)
HeartbeatRevoked == Look(License, {Stored}, {}) \o Try \o ClearStoredLicense

IsPremiumFeatureEnabled == Look(License, {Active}, {})
RequirePremiumFeature == IsPremiumFeatureEnabled
LicenseActivations == Look(License, {Stored}, {}) \o Try
GetLicensePublicInfo == Read(License) \o Unless(GetOrCreateInstanceId, License, Active)

UpsertPremiumClient(u, d) == RequirePremiumFeature \o UpsertPanelClient(u, d)
EnsurePanelVhost(d) == RequirePremiumFeature \o Try \o RequirePremiumFeature \o ApplyClientPanelVhost(d)

-----------------------------------------------------------------------------
(* api-keys.json.  A use of a key is written into the list.                *)

ApiKeys == Sys("api-keys.json")
Key(x) == <<"key", x>>

CreateApiKey(x) == Edit(ApiKeys, {Key(x)}, {})
RevokeApiKey(x) == Edit(ApiKeys, {}, {Key(x)})

VerifyApiKey(x) == Look(ApiKeys, {Key(x)}, {}) \o Save(ApiKeys, {<<"used", x>>}, {})

RequireApiV1(x) == VerifyApiKey(x) \o MutateBucket(UserBucket(x), x)
AssertApiV1DomainAccess(d) == FindDomain(d)
=============================================================================
