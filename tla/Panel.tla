-------------------------------- MODULE Panel --------------------------------
(***************************************************************************)
(* What the panel keeps true of its own files while requests of several    *)
(* sessions, and the two schedulers, run side by side with no lock.        *)
(***************************************************************************)
EXTENDS StepRun

\* A step of process h, other than the truncation that precedes a write.
Acts(h) == Running(h) /\ run'[h].pc # run[h].pc
SessionOf(h) == run[h].cmd[3]

\* Requests that ask for no session: forms of the hosted sites, webhooks, API
\* keys, signing in and out, the schedulers, another panel, the command line.
Open ==
  {"login", "mobileLogin", "logout", "refresh", "revocation", "contact", "track", "subscribe", "confirm",
   "unsubscribe", "gitWebhook", "v1Domains", "v1Plans", "v1Domain", "v1Backups", "v1Dns", "v1Limits", "v1Mail",
   "v1Ssl", "v1Suspend", "pushTick", "heartbeat", "branding", "logo", "health",
   "nodeAgent", "weakPasswords"}
Signed(c) == IsRequest(c) /\ c[1] \notin Open
OfSession(h) == Signed(run[h].cmd)
OfClient(h) == OfSession(h) /\ SessionOf(h) \in Clients

\* Domains of a client: those in the token, and those of the same unix user.
Mine(s) == {d \in Domains : \E e \in Claims[s] : Owner[d] = Owner[e]}

AdminFiles ==
  {PlanStore, License, EnvFile, InstanceId, ApiKeys, Servers, AdminState, AlertSettings, Docker, Branding,
   Services, UpdateCache, PushTokens, AlertState, OtherPanelHost, RootShell}

-----------------------------------------------------------------------------
(* What the checks of the routes stand before, in the tables.              *)

\* Nothing is ever written where a refusal looks.
ASSUME NothingAssumption == \A c \in Command : Sys("nothing") \notin Writes(Program[c])

\* Step j of a request asks whether user u is logged out; no way leads past it,
\* and nothing is done before.
AsksLogout(prog, j, u) ==
  /\ prog[j].op \in Reading /\ prog[j].f = Revocations /\ LoggedOut(u) \in prog[j].bar
  /\ prog[j].hard /\ prog[j].has = {} /\ prog[j].lacks = {}
  /\ \A i \in 1..j - 1 :
       /\ prog[i].op = "run" \/ (prog[i].op \in Reading /\ prog[i].f = Revocations)
       /\ \A t \in Jumps(prog, i) : t <= j

ASSUME LogoutAssumption ==
  \A c \in Command : Signed(c) =>
    \E j \in DOMAIN Program[c] : AsksLogout(Program[c], j, UserOf[c[3]])

\* A client's files: of the accounts its own entries.
Permitted(s, step) ==
  \A f \in FilesOf(step) :
    /\ f \notin AdminFiles \ {PushTokens, InstanceId}
    /\ f[2] \in Domains => f[2] \in Mine(s)
    /\ f = UsersJson => \A x \in step.add \cup step.del : x[1] = UserOf[s]

\* A step of a client's request is permitted, or stands behind a refusal.
ASSUME GateAssumption ==
  \A c \in Command : Signed(c) /\ c[3] \in Clients =>
    \A i \in DOMAIN Program[c] :
      \/ Program[c][i].op \notin WriteOps \/ Permitted(c[3], Program[c][i])
      \/ \E k \in 1..i - 1 : Bars(Program[c], k, i) /\ AskedOf(Program[c][k]) = {}

\* The accounts are parsed, and written back; administrators are taken out where
\* others are left.
KeepsAdmins(prog) ==
  \A i \in DOMAIN prog :
    /\ prog[i].f = UsersJson /\ prog[i].op \in Copying => prog[i].op \in {"parse", "save"}
    /\ prog[i].op \in WriteOps /\ UsersJson \in FilesOf(prog[i]) =>
         /\ prog[i].op = "save" /\ prog[i].src = {UsersJson}
         /\ \/ \A u \in Items : Admin(u) \notin prog[i].del
            \/ \E k \in 1..i - 1 :
                 /\ Bars(prog, k, i) /\ prog[k].has = {}
                 /\ prog[k].lacks \subseteq {<<UsersJson, Admin(u)>> : u \in {v \in Items : Admin(v) \notin prog[i].del}}

ASSUME AdminsAssumption == Administrators # {} /\ \A c \in Command : KeepsAdmins(Program[c])

\* A key is put on file by the request that creates it.
ASSUME KeysAssumption ==
  \A c \in Command : \A i \in DOMAIN Program[c] :
    LET s == Program[c][i]
    IN  s.op \in WriteOps /\ ApiKeys \in FilesOf(s) =>
          /\ s.op \in {"save", "swap", "put"} /\ s.src \subseteq {ApiKeys}
          /\ \A x \in Items : Key(x) \in s.add => IsRequest(c) /\ <<c[1], c[2], c[5]>> = <<"apiKeys", "POST", x>>

-----------------------------------------------------------------------------
(* Steps that stand together in the tables: a process at one of them comes *)
(* to the last, unless something fails.                                    *)

Plain(s) == s.has = {} /\ s.lacks = {} /\ s.next = 1

\* No way leads to a step after l, up to n, but through l.
OnlyThrough(prog, l, n) == \A k \in 1..l - 1 : \A t \in Jumps(prog, k) : t \notin l + 1..n

\* A failure of step k is not covered up by a later step that writes f anyway.
Abandons(prog, k, f) ==
  \/ prog[k].catch = 0
  \/ k + prog[k].catch \in 1..Len(prog) + 1 /\ f \notin Surely(prog, k + prog[k].catch)

\* Steps i and i + 1 read f, whatever it holds, and write it back.
Edits(prog, i, f) ==
  /\ {i, i + 1} \subseteq DOMAIN prog /\ Plain(prog[i]) /\ Plain(prog[i + 1])
  /\ prog[i].op = "read" /\ prog[i].f = f /\ prog[i].need = {} /\ prog[i].bar = {}
  /\ prog[i + 1].op = "save" /\ prog[i + 1].f = f /\ WritesBack(prog[i + 1]) /\ Abandons(prog, i + 1, f)

\* Step i records that a job has started, step e that it has ended.
Finishes(prog, i, e, f) ==
  /\ e \in DOMAIN prog /\ i + 1 < e
  /\ \A k \in i + 1..e : Plain(prog[k]) /\ (Abandons(prog, k, f) \/ k + prog[k].catch \in k + 1..e)
  /\ \A k \in i + 1..e - 2 : prog[k].op \in WriteOps \cup {"run"} /\ f \notin FilesOf(prog[k])
  /\ prog[e - 1].op \in Reading /\ prog[e - 1].f = f
  /\ prog[e].op = "save" /\ prog[e].f = f /\ WritesBack(prog[e]) /\ JobStarted \in prog[e].del \ prog[e].add

ASSUME JobsAssumption ==
  \A c \in Command, x \in Items : \A i \in DOMAIN Program[c] :
    LET s == Program[c][i]
    IN  s.op \in WriteOps /\ Job(x) \in FilesOf(s) =>
          /\ s.op = "save"
          /\ \/ WritesBack(s) /\ JobStarted \in s.del \ s.add
             \/ s.src = {} /\ s.next = 1 /\ \E e \in DOMAIN Program[c] : Finishes(Program[c], i, e, Job(x))

\* Step i sends the alert of d when the copy of what was sent lacks it; the next
\* step saves that it was.
Reports(prog, i, d) ==
  /\ {i, i + 1} \subseteq DOMAIN prog
  /\ prog[i].op = "put" /\ prog[i].f = Apns /\ prog[i].del = {} /\ prog[i].next = 1
  /\ \E by \in Sessions \cup {Host} : prog[i].add = {<<"alert", d, by>>}
  /\ prog[i + 1].op = "save" /\ prog[i + 1].f = AlertState /\ WritesBack(prog[i + 1]) /\ Sent(d) \in prog[i + 1].add
  /\ \A k \in {i, i + 1} : prog[k].has = {} /\ prog[k].lacks = {<<AlertState, Sent(d)>>}

ASSUME AlertsAssumption ==
  \A c \in Command : \A i \in DOMAIN Program[c] :
    LET s == Program[c][i]
    IN  s.op \in WriteOps =>
          /\ Apns \in FilesOf(s) => \E d \in Domains : Reports(Program[c], i, d)
          /\ AlertState \in FilesOf(s) => s.op = "save" /\ WritesBack(s) /\ s.del = {}

\* What says that u has signed out; after step i it is written, or a new token.
SignedOff(u) == {LoggedOut(u)} \cup {Jti(s) : s \in {r \in Sessions : UserOf[r] = u}}
SignsOut(prog, i, u) == Edits(prog, i + 1, Revocations) /\ prog[i + 2].add \cap SignedOff(u) # {}
Replaces(prog, i, u) == Edits(prog, i + 1, Tokens) /\ prog[i + 2].add \cap TokensOf(u) # {}

ASSUME TokensAssumption ==
  \A c \in Command : \A i \in DOMAIN Program[c] :
    LET s == Program[c][i]
    IN  s.op \in WriteOps =>
          /\ Revocations \in FilesOf(s) => s.op = "save" /\ WritesBack(s) /\ s.del = {}
          /\ Tokens \in FilesOf(s) =>
               /\ s.op = "save" /\ WritesBack(s)
               /\ \A u \in Items : s.del \cap TokensOf(u) # {} =>
                    s.next = 1 /\ (SignsOut(Program[c], i, u) \/ Replaces(Program[c], i, u))

\* Step l asks for a token of u, the next takes it off the file, and step l + 3
\* writes the one that comes for it.
Exchanges(prog, l, u) ==
  /\ l..l + 3 \subseteq DOMAIN prog /\ OnlyThrough(prog, l, l + 3)
  /\ Plain(prog[l]) /\ prog[l].op \in Reading /\ prog[l].f = Tokens /\ (prog[l].catch = 0 \/ prog[l].catch > 3)
  /\ Plain(prog[l + 1]) /\ prog[l + 1].op = "save" /\ prog[l + 1].f = Tokens /\ WritesBack(prog[l + 1])
  /\ prog[l + 1].catch = 0 \/ prog[l + 1].catch > 2
  /\ prog[l + 1].add = {} /\ prog[l].need \cap prog[l + 1].del \cap TokensOf(u) # {}
  /\ Edits(prog, l + 2, Tokens) /\ \E t \in TokensOf(u) : prog[l + 3].add = {t}

\* The users whose tokens only come for one that goes: nobody signs in as them.
Exchanged ==
  {u \in Items :
     \A c \in Command : \A i \in DOMAIN Program[c] :
       LET s == Program[c][i]
       IN  s.op \in WriteOps /\ Tokens \in FilesOf(s) /\ s.add \cap TokensOf(u) # {} =>
             \E l \in DOMAIN Program[c] : i = l + 3 /\ Exchanges(Program[c], l, u)}

KeysIn(S) == {x \in Items : KeyHint(x) \in S}
FeaturesIn(S) == {x \in Items : Features(x) \in S}

\* Step i puts a license on file or takes it off; the next two bring the
\* environment in line.
Installs(prog, i) ==
  /\ i \in DOMAIN prog /\ Plain(prog[i]) /\ OnlyThrough(prog, i, i + 2) /\ Abandons(prog, i, License)
  /\ \A x, y \in KeysIn(prog[i].add) : x = y
  /\ \/ prog[i].op = "save" /\ prog[i].f = License /\ prog[i].src = {}
     \/ prog[i].op = "wipe" /\ License \in prog[i].src /\ prog[i].add = {}
  /\ Edits(prog, i + 1, EnvFile) /\ FeaturesIn(prog[i + 2].add) = KeysIn(prog[i].add)
  /\ Items \subseteq FeaturesIn(prog[i + 2].del) \cup KeysIn(prog[i].add)

\* Step i gives the environment the features of the license as step j wrote it.
Refreshes(prog, j, i) ==
  /\ j \in 1..i - 1 /\ OnlyThrough(prog, j, i) /\ Plain(prog[j])
  /\ prog[j].op = "save" /\ prog[j].f = License /\ WritesBack(prog[j])
  /\ prog[j].catch = 0 \/ prog[j].catch > i - j
  /\ \A k \in j + 1..i - 1 : License \notin FilesOf(prog[k])
  /\ \E x \in Items : FeaturesIn(prog[i].add) = {x} /\ <<License, KeyHint(x)>> \in prog[i].has

ASSUME LicenseAssumption ==
  /\ \A x, y \in Present : x = y
  /\ \A c \in Command : \A i \in DOMAIN Program[c] :
       LET s == Program[c][i]
       IN  s.op \in WriteOps =>
             /\ License \in FilesOf(s) =>
                  \/ Installs(Program[c], i)
                  \/ s.op = "save" /\ WritesBack(s) /\ KeysIn(s.add \cup s.del) = {}
             /\ EnvFile \in FilesOf(s) =>
                  /\ s.op = "save" /\ WritesBack(s)
                  /\ \/ FeaturesIn(s.add \cup s.del) = {}
                     \/ \E j \in DOMAIN Program[c] : i = j + 2 /\ Installs(Program[c], j)
                     \/ \E j \in DOMAIN Program[c] : Refreshes(Program[c], j, i)

-----------------------------------------------------------------------------
\* A client's request changes nothing of a domain of another client, nothing of
\* the administrator's but the id of the installation, which the first request
\* writes, and of the accounts only its own, unless another process writes the
\* accounts at the same time.  Another client's domain is one of another unix
\* user: domains of one user share pool, crontab and home.
EffectsAreGated ==
  [][\A h \in Helpers : Acts(h) /\ OfClient(h) =>
       \A f \in FilesOf(Step(h)) : disk'[f] # disk[f] =>
          /\ f \notin AdminFiles \ {PushTokens, InstanceId}
          /\ f[2] \in Domains => f[2] \in Mine(SessionOf(h))
          /\ f = UsersJson => \A x \in (disk[f] \ disk'[f]) \cup (disk'[f] \ disk[f]) :
                                 x[1] = UserOf[SessionOf(h)] \/ f \in crossed]_vars

\* A request that starts once its user's logout is on file changes nothing,
\* unless two requests ever used the revocations at the same time: one of them
\* may have saved the logout away, or have shown the file half written.
NoEffectAfterLogout ==
  [][\A h \in Helpers : Acts(h) /\ OfSession(h) /\ run[h].out =>
       disk' = disk \/ Revocations \in crossed]_vars

\* However many devices present a refresh token, at the same time or after one of
\* them died, it is exchanged for one new token: a user nobody signs in as has one
\* at most.  Excepted is a file that is half written, or whose last writer failed
\* or was killed before it wrote, or wrote back a copy another one had changed.
RefreshTokenOnce ==
  Whole(Tokens) => \A u \in Exchanged : Cardinality(TokensOf(u) \cap disk[Tokens]) <= 1

\* When no request is at work, a user who has not signed out holds a refresh
\* token, although the exchange removes the old one before it saves the new one:
\* whatever overlaps and whatever fails, but for a request that failed or was
\* killed between the two writes, or wrote back a copy another one had changed.
StaysSignedIn ==
  Quiet /\ Whole(Tokens) /\ Whole(Revocations) =>
    \A u \in Items : TokensOf(u) \cap disk[Tokens] # {} \/ SignedOff(u) \cap disk[Revocations] # {}

\* Whatever administrators delete at the same time, one of them is left.
AnAdminRemains == \E u \in Items : Admin(u) \in disk[UsersJson]

\* When no request is at work, the environment grants the features of the
\* license on file, and none without a license, whatever failed before; excepted
\* are two requests that used the license at the same time, and a request that
\* failed or was killed between the license and the environment, or wrote back an
\* environment another one had changed.
EnvFollowsLicense ==
  Quiet /\ Whole(License) /\ Whole(EnvFile) /\ License \notin crossed =>
    \A x \in Items : Features(x) \in disk[EnvFile] <=> KeyHint(x) \in disk[License]

\* A domain's alert is sent once, whoever evaluates it, unless two evaluations
\* overlap or one was stopped before it saved what it had sent.
AlertSentOnce ==
  \/ AlertState \in crossed \/ trouble > 0
  \/ \A d \in Domains : Cardinality({t \in disk[Apns] : t[2] = d}) <= 1

\* When no request is at work, no job's file says that it runs, whatever
\* overlapped or failed while it ran: excepted is a job whose own process was
\* killed, or could not write that it had ended.
JobsEnd ==
  Quiet => \A f \in {Job(x) : x \in Items} \cap Files : Whole(f) => JobStarted \notin disk[f]

\* A revoked key comes back only when it is created again, unless two requests
\* ever used the keys at the same time: a use that read the key before it was
\* revoked saves it back.
RevokedStaysRevoked ==
  [][\A x \in Items, h \in Helpers :
       Acts(h) /\ Key(x) \notin disk[ApiKeys] /\ Key(x) \in disk'[ApiKeys] =>
         ApiKeys \in crossed \/ <<run[h].cmd[1], run[h].cmd[2], run[h].cmd[5]>> = <<"apiKeys", "POST", x>>]_vars

\* The undo of an activation takes away the license it is about and no other.
\* lib/journal/undo.ts:206-208 says that a stale undo cannot clobber a license
\* that a later activation put in its place; the code compares the key, then
\* removes whatever the file holds by then.
UndoKeepsNewer ==
  [][\A h \in Helpers : Acts(h) /\ run[h].cmd[1] = "journalUndo" =>
       \A x \in Items \ {run[h].cmd[5]} : KeyHint(x) \in disk[License] => KeyHint(x) \in disk'[License]]_vars
=============================================================================
