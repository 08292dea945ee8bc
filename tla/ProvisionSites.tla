--------------------------- MODULE ProvisionSites ---------------------------
(***************************************************************************)
(* The commands that shape a web site: redirects, proxies, protected       *)
(* directories, PHP, TLS, ModSecurity, FTP accounts, runtimes, installed   *)
(* scripts.  Each definition is one exported function of scripts/lib, as   *)
(* its sequence of steps.                                                  *)
(***************************************************************************)
EXTENDS Steps

Redirects(d) == Cfg("redirects.json", d)
Proxies(d) == Cfg("proxies.json", d)
Website(d) == Cfg("website.json", d)
Php(d) == Cfg("php.json", d)
Modsecurity(d) == Cfg("modsecurity.json", d)
Runtimes(d) == Cfg("runtimes.json", d)
Scripts(d) == Cfg("scripts.json", d)
Ftp(d) == Cfg("ftp.json", d)
Cert(d) == Cfg("letsencrypt", d)
Pool(d) == Cfg("php-fpm pool", Owner[d])
Public(d) == Cfg("public_html", Owner[d])
Folder(d) == Cfg("public_html/app", Owner[d])
Snapshot(d) == Cfg("script-snapshots", d)

\* website.json with mode = "static": no PHP pool.
Static == <<"mode", "static">>

\* What the vhost of a domain is computed from.
VhostSources(d) == {Redirects(d), Proxies(d), Website(d), Modsecurity(d), Cert(d)}

\* apply-domain-nginx.sh: needs the unix user; a pool or a certificate that
\* fails is passed over; the site is linked again whatever the registry says.
ApplyDomainNginx(d, issueSsl) == Script(
    Look(Passwd, {User(d)}, {})
    \o Read(Website(d))
    \o Unless(Caught(Render(Pool(d), {Php(d)})), Website(d), Static)
    \o (IF issueSsl THEN Caught(Outside(Cert(d), {Row(d)}, {})) ELSE <<>>)
    \o Render(Conf(d), VhostSources(d))
    \o Outside(Linked, {Row(d)}, {})
    \o Reload)

ApplyNginx(d) == ApplyDomainNginx(d, FALSE)

\* Mutant: a path that is taken is noticed after the list is saved.
RedirectCreate_ChecksLast(d, p) ==
  Resolve(d) \o Edit(Redirects(d), {p}, {}) \o Look(Redirects(d), {}, {p}) \o ApplyNginx(d)

RedirectCreate(d, p) ==
  Resolve(d) \o AddNew(Redirects(d), p) \o ApplyNginx(d)

RedirectDelete(d, p) == Resolve(d) \o Edit(Redirects(d), {}, {p}) \o ApplyNginx(d)

ProxyCreate(d, p) ==
  Resolve(d) \o AddNew(Proxies(d), p) \o ApplyNginx(d)

ProxyDelete(d, p) == Resolve(d) \o Edit(Proxies(d), {}, {p}) \o ApplyNginx(d)

WriteWebsiteConfig(d) == Rewrite(Website(d), {Static})

\* A vhost of an older installation, moved over.
MigrateOne(d) == WriteWebsiteConfig(d) \o ApplyNginx(d)

-----------------------------------------------------------------------------
Protected(d) == Cfg("protected.json", d)
Htaccess(d) == Cfg(".htaccess", Owner[d])
Htpasswd(d) == Cfg(".htpasswd", Owner[d])

\* A directory is listed first; its .htaccess is written if it has none.
ProtectedCreate(d, dir) ==
  Resolve(d)
  \o Read(Protected(d)) \o Unless(Save(Protected(d), {dir}, {}), Protected(d), dir)
  \o Read(Htaccess(d)) \o Unless(Save(Htaccess(d), {dir}, {}), Htaccess(d), dir)

\* Only the list: the .htaccess stays.
ProtectedDelete(d, dir) == Edit(Protected(d), {}, {dir})

ProtectedUserCreate(d, user) == Resolve(d) \o Outside(Htpasswd(d), {user}, {}) \o Caught(Try)
ProtectedUserDelete(d, user) == Resolve(d) \o Outside(Htpasswd(d), {}, {user})

-----------------------------------------------------------------------------
\* Pool and vhost, each passed over when it fails.
SyncPhpFpmAndNginx(d) ==
  Resolve(d) \o Caught(Render(Pool(d), {Php(d)})) \o Caught(ApplyNginx(d))

\* A directory gets a version, which becomes the default of the domain.
Default(v) == <<"defaultVersion", v>>
PhpSetDirectory(d, dir) ==
  Resolve(d) \o Edit(Php(d), {dir, Default(dir)}, {Default(v) : v \in Items})
  \o SyncPhpFpmAndNginx(d)

PhpModifyIni(d, key) ==
  Resolve(d) \o Edit(Cfg(".user.ini", Owner[d]), {key}, {}) \o Try \o SyncPhpFpmAndNginx(d)

\* Pool and vhost are left as they are.
PhpDeleteDirectory(d, dir) == Look(Php(d), {dir}, {}) \o Save(Php(d), {}, {dir})

\* The setting is on file before the domain is looked up.
ModsecurityToggle(d, on) ==
  Rewrite(Modsecurity(d), {on}) \o Rewrite(Cfg("modsecurity-nginx.conf", d), {on})
  \o Resolve(d) \o Caught(ApplyNginx(d))

ModsecurityOff(d) == Rewrite(Modsecurity(d), {}) \o Resolve(d) \o Caught(ApplyNginx(d))

SslIssue(d) == Resolve(d) \o ApplyDomainNginx(d, TRUE)

-----------------------------------------------------------------------------
\* useradd unless the user is there; the record comes last.
FtpCreate(d, u) ==
  Resolve(d)
  \o Read(Passwd) \o Unless(Outside(Passwd, {u}, {}), Passwd, u)
  \o Look(Passwd, {u}, {})
  \o Read(Ftp(d)) \o Unless(Save(Ftp(d), {u}, {}), Ftp(d), u)
  \o Try

\* Mutant: the record of a user that is gone stays.
FtpDelete_KeepsRecord(d, u) ==
  Resolve(d) \o Read(Passwd) \o When(Outside(Passwd, {}, {u}), Passwd, u)

\* The record goes first, then the user.
FtpDelete(d, u) ==
  Resolve(d) \o Edit(Ftp(d), {}, {u})
  \o Read(Passwd) \o When(Outside(Passwd, {}, {u}), Passwd, u)

FtpPass(d, u) == Look(Passwd, {u}, {}) \o Try

-----------------------------------------------------------------------------
Units == Sys("systemd units")
Containers == Sys("docker containers")
Compose(d) == Cfg("docker-compose.yml", Owner[d])

UpsertProxy(d, p) == Resolve(d) \o Edit(Proxies(d), {p}, {}) \o ApplyNginx(d)

\* Unit, proxy, record: the record is the last of the three.
RuntimesNodeInstall(d, app) ==
  Resolve(d) \o Outside(Units, {app}, {}) \o Try
  \o UpsertProxy(d, app) \o Edit(Runtimes(d), {app}, {})

RuntimesPythonInstall(d, app) ==
  Resolve(d) \o Outside(Units, {app}, {}) \o Try
  \o UpsertProxy(d, Row(d)) \o Edit(Runtimes(d), {app}, {})

\* The compose file stays; "stop" takes the container down.
RuntimesDockerInstall(d, app) ==
  Resolve(d) \o Outside(Compose(d), {app}, {}) \o Outside(Containers, {app}, {})
  \o Edit(Runtimes(d), {app}, {})

RuntimesDockerAction(d, app, add, del) == Resolve(d) \o Outside(Containers, add, del)
RuntimesDockerStart(d, app) == RuntimesDockerAction(d, app, {app}, {})
RuntimesDockerStop(d, app) == RuntimesDockerAction(d, app, {}, {app})

\* The files are downloaded once; wp-config.php is written every time.
Wordpress == <<"app", "wordpress">>
WordpressConf(d) == Cfg("wp-config.php", Owner[d])
AppInstallWordpress(d, db) ==
  Resolve(d)
  \o Read(Public(d)) \o Unless(Outside(Public(d), {Wordpress}, {}), Public(d), Wordpress)
  \o Rewrite(WordpressConf(d), {Wordpress, db}) \o Try

-----------------------------------------------------------------------------
\* The snapshot holds the install path only; the path wiped is the one of the
\* record, or public_html when there is no record.
ScriptRollback(d, x) ==
  LET recorded == When(Wipe({Folder(d)}), Scripts(d), x)
      unknown == Unless(Wipe({Public(d), Folder(d)}), Scripts(d), x)
  IN  Resolve(d) \o Read(Scripts(d)) \o recorded \o unknown \o Copy(Snapshot(d), Folder(d)) \o Try

\* Into a folder of public_html; a failed installer is rolled back.
ScriptInstall(d, x) ==
  Resolve(d) \o Copy(Folder(d), Snapshot(d))
  \o Handled(Outside(Folder(d), {x}, {}), Caught(ScriptRollback(d, x)))
  \o Edit(Scripts(d), {x}, {})

ScriptDelete(d, x) == Resolve(d) \o Edit(Scripts(d), {}, {x})

-----------------------------------------------------------------------------
RedirectCommands ==
  ForItem("redirect-create", RedirectCreate) @@ ForItem("redirect-delete", RedirectDelete)

PhpCommands ==
  ForItem("php-set-directory", PhpSetDirectory) @@ ForItem("php-modify-ini", PhpModifyIni)
  @@ ForItem("php-delete-directory", PhpDeleteDirectory)

FtpCommands ==
  ForItem("ftp-create", FtpCreate) @@ ForItem("ftp-delete", FtpDelete)
  @@ ForItem("ftp-pass", FtpPass)

ProtectedCommands ==
  ForItem("protected-create", ProtectedCreate) @@ ForItem("protected-delete", ProtectedDelete)
  @@ ForItem("protected-user-create", ProtectedUserCreate)
  @@ ForItem("protected-user-delete", ProtectedUserDelete)

ProxyAndScriptCommands ==
  ForItem("proxy-create", ProxyCreate) @@ ForItem("proxy-delete", ProxyDelete)
  @@ ForItem("script-install", ScriptInstall) @@ ForItem("script-delete", ScriptDelete)
  @@ ForItem("script-rollback", ScriptRollback)

RuntimeCommands ==
  ForItem("runtimes-node-install", RuntimesNodeInstall)
  @@ ForItem("runtimes-python-install", RuntimesPythonInstall)
  @@ ForItem("runtimes-docker-install", RuntimesDockerInstall)
  @@ ForItem("runtimes-docker-start", RuntimesDockerStart)
  @@ ForItem("runtimes-docker-stop", RuntimesDockerStop)
  @@ ForItem("app-install-wordpress", AppInstallWordpress)

TlsCommands ==
  ForDomain("ssl-issue", SslIssue) @@ ForItem("modsecurity-toggle", ModsecurityToggle)
  @@ ForDomain("modsecurity-off", ModsecurityOff)
  @@ ForDomain("migrate-legacy-domain-nginx", MigrateOne)

SiteCommands ==
  RedirectCommands @@ PhpCommands @@ FtpCommands @@ ProtectedCommands
  @@ ProxyAndScriptCommands @@ RuntimeCommands @@ TlsCommands
=============================================================================
