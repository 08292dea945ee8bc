------------------------------- MODULE MCPanel -------------------------------
(* Two processes; d1 is the client's, d2 somebody else's, d3 a sub-domain of *)
(* d1 to be created.  s1 and s3 are administrators a and c, s2 is client b.   *)
EXTENDS Panel

CONSTANTS d1, d2, d3, a, b, c, s1, s2, s3, h1, h2

OwnerDef == [d \in Domains |-> IF d = d3 THEN d1 ELSE d]
DestDef == [x \in Items |-> b]
UserDef == [s \in Sessions |-> CASE s = s1 -> a [] s = s2 -> b [] OTHER -> c]
ClaimsDef == [s \in Sessions |-> IF s = s2 THEN {d1} ELSE {}]

Requests(s, d, x) ==
  LET pages == Pages(s, d, x)
  IN  UNION {{<<r, m, s, d, x>> : m \in DOMAIN pages[r]} : r \in DOMAIN pages}

\* Every request once: an administrator's for a and for b, on the sub-domain to
\* be created; a client's on its own domain and on another's.
EveryRequest ==
  Requests(s1, d1, a) \cup Requests(s1, d1, b) \cup Requests(s1, d3, b)
  \cup Requests(s2, d1, b) \cup Requests(s2, d2, a)

\* The requests that use the panel's own files, of two administrators and a
\* client.
AccountRequests ==
  {<<"logout", "POST", s, d1, a>> : s \in {s1, s2}}
  \cup {<<"totp", "POST enable", s, d1, a>> : s \in {s1, s2}}
  \cup {<<"refresh", "POST", s, d1, a>> : s \in {s1, s3}}
  \cup {<<"mobileLogin", "POST", s2, d1, b>>}
  \cup {<<"mobileLogout", m, s1, d1, a>> : m \in {"POST", "POST allDevices"}}
  \cup {<<"admins", "DELETE", s1, d1, c>>, <<"admins", "DELETE", s3, d1, a>>, <<"panelClient", "POST upsert-client", s1, d1, b>>}

StoreRequests ==
  {<<"apiKeys", m, s1, d1, a>> : m \in {"POST", "DELETE"}}
  \cup {<<"apiKeys", "DELETE", s1, d1, b>>, <<"v1Plans", "GET", s1, d1, a>>}
  \cup {<<"license", m, s1, d1, b>> : m \in {"POST activate", "POST deactivate", "POST heartbeat"}}
  \cup {<<"heartbeat", m, s1, d1, a>> : m \in {"tick", "tick expired", "tick revoked"}}
  \cup {<<"journalUndo", "POST", s1, d1, a>>}
  \cup {<<"pushTick", "tick", s1, d1, a>>, <<"alerts", "POST mobile-push", s1, d1, a>>}
  \cup {<<"updatesLinux", "POST upgrade", s1, d1, b>>, <<"updatesQadbak", "POST upgrade", s1, d1, b>>}
  \cup {<<"privacy", "POST", s1, d1, a>>, <<"nodes", "POST", s1, d1, b>>}

AccessRequests == AccountRequests \cup StoreRequests

\* Only b signs in: the others' tokens come for one that goes.
ASSUME ExchangeAssumption == Asked = AccessRequests => Exchanged = Items \ {b}

\* The undo of an activation, and a newer activation.
UndoRequests == {<<"journalUndo", "POST", s1, d1, a>>, <<"license", "POST activate", s3, d1, b>>}

ProgramDef == LET programs == ProgramsAsked IN programs

Interchangeable == Permutations(Helpers)

\* A request started while another is at work ends before that one goes on.
Nested ==
  \A g, h \in Helpers :
    Running(g) /\ Running(h) /\ run[g].nr < run[h].nr =>
      run'[g].pc = run[g].pc /\ (run[g].open = "no" => run'[g].open = "no")
=============================================================================
