----------------------------- MODULE AgentAuth -----------------------------
(***************************************************************************)
(* The agent's token store (src/agent/internal/auth) behind its HTTP       *)
(* handlers: pairing codes, refresh tokens and action confirmations, in    *)
(* three JSON files that one mutex guards.                                 *)
(*                                                                         *)
(* Handlers run concurrently.  A store operation locks, reads its file,    *)
(* changes the content in memory and writes the file back.  os.WriteFile   *)
(* truncates before it writes, so a crash or a full disk in between leaves *)
(* a file that no longer parses.                                           *)
(***************************************************************************)
EXTENDS Integers, FiniteSets

CONSTANTS
  Conns,          \* requests that may be served at once
  Codes,          \* pairing codes, as randomToken makes them
  Refreshes,      \* refresh tokens
  Confirms,       \* jti of confirmation tokens
  Expiring,       \* tokens whose time may run out while the model runs
  MaxRequests,    \* bound on requests
  MaxCrashes,     \* bound on restarts of the agent
  MaxDiskFaults,  \* bound on writes the disk refuses
  None

ASSUME PoolAssumption ==
  /\ Codes \cap Refreshes = {} /\ Codes \cap Confirms = {}
  /\ Refreshes \cap Confirms = {}
  /\ None \notin Codes \cup Refreshes \cup Confirms \cup Conns
ASSUME BoundAssumption ==
  MaxRequests \in Nat /\ MaxCrashes \in Nat /\ MaxDiskFaults \in Nat

Tokens == Codes \cup Refreshes \cup Confirms

VARIABLES
  disk,       \* token -> its record in its file
  torn,       \* files that do not parse
  mu,         \* who holds Store.mu
  req,        \* connection -> progress of its handler
  expired,    \* tokens past their ExpiresAt
  chain,      \* refresh token -> the pairing code it descends from (history)
  lived,      \* tokens that were ever saved (history)
  known,      \* tokens whose answer reached the client (history)
  uses,       \* token -> times it was accepted (history)
  performed,  \* confirmation -> times its action was started (history)
  ended,      \* codes whose session was revoked and answered so (history)
  trouble,    \* a crash, a refused write or a lost answer (history)
  requests, crashes, diskFaults

store   == <<disk, torn, mu>>
history == <<chain, lived, known, uses, performed, ended, trouble>>
bounds  == <<requests, crashes, diskFaults>>
vars    == <<store, req, expired, history, bounds>>

Files  == {"pairing", "refresh", "jti"}
FileOf(t) == IF t \in Codes THEN "pairing"
             ELSE IF t \in Refreshes THEN "refresh" ELSE "jti"

Records == [Tokens -> {"absent", "live", "revoked"}]
Nothing == [t \in Tokens |-> "absent"]

Commands == {"init", "complete", "rotate", "revoke", "confirm", "act"}

ASSUME NoneAssumption == None \notin Commands

\* The file a command's write goes to.
FileFor(cmd) == IF cmd = "init" THEN "pairing"
                ELSE IF cmd \in {"confirm", "act"} THEN "jti" ELSE "refresh"

\* mem is what the handler read under the lock; of "init", which reads nothing,
\* what it is about to replace.
Request == [pc : {"idle", "lock", "session", "open", "fill", "act"},
            cmd : Commands \cup {None}, arg : Tokens \cup {None}, mem : Records]

Idle == [pc |-> "idle", cmd |-> None, arg |-> None, mem |-> Nothing]

TypeOK ==
  /\ disk \in Records
  /\ torn \subseteq Files
  /\ mu \in Conns \cup {None}
  /\ req \in [Conns -> Request]
  /\ expired \subseteq Expiring
  /\ chain \in [Refreshes -> Codes \cup {None}]
  /\ lived \subseteq Tokens /\ known \subseteq Tokens
  /\ uses \in [Tokens -> Nat]
  /\ performed \in [Confirms -> Nat]
  /\ ended \subseteq Codes
  /\ trouble \in BOOLEAN
  /\ requests \in 0..MaxRequests
  /\ crashes \in 0..MaxCrashes /\ diskFaults \in 0..MaxDiskFaults

Init ==
  /\ disk = Nothing /\ torn = {} /\ mu = None
  /\ req = [r \in Conns |-> Idle]
  /\ expired = {}
  /\ chain = [t \in Refreshes |-> None]
  /\ lived = {} /\ known = {}
  /\ uses = [t \in Tokens |-> 0]
  /\ performed = [k \in Confirms |-> 0]
  /\ ended = {} /\ trouble = FALSE
  /\ requests = 0 /\ crashes = 0 /\ diskFaults = 0

-----------------------------------------------------------------------------
(* Requests *)

Goes(r, pc) == req' = [req EXCEPT ![r].pc = pc]
Answers(r)  == req' = [req EXCEPT ![r] = Idle]

\* randomToken never repeats itself; the pools are large enough for the requests
\* under way.
Fresh(pool) == pool \ lived

Spare(pool, cmds) ==
  Cardinality({r \in Conns : req[r].cmd \in cmds}) < Cardinality(Fresh(pool))

\* Which requests a client can make: with tokens it was given, and the access
\* token of a session it had where the route asks for one.
MayAsk(cmd, arg) ==
  LET paired == known \cap Refreshes # {}
  IN  CASE cmd = "init"     -> arg = None /\ Spare(Codes, {"init"})
        [] cmd = "complete" -> /\ arg \in known \cap Codes
                               /\ Spare(Refreshes, {"complete", "rotate"})
        [] cmd = "rotate"   -> /\ arg \in known \cap Refreshes
                               /\ Spare(Refreshes, {"complete", "rotate"})
        [] cmd = "revoke"   -> arg \in known \cap Refreshes
        [] cmd = "confirm"  -> paired /\ arg = None /\ Spare(Confirms, {"confirm"})
        [] cmd = "act"      -> arg \in known \cap Confirms /\ arg \notin expired

Arrive(r, cmd, arg) ==
  /\ req[r].pc = "idle" /\ mu # r
  /\ requests < MaxRequests
  /\ MayAsk(cmd, arg)
  /\ requests' = requests + 1
  /\ req' = [req EXCEPT ![r] = [pc |-> "lock", cmd |-> cmd, arg |-> arg,
                                mem |-> Nothing]]
  /\ UNCHANGED <<store, expired, history, crashes, diskFaults>>

\* Mutant: no mutex.
Unlocked_Always == TRUE

Unlocked == mu = None

-----------------------------------------------------------------------------
(* Lock and load *)

\* Mutant: revoking a token that is not on file is taken for done.
Accepts_UnknownRevoked(r) ==
  LET q == req[r]
  IN  /\ q.cmd # "init" => FileFor(q.cmd) \notin torn
      /\ q.cmd = "rotate" => disk[q.arg] = "live" /\ q.arg \notin expired
      /\ q.cmd = "act" => disk[q.arg] # "absent"

\* The checks a handler makes on what it has read, before it writes.
Accepts(r) ==
  LET q == req[r]
  IN  /\ q.cmd # "init" => FileFor(q.cmd) \notin torn
      /\ q.cmd = "rotate" => disk[q.arg] = "live" /\ q.arg \notin expired
      /\ q.cmd \in {"revoke", "act"} => disk[q.arg] # "absent"

\* Mutant: a handler that is refused tries again.
Load_Retries(r) ==
  /\ req[r].pc = "lock" /\ req[r].cmd # "complete"
  /\ Unlocked
  /\ Accepts(r)
  /\ mu' = r
  /\ req' = [req EXCEPT ![r].pc = "open", ![r].mem = disk]
  /\ UNCHANGED <<disk, torn, expired, history, bounds>>

\* s.mu.Lock, load, check: on to the write, or unlock and refuse.
Load(r) ==
  /\ req[r].pc = "lock" /\ req[r].cmd # "complete"
  /\ Unlocked
  /\ \/ /\ Accepts(r)
        /\ mu' = r
        /\ req' = [req EXCEPT ![r].pc = "open", ![r].mem = disk]
     \/ /\ ~Accepts(r)
        /\ Answers(r)
        /\ UNCHANGED mu
  /\ UNCHANGED <<disk, torn, expired, history, bounds>>

\* Mutant: the code stays in its file.
ConsumePairingToken_Kept(r) ==
  LET c == req[r].arg
  IN  /\ req[r].pc = "lock" /\ req[r].cmd = "complete"
      /\ Unlocked
      /\ \/ /\ "pairing" \notin torn /\ disk[c] = "live" /\ c \notin expired
            /\ uses' = [uses EXCEPT ![c] = @ + 1]
            /\ Goes(r, "session")
         \/ /\ ~("pairing" \notin torn /\ disk[c] = "live" /\ c \notin expired)
            /\ Answers(r)
            /\ UNCHANGED uses
      /\ UNCHANGED <<store, expired, chain, lived, known, performed, ended,
                     trouble, bounds>>

\* The whole of it under the lock; removing the file is one system call.  A code
\* that is not the one in the file is refused; an expired file is removed.
ConsumePairingToken(r) ==
  LET c == req[r].arg
      parses == "pairing" \notin torn
      stale == \E x \in Codes : disk[x] = "live" /\ x \in expired
  IN  /\ req[r].pc = "lock" /\ req[r].cmd = "complete"
      /\ Unlocked
      /\ \/ /\ parses /\ disk[c] = "live" /\ c \notin expired
            /\ disk' = [disk EXCEPT ![c] = "absent"]
            /\ uses' = [uses EXCEPT ![c] = @ + 1]
            /\ Goes(r, "session")
         \/ /\ ~(parses /\ disk[c] = "live" /\ c \notin expired)
            /\ disk' = IF parses /\ stale
                         THEN [t \in Tokens |-> IF t \in Codes THEN "absent" ELSE disk[t]]
                         ELSE disk
            /\ Answers(r)
            /\ UNCHANGED uses
      /\ UNCHANGED <<torn, mu, expired, chain, lived, known, performed, ended,
                     trouble, bounds>>

\* CreateSession locks again and ignores the error of the load: on a file that
\* does not parse it assigns to a nil map, and the panic leaves the mutex locked
\* behind the answer of withRecovery.
CreateSession(r) ==
  /\ req[r].pc = "session"
  /\ Unlocked
  /\ mu' = r
  /\ \/ /\ "refresh" \notin torn
        /\ req' = [req EXCEPT ![r].pc = "open", ![r].mem = disk]
     \/ /\ "refresh" \in torn
        /\ Answers(r)
  /\ UNCHANGED <<disk, torn, expired, history, bounds>>

-----------------------------------------------------------------------------
(* os.WriteFile *)

Truncate(r) ==
  /\ req[r].pc = "open"
  /\ torn' = torn \cup {FileFor(req[r].cmd)}
  /\ disk' = [t \in Tokens |-> IF FileOf(t) = FileFor(req[r].cmd) THEN "absent"
                                                                  ELSE disk[t]]
  /\ Goes(r, "fill")
  /\ UNCHANGED <<mu, expired, history, bounds>>

\* Mutant: the error return leaves the mutex locked.
DiskFault_KeepsLock(r) ==
  /\ req[r].pc \in {"open", "fill"}
  /\ diskFaults < MaxDiskFaults
  /\ diskFaults' = diskFaults + 1
  /\ trouble' = TRUE
  /\ Answers(r)
  /\ UNCHANGED <<store, expired, chain, lived, known, uses, performed, ended,
                 requests, crashes>>

\* The file cannot be opened, or the content does not fit: the handler answers
\* with an error, and what was truncated stays so.
DiskFault(r) ==
  /\ req[r].pc \in {"open", "fill"}
  /\ diskFaults < MaxDiskFaults
  /\ diskFaults' = diskFaults + 1
  /\ trouble' = TRUE
  /\ mu' = None
  /\ Answers(r)
  /\ UNCHANGED <<disk, torn, expired, chain, lived, known, uses, performed,
                 ended, requests, crashes>>

\* The content is written, with token `new` added, those in `out` deleted and
\* those in `dead` marked revoked; the lock is released.
Save(r, new, out, dead) ==
  LET f == FileFor(req[r].cmd)
  IN  /\ disk' = [t \in Tokens |->
                    IF FileOf(t) # f THEN disk[t]
                    ELSE IF t \in new THEN "live"
                    ELSE IF t \in out THEN "absent"
                    ELSE IF t \in dead THEN "revoked" ELSE req[r].mem[t]]
      /\ torn' = torn \ {f}
      /\ mu' = None
      /\ lived' = lived \cup new

\* The answer with the new token arrives, or the connection is gone.
Reply(r, new) ==
  /\ Answers(r)
  /\ \/ known' = known \cup new /\ UNCHANGED trouble
     \/ trouble' = TRUE /\ UNCHANGED known

Filling(r, cmd) == req[r].pc = "fill" /\ req[r].cmd = cmd

IssuePairingToken(r) ==
  \E new \in Fresh(Codes) :
    /\ Filling(r, "init")
    /\ Save(r, {new}, Codes, {})
    /\ Reply(r, {new})
    /\ UNCHANGED <<expired, chain, uses, performed, ended, bounds>>

SaveSession(r) ==
  \E new \in Fresh(Refreshes) :
    /\ Filling(r, "complete")
    /\ Save(r, {new}, {}, {})
    /\ chain' = [chain EXCEPT ![new] = req[r].arg]
    /\ Reply(r, {new})
    /\ UNCHANGED <<expired, uses, performed, ended, bounds>>

\* Mutant: the new record names the token it replaces, not the device.
Rotate_NamesToken(r) ==
  \E new \in Fresh(Refreshes) :
    /\ Filling(r, "rotate")
    /\ Save(r, {new}, {req[r].arg}, {})
    /\ chain' = [chain EXCEPT ![new] = req[r].arg]
    /\ uses' = [uses EXCEPT ![req[r].arg] = @ + 1]
    /\ Reply(r, {new})
    /\ UNCHANGED <<expired, performed, ended, bounds>>

Rotate(r) ==
  \E new \in Fresh(Refreshes) :
    /\ Filling(r, "rotate")
    /\ Save(r, {new}, {req[r].arg}, {})
    /\ chain' = [chain EXCEPT ![new] = chain[req[r].arg]]
    /\ uses' = [uses EXCEPT ![req[r].arg] = @ + 1]
    /\ Reply(r, {new})
    /\ UNCHANGED <<expired, performed, ended, bounds>>

RevokeRefreshToken(r) ==
  /\ Filling(r, "revoke")
  /\ Save(r, {}, {}, {req[r].arg})
  /\ ended' = ended \cup {chain[req[r].arg]}
  /\ Answers(r)
  /\ UNCHANGED <<expired, chain, known, uses, performed, trouble, bounds>>

\* rememberConfirmJTI drops what has expired.
IssueConfirmToken(r) ==
  \E new \in Fresh(Confirms) :
    /\ Filling(r, "confirm")
    /\ Save(r, {new}, expired, {})
    /\ Reply(r, {new})
    /\ UNCHANGED <<expired, chain, uses, performed, ended, bounds>>

\* Mutant: the jti stays in its file.
ConsumeConfirmToken_Keeps(r) ==
  LET k == req[r].arg
  IN  /\ Filling(r, "act")
      /\ Save(r, {}, {}, {})
      /\ \/ /\ k \notin expired
            /\ uses' = [uses EXCEPT ![k] = @ + 1]
            /\ Goes(r, "act")
         \/ k \in expired /\ Answers(r) /\ UNCHANGED uses
      /\ UNCHANGED <<expired, chain, known, performed, ended, trouble, bounds>>

\* consumeConfirmJTI: deleted first, then the clock is read.
ConsumeConfirmToken(r) ==
  LET k == req[r].arg
  IN  /\ Filling(r, "act")
      /\ Save(r, {}, {k}, {})
      /\ \/ /\ k \notin expired
            /\ uses' = [uses EXCEPT ![k] = @ + 1]
            /\ Goes(r, "act")
         \/ k \in expired /\ Answers(r) /\ UNCHANGED uses
      /\ UNCHANGED <<expired, chain, known, performed, ended, trouble, bounds>>

\* The rate limit refuses the action its token was spent on, or it is started.
Act(r) ==
  /\ req[r].pc = "act"
  /\ performed' \in {performed, [performed EXCEPT ![req[r].arg] = @ + 1]}
  /\ Answers(r)
  /\ UNCHANGED <<store, expired, chain, lived, known, uses, ended, trouble,
                 bounds>>

-----------------------------------------------------------------------------
(* The environment *)

Expire(t) ==
  /\ t \in (Expiring \cap lived) \ expired
  /\ expired' = expired \cup {t}
  /\ UNCHANGED <<store, req, history, bounds>>

Crash ==
  /\ crashes < MaxCrashes
  /\ crashes' = crashes + 1
  /\ mu' = None
  /\ req' = [r \in Conns |-> Idle]
  /\ trouble' = TRUE
  /\ UNCHANGED <<disk, torn, expired, chain, lived, known, uses, performed,
                 ended, requests, diskFaults>>

\* A handler goes on.
Step(r) ==
  \/ Load(r) \/ ConsumePairingToken(r) \/ CreateSession(r) \/ Truncate(r)
  \/ DiskFault(r) \/ IssuePairingToken(r) \/ SaveSession(r) \/ Rotate(r)
  \/ RevokeRefreshToken(r) \/ IssueConfirmToken(r) \/ ConsumeConfirmToken(r)
  \/ Act(r)

Next ==
  \/ \E r \in Conns : Step(r)
  \/ \E r \in Conns, cmd \in Commands, arg \in Tokens \cup {None} : Arrive(r, cmd, arg)
  \/ \E t \in Tokens : Expire(t)
  \/ Crash

\* Go's scheduler runs every goroutine that can run, and Unlock hands the mutex
\* on to one that waits.
Fairness == \A r \in Conns : WF_vars(Step(r))

Spec == Init /\ [][Next]_vars /\ Fairness

-----------------------------------------------------------------------------
(* The promise *)

\* Between truncation and content, the holder of the lock still has the records.
Live(t) ==
  \/ disk[t] = "live"
  \/ \E r \in Conns : /\ req[r].pc = "fill" /\ FileFor(req[r].cmd) = FileOf(t)
                      /\ req[r].mem[t] = "live"

Stage(t) == IF Live(t) THEN "live" ELSE IF t \in lived THEN "gone" ELSE "unborn"

OneTime == INSTANCE OneTimeTokens
             WITH state <- [t \in Tokens |-> Stage(t)], uses <- uses

\* The store implements one-time tokens, whatever handlers overlap, crash or
\* meet a full disk.
Implements == OneTime!Spec

-----------------------------------------------------------------------------
(* Properties *)

\* authRevoke, once answered, ends the pairing for good: however revoke and rotate
\* of one device interleave, no token that descends from its code is live.
RevokeEndsChain ==
  \A t \in Refreshes : chain[t] \in ended => ~Live(t)

\* A device that was paired, not revoked and whose tokens do not expire holds a
\* token the store accepts, unless an answer, a write or the process was lost.
LockedOutExplained ==
  \A c \in Codes :
    (\E t \in Refreshes : chain[t] = c) /\ c \notin ended /\ ~trouble
      => \E t \in Refreshes : chain[t] = c /\ Live(t) /\ t \in known

\* No action is started twice on one confirmation.
ConfirmedOnce == \A k \in Confirms : performed[k] <= 1

Poisoned == mu # None /\ req[mu].pc = "idle"

\* The mutex is left locked only over a refresh file that does not parse, which a
\* restart does not repair.
PoisonMeansTorn == Poisoned => "refresh" \in torn

\* Otherwise every request is answered.
AnsweredUnlessPoisoned ==
  \A r \in Conns : (req[r].pc # "idle") ~> (req[r].pc = "idle" \/ Poisoned)
=============================================================================
