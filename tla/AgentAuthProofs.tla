-------------------------- MODULE AgentAuthProofs --------------------------
(***************************************************************************)
(* AInv is inductive for every pool of tokens, every number of requests    *)
(* and every bound, and AgentAuth implements OneTimeTokens.                *)
(***************************************************************************)
EXTENDS AgentAuthInv, TLAPS

-----------------------------------------------------------------------------
(* Files and pools *)

\* Which file a token lives in.
LEMMA FileOfPool ==
  ASSUME NEW t \in Tokens
  PROVE  /\ t \in Codes <=> FileOf(t) = "pairing"
         /\ t \in Refreshes <=> FileOf(t) = "refresh"
         /\ t \in Confirms <=> FileOf(t) = "jti"
         /\ t # None
BY PoolAssumption DEF Tokens, FileOf

\* Which file a request writes.
LEMMA FileForCommand ==
  ASSUME NEW cmd \in Commands
  PROVE  /\ FileFor(cmd) \in Files
         /\ FileFor(cmd) = "pairing" <=> cmd = "init"
         /\ FileFor(cmd) = "jti" <=> cmd \in {"confirm", "act"}
         /\ FileFor(cmd) = "refresh" <=> cmd \in {"complete", "rotate", "revoke"}
BY DEF Commands, FileFor, Files

-----------------------------------------------------------------------------
(* TokenInv *)

\* An empty store, nobody at work.
LEMMA InitTokenInv == Init => TokenInv
<1> SUFFICES ASSUME Init PROVE TokenInv
  OBVIOUS
<1>1. \A r \in Conns : req[r] = Idle
  BY DEF Init
<1>2. Idle \in Request
  BY DEF Idle, Request, Nothing, Records
<1>3. TypeOK
  <2>1. disk \in Records /\ torn \subseteq Files /\ mu \in Conns \cup {None}
    BY DEF Init, Nothing, Records
  <2>2. req \in [Conns -> Request] /\ expired \subseteq Expiring
    BY <1>2 DEF Init
  <2>3. /\ chain \in [Refreshes -> Codes \cup {None}]
        /\ lived \subseteq Tokens /\ known \subseteq Tokens
        /\ uses \in [Tokens -> Nat] /\ performed \in [Confirms -> Nat]
        /\ ended \subseteq Codes /\ trouble \in BOOLEAN
    BY DEF Init
  <2>4. /\ requests \in 0..MaxRequests
        /\ crashes \in 0..MaxCrashes /\ diskFaults \in 0..MaxDiskFaults
    BY BoundAssumption DEF Init
  <2> QED
    BY <2>1, <2>2, <2>3, <2>4 DEF TypeOK
<1>4. ArgInv
  BY <1>1, NoneAssumption DEF ArgInv, ArgOK, Idle, Commands
<1>5. LockInv
  BY <1>1 DEF LockInv, Writes, Idle
<1>6. MemInv
  BY <1>1 DEF MemInv, Writes, Idle
<1>7. DiskInv
  BY DEF DiskInv, Init, Nothing
<1> QED
  BY <1>3, <1>4, <1>5, <1>6, <1>7 DEF TokenInv

\* A handler at rest has the type of one.
LEMMA IdleInRequest == Idle \in Request
BY DEF Idle, Request, Nothing, Records

\* What the steps rest on: a handler's record, and what it carries.
LEMMA RequestFacts ==
  ASSUME TokenInv, NEW r \in Conns
  PROVE  /\ req[r] \in Request
         /\ req[r].pc \in {"idle", "lock", "session", "open", "fill", "act"}
         /\ req[r].cmd \in Commands \cup {None}
         /\ req[r].arg \in Tokens \cup {None}
         /\ req[r].mem \in Records
         /\ req[r].pc # "idle" => req[r].cmd \in Commands
BY DEF TokenInv, TypeOK, ArgInv, ArgOK, Request

\* A request comes in with the argument its route asks for.
LEMMA ArriveTokenInv ==
  ASSUME TokenInv, NEW r \in Conns, NEW cmd \in Commands,
         NEW arg \in Tokens \cup {None}, Arrive(r, cmd, arg)
  PROVE  TokenInv'
<1> DEFINE new == [pc |-> "lock", cmd |-> cmd, arg |-> arg, mem |-> Nothing]
<1>1. /\ req' = [req EXCEPT ![r] = new]
      /\ requests' = requests + 1 /\ requests < MaxRequests
      /\ UNCHANGED <<disk, torn, mu, expired, chain, lived, known, uses, performed,
                     ended, trouble, crashes, diskFaults>>
  BY DEF Arrive, store, history
<1>2. new \in Request
  BY DEF Request, Nothing, Records
<1>3. TypeOK'
  BY <1>1, <1>2, BoundAssumption DEF TokenInv, TypeOK
<1>4. ArgInv'
  <2>1. /\ cmd = "complete" => arg \in Codes
        /\ cmd \in {"rotate", "revoke"} => arg \in Refreshes
        /\ cmd = "act" => arg \in Confirms
    BY DEF Arrive, MayAsk
  <2> QED
    BY <1>1, <2>1, NoneAssumption DEF TokenInv, TypeOK, ArgInv, ArgOK
<1>5. LockInv'
  BY <1>1 DEF TokenInv, TypeOK, LockInv, Writes
<1>6. MemInv'
  BY <1>1 DEF TokenInv, TypeOK, MemInv, MemOK, Writes
<1>7. DiskInv'
  BY <1>1 DEF TokenInv, DiskInv
<1> QED
  BY <1>3, <1>4, <1>5, <1>6, <1>7 DEF TokenInv

\* A handler that answers and is done.
LEMMA AnswersFacts ==
  ASSUME TokenInv, NEW r \in Conns, Answers(r)
  PROVE  /\ req' \in [Conns -> Request]
         /\ req'[r] = Idle
         /\ \A s \in Conns \ {r} : req'[s] = req[s]
         /\ ArgInv'
         /\ \A s \in Conns : Writes(req'[s]) => s # r /\ Writes(req[s])
<1>1. req' \in [Conns -> Request] /\ req'[r] = Idle
      /\ \A s \in Conns \ {r} : req'[s] = req[s]
  BY IdleInRequest DEF Answers, TokenInv, TypeOK
<1>2. ArgOK(Idle) /\ ~Writes(Idle)
  BY NoneAssumption DEF ArgOK, Idle, Writes, Commands
<1> QED
  BY <1>1, <1>2 DEF TokenInv, ArgInv

\* The mutex is taken and the file read: memory agrees with the disk.
LEMMA LoadTokenInv ==
  ASSUME TokenInv, NEW r \in Conns, Load(r)
  PROVE  TokenInv'
<1>1. /\ req[r].pc = "lock" /\ req[r].cmd \in Commands \ {"complete"} /\ mu = None
      /\ UNCHANGED <<disk, torn, expired, chain, lived, known, uses, performed,
                     ended, trouble, requests, crashes, diskFaults>>
  BY RequestFacts DEF Load, Unlocked, history, bounds
<1>2. \A s \in Conns : ~Writes(req[s])
  BY <1>1, PoolAssumption DEF TokenInv, LockInv
<1>3. DiskInv'
  BY <1>1 DEF TokenInv, DiskInv
<1>4. CASE /\ Accepts(r) /\ mu' = r
           /\ req' = [req EXCEPT ![r].pc = "open", ![r].mem = disk]
  <2> DEFINE q == req'[r]
  <2>1. /\ q \in Request /\ q.pc = "open" /\ q.cmd = req[r].cmd
        /\ q.arg = req[r].arg /\ q.mem = disk
        /\ req' \in [Conns -> Request]
        /\ \A s \in Conns \ {r} : req'[s] = req[s]
    BY <1>4, RequestFacts DEF TokenInv, TypeOK, Request
  <2>2. TypeOK'
    BY <1>1, <1>4, <2>1 DEF TokenInv, TypeOK
  <2>3. ArgOK(q)
    BY <1>1, <2>1, NoneAssumption DEF TokenInv, ArgInv, ArgOK
  <2>4. LockInv'
    BY <1>2, <1>4, <2>1 DEF LockInv
  <2>5. MemOK(req[r])'
    <3>1. /\ req[r].cmd = "rotate" => disk[req[r].arg] = "live"
          /\ req[r].cmd \in {"revoke", "act"} => disk[req[r].arg] # "absent"
      BY <1>4 DEF Accepts
    <3> QED
      BY <1>1, <2>1, <3>1 DEF TokenInv, DiskInv, MemOK
  <2> QED
    BY <1>2, <1>3, <2>1, <2>2, <2>3, <2>4, <2>5 DEF TokenInv, ArgInv, MemInv
<1>5. CASE Answers(r) /\ UNCHANGED mu
  <2>1. TypeOK'
    BY <1>1, <1>5, AnswersFacts DEF TokenInv, TypeOK
  <2>2. LockInv' /\ MemInv'
    BY <1>2, AnswersFacts, <1>5 DEF LockInv, MemInv
  <2> QED
    BY <1>3, <1>5, <2>1, <2>2, AnswersFacts DEF TokenInv
<1> QED
  BY <1>4, <1>5 DEF Load

\* A code leaves the disk whole, nobody else holding the mutex.
LEMMA ConsumePairingTokenInv ==
  ASSUME TokenInv, NEW r \in Conns, ConsumePairingToken(r)
  PROVE  TokenInv'
<1> DEFINE c == req[r].arg
<1>1. /\ req[r].pc = "lock" /\ req[r].cmd = "complete" /\ mu = None
      /\ UNCHANGED <<torn, mu, expired, chain, lived, known, performed, ended,
                     trouble, requests, crashes, diskFaults>>
  BY DEF ConsumePairingToken, Unlocked, bounds
<1>2. \A s \in Conns : ~Writes(req[s])
  BY <1>1, PoolAssumption DEF TokenInv, LockInv
<1>3. c \in Codes /\ c \in Tokens
  BY <1>1 DEF TokenInv, ArgInv, ArgOK, Tokens
<1>4. CASE /\ disk' = [disk EXCEPT ![c] = "absent"]
           /\ uses' = [uses EXCEPT ![c] = @ + 1]
           /\ Goes(r, "session")
  <2>1. /\ req' \in [Conns -> Request]
        /\ req'[r].pc = "session" /\ req'[r].cmd = "complete" /\ req'[r].arg = c
        /\ \A s \in Conns \ {r} : req'[s] = req[s]
    BY <1>1, <1>4, RequestFacts DEF Goes, TokenInv, TypeOK, Request
  <2>2. TypeOK'
    BY <1>1, <1>3, <1>4, <2>1 DEF TokenInv, TypeOK, Records
  <2>3. ArgOK(req'[r])
    BY <2>1, <1>3, NoneAssumption DEF ArgOK, Commands
  <2>4. \A s \in Conns : ~Writes(req'[s])
    BY <2>1, <1>2 DEF Writes
  <2>5. DiskInv'
    BY <1>1, <1>4 DEF TokenInv, TypeOK, Records, DiskInv
  <2> QED
    BY <2>1, <2>2, <2>3, <2>4, <2>5 DEF TokenInv, ArgInv, LockInv, MemInv
<1>5. CASE /\ disk' \in {disk, [t \in Tokens |-> IF t \in Codes THEN "absent"
                                                              ELSE disk[t]]}
           /\ Answers(r)
           /\ UNCHANGED uses
  <2>1. TypeOK'
    BY <1>1, <1>5, AnswersFacts DEF TokenInv, TypeOK, Records
  <2>2. \A s \in Conns : ~Writes(req'[s])
    BY <1>2, <1>5, AnswersFacts
  <2>3. DiskInv'
    BY <1>1, <1>5 DEF TokenInv, TypeOK, Records, DiskInv
  <2> QED
    BY <1>5, <2>1, <2>2, <2>3, AnswersFacts DEF TokenInv, LockInv, MemInv
<1> QED
  BY <1>4, <1>5 DEF ConsumePairingToken

\* CreateSession takes the mutex and reads, or panics and keeps it.
LEMMA CreateSessionInv ==
  ASSUME TokenInv, NEW r \in Conns, CreateSession(r)
  PROVE  TokenInv'
<1>1. /\ req[r].pc = "session" /\ mu = None /\ mu' = r
      /\ UNCHANGED <<disk, torn, expired, chain, lived, known, uses, performed,
                     ended, trouble, requests, crashes, diskFaults>>
  BY DEF CreateSession, Unlocked, history, bounds
<1>2. \A s \in Conns : ~Writes(req[s])
  BY <1>1, PoolAssumption DEF TokenInv, LockInv
<1>3. req[r].cmd = "complete" /\ req[r].arg \in Codes
  BY <1>1 DEF TokenInv, ArgInv, ArgOK
<1>4. DiskInv'
  BY <1>1 DEF TokenInv, DiskInv
<1>5. CASE req' = [req EXCEPT ![r].pc = "open", ![r].mem = disk]
  <2>1. /\ req' \in [Conns -> Request]
        /\ req'[r].pc = "open" /\ req'[r].cmd = "complete"
        /\ req'[r].arg \in Codes /\ req'[r].mem = disk
        /\ \A s \in Conns \ {r} : req'[s] = req[s]
    BY <1>3, <1>5, RequestFacts DEF TokenInv, TypeOK, Request
  <2>2. TypeOK'
    BY <1>1, <2>1 DEF TokenInv, TypeOK
  <2>3. ArgOK(req'[r])
    BY <2>1, NoneAssumption DEF ArgOK, Commands
  <2>4. LockInv'
    BY <1>1, <1>2, <2>1 DEF LockInv
  <2>5. MemOK(req[r])'
    BY <1>1, <2>1 DEF TokenInv, DiskInv, MemOK
  <2> QED
    BY <1>2, <1>4, <2>1, <2>2, <2>3, <2>4, <2>5 DEF TokenInv, ArgInv, MemInv
<1>6. CASE Answers(r)
  <2>1. TypeOK'
    BY <1>1, <1>6, AnswersFacts DEF TokenInv, TypeOK
  <2>2. \A s \in Conns : ~Writes(req'[s])
    BY <1>2, <1>6, AnswersFacts
  <2> QED
    BY <1>4, <1>6, <2>1, <2>2, AnswersFacts DEF TokenInv, LockInv, MemInv
<1> QED
  BY <1>5, <1>6 DEF CreateSession

\* While one request writes, no other does.
LEMMA OneWriter ==
  ASSUME TokenInv, NEW r \in Conns, Writes(req[r])
  PROVE  mu = r /\ \A s \in Conns \ {r} : ~Writes(req[s])
BY DEF TokenInv, LockInv

\* The file is emptied; its records stay in memory.
LEMMA TruncateInv ==
  ASSUME TokenInv, NEW r \in Conns, Truncate(r)
  PROVE  TokenInv'
<1> DEFINE f == FileFor(req[r].cmd)
<1>1. /\ req[r].pc = "open"
      /\ torn' = torn \cup {f}
      /\ disk' = [t \in Tokens |-> IF FileOf(t) = f THEN "absent" ELSE disk[t]]
      /\ Goes(r, "fill")
      /\ UNCHANGED <<mu, expired, chain, lived, known, uses, performed,
                     ended, trouble, requests, crashes, diskFaults>>
  BY DEF Truncate, history, bounds
<1>2. Writes(req[r]) /\ mu = r /\ \A s \in Conns \ {r} : ~Writes(req[s])
  BY <1>1, OneWriter DEF Writes
<1>3. /\ req' \in [Conns -> Request]
      /\ req'[r] = [req[r] EXCEPT !.pc = "fill"]
      /\ req'[r].pc = "fill" /\ req'[r].cmd = req[r].cmd
      /\ req'[r].arg = req[r].arg /\ req'[r].mem = req[r].mem
      /\ \A s \in Conns \ {r} : req'[s] = req[s]
  BY <1>1, RequestFacts DEF Goes, TokenInv, TypeOK, Request
<1>4. f \in Files
  BY <1>1, RequestFacts, FileForCommand
<1>5. TypeOK'
  <2>1. disk' \in Records /\ torn' \subseteq Files
    BY <1>1, <1>4 DEF TokenInv, TypeOK, Records
  <2> QED
    BY <1>1, <1>3, <2>1 DEF TokenInv, TypeOK
<1>6. ArgInv'
  <2>1. ArgOK(req[r])
    BY DEF TokenInv, ArgInv
  <2>2. ArgOK(req[r])'
    BY <1>1, <1>3, <2>1 DEF ArgOK
  <2> QED
    BY <1>3, <2>2 DEF TokenInv, ArgInv
<1>7. LockInv'
  <2>1. mu' = r /\ \A s \in Conns \ {r} : ~Writes(req'[s])
    BY <1>1, <1>2, <1>3
  <2> QED
    BY <2>1 DEF LockInv
<1>8. MemOK(req[r])'
  <2>1. MemOK(req[r])
    BY <1>2 DEF TokenInv, MemInv
  <2>2. \A t \in Tokens : FileOf(t) = f => disk'[t] = "absent"
    BY <1>1
  <2> QED
    BY <1>1, <1>3, <2>1, <2>2 DEF MemOK
<1>9. DiskInv'
  BY <1>1 DEF TokenInv, DiskInv
<1> QED
  BY <1>2, <1>3, <1>5, <1>6, <1>7, <1>8, <1>9 DEF TokenInv, MemInv

\* A failed write releases the mutex.
LEMMA DiskFaultInv ==
  ASSUME TokenInv, NEW r \in Conns, DiskFault(r)
  PROVE  TokenInv'
<1>1. /\ Writes(req[r]) /\ mu' = None /\ Answers(r) /\ trouble' = TRUE
      /\ diskFaults < MaxDiskFaults /\ diskFaults' = diskFaults + 1
      /\ UNCHANGED <<disk, torn, expired, chain, lived, known, uses, performed,
                     ended, requests, crashes>>
  BY DEF DiskFault, Writes
<1>2. \A s \in Conns : ~Writes(req'[s])
  BY <1>1, OneWriter, AnswersFacts
<1>3. TypeOK'
  BY <1>1, AnswersFacts, BoundAssumption DEF TokenInv, TypeOK
<1>4. DiskInv'
  BY <1>1 DEF TokenInv, DiskInv
<1> QED
  BY <1>1, <1>2, <1>3, <1>4, AnswersFacts DEF TokenInv, LockInv, MemInv

\* What a write leaves on disk.
LEMMA SaveFacts ==
  ASSUME TokenInv, NEW r \in Conns, req[r].pc = "fill",
         NEW new \in SUBSET Tokens, NEW out, NEW dead \in SUBSET (Refreshes \cap lived),
         Save(r, new, out, dead)
  PROVE  /\ disk' \in Records /\ torn' \subseteq Files /\ mu' = None
         /\ lived' = lived \cup new /\ lived' \subseteq Tokens
         /\ MemOK(req[r])
         /\ \A s \in Conns \ {r} : ~Writes(req[s])
         /\ DiskInv'
<1>1. MemOK(req[r]) /\ \A s \in Conns \ {r} : ~Writes(req[s])
  BY OneWriter DEF Writes, TokenInv, MemInv
<1>2. /\ mu' = None /\ lived' = lived \cup new /\ torn' \subseteq Files
      /\ lived' \subseteq Tokens
  BY DEF Save, TokenInv, TypeOK
<1>3. /\ disk' \in Records
      /\ \A t \in Tokens : disk'[t] \in {disk[t], req[r].mem[t], "absent"}
                             \/ (t \in new /\ disk'[t] = "live")
                             \/ (t \in dead /\ disk'[t] = "revoked" /\ t \notin new)
  BY RequestFacts DEF Save, TokenInv, TypeOK, Records
<1>4. DiskInv'
  BY <1>1, <1>2, <1>3, FileOfPool DEF TokenInv, DiskInv, MemOK
<1> QED
  BY <1>1, <1>2, <1>3, <1>4

\* A reply changes what the client knows, and ends the handler.
LEMMA ReplyFacts ==
  ASSUME TokenInv, NEW r \in Conns, NEW new \in SUBSET Tokens, Reply(r, new)
  PROVE  Answers(r) /\ known' \subseteq Tokens /\ trouble' \in BOOLEAN
BY DEF Reply, TokenInv, TypeOK

\* Codes, refresh tokens and confirmations are tokens.
LEMMA TokenPools ==
  Codes \subseteq Tokens /\ Refreshes \subseteq Tokens /\ Confirms \subseteq Tokens
BY DEF Tokens

\* A handler that has saved and answered leaves the invariant as it was.
LEMMA SavedInv ==
  ASSUME TokenInv, NEW r \in Conns, req[r].pc = "fill",
         NEW new \in SUBSET Tokens, NEW out,
         NEW dead \in SUBSET (Refreshes \cap lived),
         Save(r, new, out, dead),
         Answers(r),
         chain' \in [Refreshes -> Codes \cup {None}],
         known' \subseteq Tokens, trouble' \in BOOLEAN,
         uses' \in [Tokens -> Nat], ended' \subseteq Codes,
         UNCHANGED <<expired, performed, bounds>>
  PROVE  TokenInv'
<1>1. TypeOK'
  BY SaveFacts, AnswersFacts DEF TokenInv, TypeOK, bounds
<1>2. \A s \in Conns : ~Writes(req'[s])
  BY SaveFacts, AnswersFacts
<1> QED
  BY <1>1, <1>2, SaveFacts, AnswersFacts DEF TokenInv, LockInv, MemInv

\* IssuePairingToken replaces every code on file.
LEMMA IssuePairingTokenInv ==
  ASSUME TokenInv, NEW r \in Conns, IssuePairingToken(r)
  PROVE  TokenInv'
<1>1. PICK new \in Fresh(Codes) :
        /\ req[r].pc = "fill" /\ Save(r, {new}, Codes, {}) /\ Reply(r, {new})
        /\ UNCHANGED <<expired, chain, uses, performed, ended, bounds>>
  BY DEF IssuePairingToken, Filling
<1>2. {new} \in SUBSET Tokens
  BY TokenPools DEF Fresh
<1> QED
  BY <1>1, <1>2, ReplyFacts, SavedInv DEF TokenInv, TypeOK

\* CreateSession adds a token that descends from its code.
LEMMA SaveSessionInv ==
  ASSUME TokenInv, NEW r \in Conns, SaveSession(r)
  PROVE  TokenInv'
<1>1. PICK new \in Fresh(Refreshes) :
        /\ req[r].pc = "fill" /\ req[r].cmd = "complete"
        /\ Save(r, {new}, {}, {}) /\ Reply(r, {new})
        /\ chain' = [chain EXCEPT ![new] = req[r].arg]
        /\ UNCHANGED <<expired, uses, performed, ended, bounds>>
  BY DEF SaveSession, Filling
<1>2. {new} \in SUBSET Tokens
  BY TokenPools DEF Fresh
<1>3. chain' \in [Refreshes -> Codes \cup {None}]
  BY <1>1 DEF TokenInv, TypeOK, ArgInv, ArgOK
<1> QED
  BY <1>1, <1>2, <1>3, ReplyFacts, SavedInv DEF TokenInv, TypeOK

\* RotateSession puts the new token in the place of the old one.
LEMMA RotateInv ==
  ASSUME TokenInv, NEW r \in Conns, Rotate(r)
  PROVE  TokenInv'
<1> DEFINE t == req[r].arg
<1>1. PICK new \in Fresh(Refreshes) :
        /\ req[r].pc = "fill" /\ req[r].cmd = "rotate"
        /\ Save(r, {new}, {t}, {}) /\ Reply(r, {new})
        /\ chain' = [chain EXCEPT ![new] = chain[t]]
        /\ uses' = [uses EXCEPT ![t] = @ + 1]
        /\ UNCHANGED <<expired, performed, ended, bounds>>
  BY DEF Rotate, Filling
<1>2. {new} \in SUBSET Tokens
  BY TokenPools DEF Fresh
<1>3. t \in Refreshes /\ t \in Tokens
  BY <1>1, TokenPools DEF TokenInv, ArgInv, ArgOK
<1>4. chain' \in [Refreshes -> Codes \cup {None}]
  <2>1. chain[t] \in Codes \cup {None}
    BY <1>3 DEF TokenInv, TypeOK
  <2> QED
    BY <1>1, <2>1 DEF TokenInv, TypeOK
<1>5. uses' \in [Tokens -> Nat]
  <2>1. uses[t] + 1 \in Nat
    BY <1>3 DEF TokenInv, TypeOK
  <2> QED
    BY <1>1, <2>1 DEF TokenInv, TypeOK
<1>6. /\ Answers(r) /\ known' \subseteq Tokens /\ trouble' \in BOOLEAN
      /\ ended' \subseteq Codes
  BY <1>1, <1>2, ReplyFacts DEF TokenInv, TypeOK
<1> QED
  BY <1>1, <1>2, <1>4, <1>5, <1>6, SavedInv

\* RevokeRefreshToken marks a token that was saved.
LEMMA RevokeRefreshTokenInv ==
  ASSUME TokenInv, NEW r \in Conns, RevokeRefreshToken(r),
         chain[req[r].arg] \in Codes
  PROVE  TokenInv'
<1> DEFINE t == req[r].arg
<1>1. /\ req[r].pc = "fill" /\ req[r].cmd = "revoke"
      /\ Save(r, {}, {}, {t}) /\ Answers(r)
      /\ ended' = ended \cup {chain[t]}
      /\ UNCHANGED <<expired, chain, known, uses, performed, trouble, bounds>>
  BY DEF RevokeRefreshToken, Filling
<1>2. t \in Refreshes /\ t \in Tokens
  BY <1>1, TokenPools DEF TokenInv, ArgInv, ArgOK
<1>3. t \in lived
  BY <1>1, <1>2 DEF TokenInv, MemInv, MemOK, Writes
<1>4. {t} \in SUBSET (Refreshes \cap lived) /\ ended' \subseteq Codes
  BY <1>1, <1>2, <1>3 DEF TokenInv, TypeOK
<1>5. /\ chain' \in [Refreshes -> Codes \cup {None}] /\ known' \subseteq Tokens
      /\ trouble' \in BOOLEAN /\ uses' \in [Tokens -> Nat]
  BY <1>1 DEF TokenInv, TypeOK
<1> QED
  BY <1>1, <1>4, <1>5, SavedInv

\* rememberConfirmJTI adds a confirmation and drops stale ones.
LEMMA IssueConfirmTokenInv ==
  ASSUME TokenInv, NEW r \in Conns, IssueConfirmToken(r)
  PROVE  TokenInv'
<1>1. PICK new \in Fresh(Confirms) :
        /\ req[r].pc = "fill" /\ Save(r, {new}, expired, {}) /\ Reply(r, {new})
        /\ UNCHANGED <<expired, chain, uses, performed, ended, bounds>>
  BY DEF IssueConfirmToken, Filling
<1>2. {new} \in SUBSET Tokens
  BY TokenPools DEF Fresh
<1> QED
  BY <1>1, <1>2, ReplyFacts, SavedInv DEF TokenInv, TypeOK

\* consumeConfirmJTI takes the confirmation out.
LEMMA ConsumeConfirmTokenInv ==
  ASSUME TokenInv, NEW r \in Conns, ConsumeConfirmToken(r)
  PROVE  TokenInv'
<1> DEFINE k == req[r].arg
<1>1. /\ req[r].pc = "fill" /\ req[r].cmd = "act" /\ Save(r, {}, {k}, {})
      /\ UNCHANGED <<expired, chain, known, performed, ended, trouble, bounds>>
  BY DEF ConsumeConfirmToken, Filling
<1>2. k \in Confirms /\ k \in Tokens
  BY <1>1, TokenPools DEF TokenInv, ArgInv, ArgOK
<1>3. /\ disk' \in Records /\ torn' \subseteq Files /\ mu' = None
      /\ lived' \subseteq Tokens /\ DiskInv'
      /\ \A s \in Conns \ {r} : ~Writes(req[s])
  BY <1>1, SaveFacts
<1>4. /\ chain' \in [Refreshes -> Codes \cup {None}] /\ known' \subseteq Tokens
      /\ trouble' \in BOOLEAN /\ ended' \subseteq Codes
  BY <1>1 DEF TokenInv, TypeOK
<1>5. CASE uses' = [uses EXCEPT ![k] = @ + 1] /\ Goes(r, "act")
  <2>1. /\ req' \in [Conns -> Request]
        /\ req'[r].pc = "act" /\ req'[r].cmd = "act" /\ req'[r].arg = k
        /\ \A s \in Conns \ {r} : req'[s] = req[s]
    BY <1>1, <1>5, RequestFacts DEF Goes, TokenInv, TypeOK, Request
  <2>2. uses' \in [Tokens -> Nat]
    BY <1>2, <1>5 DEF TokenInv, TypeOK
  <2>3. TypeOK'
    BY <1>3, <1>1, <1>4, <2>1, <2>2 DEF TokenInv, TypeOK, bounds
  <2>4. ArgOK(req'[r]) /\ ~Writes(req'[r])
    BY <1>2, <2>1, NoneAssumption DEF ArgOK, Commands, Writes
  <2>5. \A s \in Conns : ~Writes(req'[s])
    BY <1>3, <2>1, <2>4
  <2> QED
    BY <1>3, <2>1, <2>3, <2>4, <2>5 DEF TokenInv, ArgInv, LockInv, MemInv
<1>6. CASE Answers(r) /\ UNCHANGED uses
  <2>1. uses' \in [Tokens -> Nat]
    BY <1>6 DEF TokenInv, TypeOK
  <2> QED
    BY <1>1, <1>6, <1>4, <2>1, SavedInv
<1> QED
  BY <1>5, <1>6 DEF ConsumeConfirmToken

\* An action is started or refused; the store is not touched.
LEMMA ActInvariant ==
  ASSUME TokenInv, NEW r \in Conns, Act(r)
  PROVE  TokenInv'
<1>1. /\ req[r].pc = "act" /\ Answers(r)
      /\ performed' \in {performed, [performed EXCEPT ![req[r].arg] = @ + 1]}
      /\ UNCHANGED <<disk, torn, mu, expired, chain, lived, known, uses, ended,
                     trouble, requests, crashes, diskFaults>>
  BY DEF Act, store, bounds
<1>2. req[r].arg \in Confirms
  BY <1>1 DEF TokenInv, ArgInv, ArgOK
<1>3. TypeOK'
  BY <1>1, <1>2, AnswersFacts DEF TokenInv, TypeOK
<1>4. LockInv' /\ DiskInv'
  BY <1>1, AnswersFacts DEF TokenInv, LockInv, DiskInv
<1>5. MemInv'
  BY <1>1, AnswersFacts DEF TokenInv, MemInv, MemOK
<1> QED
  BY <1>1, <1>3, <1>4, <1>5, AnswersFacts DEF TokenInv

\* A token runs out.
LEMMA ExpireInv ==
  ASSUME TokenInv, NEW t \in Tokens, Expire(t)
  PROVE  TokenInv'
<1>1. /\ t \in Expiring /\ expired' = expired \cup {t}
      /\ UNCHANGED <<disk, torn, mu, req, chain, lived, known, uses, performed,
                     ended, trouble, requests, crashes, diskFaults>>
  BY DEF Expire, store, history, bounds
<1>2. TypeOK'
  BY <1>1 DEF TokenInv, TypeOK
<1> QED
  BY <1>1, <1>2 DEF TokenInv, ArgInv, LockInv, MemInv, MemOK, DiskInv

\* A restart keeps the disk and forgets the handlers.
LEMMA CrashInv ==
  ASSUME TokenInv, Crash
  PROVE  TokenInv'
<1>1. /\ crashes < MaxCrashes /\ crashes' = crashes + 1 /\ mu' = None
      /\ req' = [r \in Conns |-> Idle] /\ trouble' = TRUE
      /\ UNCHANGED <<disk, torn, expired, chain, lived, known, uses, performed,
                     ended, requests, diskFaults>>
  BY DEF Crash
<1>2. TypeOK'
  BY <1>1, IdleInRequest, BoundAssumption DEF TokenInv, TypeOK
<1>3. \A r \in Conns : ArgOK(req'[r]) /\ ~Writes(req'[r])
  BY <1>1, NoneAssumption DEF ArgOK, Idle, Writes, Commands
<1>4. DiskInv'
  BY <1>1 DEF TokenInv, DiskInv
<1> QED
  BY <1>2, <1>3, <1>4 DEF TokenInv, ArgInv, LockInv, MemInv

\* Nothing changes.
LEMMA StutterInv ==
  ASSUME TokenInv, UNCHANGED vars
  PROVE  TokenInv'
BY DEF vars, store, history, bounds, TokenInv, TypeOK, ArgInv, LockInv, MemInv,
       MemOK, DiskInv

-----------------------------------------------------------------------------
(* AgentAuth implements OneTimeTokens *)

\* What is live was saved at some time.
LEMMA LiveLived ==
  ASSUME TokenInv, NEW t \in Tokens, Live(t)
  PROVE  t \in lived
<1>1. CASE disk[t] = "live"
  BY <1>1 DEF TokenInv, DiskInv
<1>2. CASE \E r \in Conns : req[r].pc = "fill" /\ req[r].mem[t] = "live"
  <2>1. PICK r \in Conns : req[r].pc = "fill" /\ req[r].mem[t] = "live"
    BY <1>2
  <2>2. MemOK(req[r])
    BY <2>1 DEF TokenInv, MemInv, Writes
  <2> QED
    BY <2>1, <2>2 DEF MemOK
<1> QED
  BY <1>1, <1>2 DEF Live

\* What is live, when nobody is in the middle of a write.
LEMMA RestLive ==
  ASSUME NEW t \in Tokens, \A s \in Conns : ~Writes(req[s])
  PROVE  Live(t) <=> disk[t] = "live"
BY DEF Live, Writes

\* What is live, while r fills its file.
LEMMA FillLive ==
  ASSUME TokenInv, NEW r \in Conns, req[r].pc = "fill", NEW t \in Tokens
  PROVE  Live(t) <=> IF FileOf(t) = FileFor(req[r].cmd) THEN req[r].mem[t] = "live"
                                                        ELSE disk[t] = "live"
<1>1. MemOK(req[r]) /\ \A s \in Conns \ {r} : req[s].pc # "fill"
  BY OneWriter DEF Writes, TokenInv, MemInv
<1>2. FileOf(t) = FileFor(req[r].cmd) => disk[t] = "absent"
  BY <1>1 DEF MemOK
<1> QED
  BY <1>1, <1>2 DEF Live

\* What is live after a write: the other files' tokens as before, and of this
\* file's what was added, and what was live and is not dropped.
LEMMA SavedLive ==
  ASSUME TokenInv, NEW r \in Conns, req[r].pc = "fill", NEW new, NEW out, NEW dead,
         Save(r, new, out, dead),
         \A s \in Conns : ~Writes(req'[s]),
         NEW t \in Tokens
  PROVE  Live(t)' <=> IF FileOf(t) = FileFor(req[r].cmd)
                        THEN t \in new \/ (t \notin out \cup dead /\ Live(t))
                        ELSE Live(t)
<1>1. Live(t)' <=> disk'[t] = "live"
  BY DEF Live, Writes
<1>2. disk'[t] = IF FileOf(t) # FileFor(req[r].cmd) THEN disk[t]
                 ELSE IF t \in new THEN "live"
                 ELSE IF t \in out THEN "absent"
                 ELSE IF t \in dead THEN "revoked" ELSE req[r].mem[t]
  BY DEF Save
<1> QED
  BY <1>1, <1>2, FillLive

\* Steps of the store, as steps of the abstract specification.
LEMMA LifeChange ==
  ASSUME TokenInv, NEW B \in SUBSET Tokens, NEW D \in SUBSET Tokens,
         B \cap lived = {}, \A t \in D : Live(t), lived' = lived \cup B,
         \A t \in Tokens : Live(t)' <=> t \in B \/ (Live(t) /\ t \notin D)
  PROVE  OneTime!Change(B, D)
<1>1. \A t \in B : Stage(t) = "unborn"
  BY LiveLived DEF Stage
<1>2. \A t \in D : Stage(t) = "live"
  BY DEF Stage
<1>3. \A t \in Tokens : Stage(t)' = IF t \in B THEN "live"
                                   ELSE IF t \in D THEN "gone" ELSE Stage(t)
  <2>1. SUFFICES ASSUME NEW t \in Tokens
                 PROVE  Stage(t)' = IF t \in B THEN "live"
                                    ELSE IF t \in D THEN "gone" ELSE Stage(t)
    OBVIOUS
  <2>2. Stage(t)' = IF Live(t)' THEN "live" ELSE IF t \in lived' THEN "gone" ELSE "unborn"
    BY DEF Stage
  <2>3. Live(t)' <=> t \in B \/ (Live(t) /\ t \notin D)
    OBVIOUS
  <2>4. Live(t) => t \in lived
    BY LiveLived
  <2> QED
    BY <2>2, <2>3, <2>4 DEF Stage
<1> QED
  BY <1>1, <1>2, <1>3 DEF OneTime!Change

\* A step that only ends tokens is a step of OneTimeTokens.
LEMMA RetiringStep ==
  ASSUME TokenInv, lived' = lived, uses' = uses,
         \A t \in Tokens : Live(t)' => Live(t)
  PROVE  OneTime!Next
<1> DEFINE D == {t \in Tokens : Live(t) /\ ~Live(t)'}
<1>1. D \in SUBSET Tokens /\ \A t \in D : Live(t)
  OBVIOUS
<1>2. \A t \in Tokens : Live(t)' <=> t \in {} \/ (Live(t) /\ t \notin D)
  OBVIOUS
<1> HIDE DEF D
<1>3. OneTime!Change({}, D)
  BY <1>1, <1>2, LifeChange
<1> QED
  BY <1>1, <1>3 DEF OneTime!Next, OneTime!Retire

\* A step that hands out one token is a step of OneTimeTokens.
LEMMA IssuingStep ==
  ASSUME TokenInv, NEW new \in Tokens \ lived, lived' = lived \cup {new},
         uses' = uses, Live(new)',
         \A t \in Tokens \ {new} : Live(t)' => Live(t)
  PROVE  OneTime!Next
<1> DEFINE D == {t \in Tokens : Live(t) /\ ~Live(t)'}
<1>1. D \in SUBSET Tokens /\ \A t \in D : Live(t)
  OBVIOUS
<1>2. \A t \in Tokens : Live(t)' <=> t \in {new} \/ (Live(t) /\ t \notin D)
  OBVIOUS
<1> HIDE DEF D
<1>3. OneTime!Change({new}, D)
  BY <1>1, <1>2, LifeChange
<1> QED
  BY <1>1, <1>3 DEF OneTime!Next, OneTime!Issue

\* A step that accepts one token is a step of OneTimeTokens.
LEMMA UsingStep ==
  ASSUME TokenInv, NEW u \in Tokens, NEW B \in SUBSET Tokens, B \cap lived = {},
         lived' = lived \cup B, uses' = [uses EXCEPT ![u] = @ + 1],
         Live(u),
         \A t \in Tokens : Live(t)' <=> t \in B \/ (Live(t) /\ t # u)
  PROVE  OneTime!Next
<1>1. OneTime!Change(B, {u})
  BY LifeChange
<1> QED
  BY <1>1 DEF OneTime!Next, OneTime!Use

\* Handlers that do not write: how their progress may change.
LEMMA QuietSteps ==
  ASSUME TokenInv, NEW r \in Conns,
         \/ \E cmd \in Commands, arg \in Tokens \cup {None} : Arrive(r, cmd, arg)
         \/ Load(r) \/ CreateSession(r) \/ Act(r) \/ DiskFault(r)
  PROVE  /\ UNCHANGED <<disk, lived, uses, chain, ended>>
         /\ \A s \in Conns :
              /\ req'[s].pc = "fill" => req'[s] = req[s]
              /\ Writes(req'[s]) => req'[s] = req[s] \/ req'[s].mem = disk
              /\ Pairing(s)' => Pairing(s) /\ req'[s].arg = req[s].arg
              /\ req'[s].pc = "act" => req'[s] = req[s]
<1>1. UNCHANGED <<disk, lived, uses, chain, ended>>
  BY DEF Arrive, Load, CreateSession, Act, DiskFault, store, history
<1>2. CASE Answers(r)
  <2>1. req'[r] = Idle /\ \A s \in Conns \ {r} : req'[s] = req[s]
    BY <1>2, AnswersFacts
  <2> QED
    BY <1>1, <2>1, NoneAssumption DEF Idle, Writes, Pairing, Commands
<1>3. CASE /\ req' = [req EXCEPT ![r].pc = "open", ![r].mem = disk]
           /\ req[r].cmd # "complete" \/ req[r].pc = "session"
  <2>1. /\ req'[r].pc = "open" /\ req'[r].cmd = req[r].cmd
        /\ req'[r].arg = req[r].arg /\ req'[r].mem = disk
        /\ \A s \in Conns \ {r} : req'[s] = req[s]
    BY <1>3, RequestFacts DEF TokenInv, TypeOK, Request
  <2> QED
    BY <1>1, <1>3, <2>1 DEF Writes, Pairing
<1>4. CASE \E cmd \in Commands, arg \in Tokens \cup {None} : Arrive(r, cmd, arg)
  <2>1. PICK cmd \in Commands, arg \in Tokens \cup {None} :
          req' = [req EXCEPT ![r] = [pc |-> "lock", cmd |-> cmd, arg |-> arg,
                                     mem |-> Nothing]]
    BY <1>4 DEF Arrive
  <2>2. req'[r].pc = "lock" /\ \A s \in Conns \ {r} : req'[s] = req[s]
    BY <2>1 DEF TokenInv, TypeOK
  <2> QED
    BY <1>1, <2>2 DEF Writes, Pairing
<1> QED
  BY <1>2, <1>3, <1>4 DEF Load, CreateSession, Act, DiskFault

\* Handlers that do not write end tokens at most.
LEMMA QuietRefines ==
  ASSUME TokenInv, NEW r \in Conns,
         \/ \E cmd \in Commands, arg \in Tokens \cup {None} : Arrive(r, cmd, arg)
         \/ Load(r) \/ CreateSession(r) \/ Act(r) \/ DiskFault(r)
  PROVE  OneTime!Next
<1>1. \A t \in Tokens : Live(t)' => Live(t)
  BY QuietSteps DEF Live
<1>2. lived' = lived /\ uses' = uses
  BY QuietSteps
<1> QED
  BY <1>1, <1>2, RetiringStep

\* What truncation takes off the disk its writer still holds.
LEMMA TruncateRefines ==
  ASSUME TokenInv, NEW r \in Conns, Truncate(r)
  PROVE  OneTime!Next /\ lived' = lived /\ \A t \in Tokens : Live(t)' <=> Live(t)
<1> DEFINE f == FileFor(req[r].cmd)
<1>1. /\ req[r].pc = "open" /\ Goes(r, "fill") /\ UNCHANGED <<lived, uses>>
      /\ disk' = [t \in Tokens |-> IF FileOf(t) = f THEN "absent" ELSE disk[t]]
  BY DEF Truncate, history
<1>2. /\ req[r].mem = disk /\ \A s \in Conns : req[s].pc # "fill"
  BY <1>1, OneWriter DEF Writes, TokenInv, MemInv, MemOK
<1>3. /\ req'[r].pc = "fill" /\ req'[r].cmd = req[r].cmd /\ req'[r].mem = disk
      /\ \A s \in Conns \ {r} : req'[s] = req[s]
  BY <1>1, <1>2, RequestFacts DEF Goes, TokenInv, TypeOK, Request
<1>4. \A t \in Tokens : Live(t) <=> disk[t] = "live"
  BY <1>2 DEF Live
<1>5. \A t \in Tokens : Live(t)' <=> disk[t] = "live"
  <2>1. SUFFICES ASSUME NEW t \in Tokens PROVE Live(t)' <=> disk[t] = "live"
    OBVIOUS
  <2>2. Live(t)' <=> \/ disk'[t] = "live"
                     \/ /\ FileFor(req'[r].cmd) = FileOf(t)
                        /\ req'[r].mem[t] = "live"
    BY <1>2, <1>3 DEF Live
  <2> QED
    BY <1>1, <1>3, <2>2
<1> QED
  BY <1>1, <1>4, <1>5, RetiringStep

\* A pairing code is used up as it leaves the disk.
LEMMA ConsumePairingRefines ==
  ASSUME TokenInv, NEW r \in Conns, ConsumePairingToken(r)
  PROVE  OneTime!Next
<1> DEFINE c == req[r].arg
<1>1. req[r].pc = "lock" /\ req[r].cmd = "complete" /\ mu = None /\ UNCHANGED lived
  BY DEF ConsumePairingToken, Unlocked
<1>2. \A s \in Conns : ~Writes(req[s])
  BY <1>1, PoolAssumption DEF TokenInv, LockInv
<1>3. c \in Codes /\ c \in Tokens
  BY <1>1 DEF TokenInv, ArgInv, ArgOK, Tokens
<1>4. \A t \in Tokens : Live(t) <=> disk[t] = "live"
  BY <1>2, RestLive
<1>5. CASE /\ disk[c] = "live" /\ disk' = [disk EXCEPT ![c] = "absent"]
           /\ uses' = [uses EXCEPT ![c] = @ + 1] /\ Goes(r, "session")
  <2>1. \A s \in Conns : req'[s].pc # "fill"
    BY <1>2, <1>5, RequestFacts DEF Goes, TokenInv, TypeOK, Request, Writes
  <2>2. \A t \in Tokens : Live(t)' <=> disk'[t] = "live"
    BY <2>1 DEF Live
  <2>3. \A t \in Tokens : disk'[t] = "live" <=> disk[t] = "live" /\ t # c
    BY <1>3, <1>5 DEF TokenInv, TypeOK, Records
  <2>4. \A t \in Tokens : Live(t)' <=> t \in {} \/ (Live(t) /\ t # c)
    BY <1>4, <2>2, <2>3
  <2>5. Live(c) /\ lived' = lived \cup {} /\ {} \in SUBSET Tokens /\ {} \cap lived = {}
    BY <1>1, <1>3, <1>4, <1>5
  <2>6. uses' = [uses EXCEPT ![c] = @ + 1]
    BY <1>5
  <2> HIDE DEF c
  <2> QED
    BY <1>3, <2>4, <2>5, <2>6, UsingStep
<1>6. CASE /\ disk' \in {disk, [t \in Tokens |-> IF t \in Codes THEN "absent"
                                                              ELSE disk[t]]}
           /\ Answers(r)
           /\ UNCHANGED uses
  <2>1. \A t \in Tokens : Live(t)' <=> disk'[t] = "live"
    BY <1>2, <1>6, AnswersFacts DEF Live, Writes
  <2>2. \A t \in Tokens : Live(t)' => Live(t)
    BY <1>4, <1>6, <2>1 DEF TokenInv, TypeOK, Records
  <2> QED
    BY <1>1, <1>6, <2>2, RetiringStep
<1> QED
  BY <1>5, <1>6 DEF ConsumePairingToken
\* Writes that add nothing.
LEMMA DroppingRefines ==
  ASSUME TokenInv, NEW r \in Conns, req[r].pc = "fill", NEW out, NEW dead,
         Save(r, {}, out, dead), \A s \in Conns : ~Writes(req'[s]), uses' = uses
  PROVE  OneTime!Next
<1>1. lived' = lived
  BY DEF Save
<1>2. \A t \in Tokens : Live(t)' => Live(t)
  BY SavedLive
<1> QED
  BY <1>1, <1>2, RetiringStep

\* Writes that add a token and use none.
LEMMA AddingRefines ==
  ASSUME TokenInv, NEW r \in Conns, req[r].pc = "fill", NEW out, NEW dead,
         NEW new \in Tokens \ lived, FileOf(new) = FileFor(req[r].cmd),
         Save(r, {new}, out, dead), \A s \in Conns : ~Writes(req'[s]), uses' = uses
  PROVE  OneTime!Next
<1>1. lived' = lived \cup {new}
  BY DEF Save
<1>2. \A t \in Tokens \ {new} : Live(t)' => Live(t)
  BY SavedLive
<1>3. Live(new)'
  BY SavedLive
<1> QED
  BY <1>1, <1>2, <1>3, IssuingStep

\* Writes that take token u out, which was live and is counted as used.
LEMMA SpendingRefines ==
  ASSUME TokenInv, NEW r \in Conns, req[r].pc = "fill",
         NEW u \in Tokens, FileOf(u) = FileFor(req[r].cmd), Live(u),
         NEW B \in SUBSET (Tokens \ lived),
         \A t \in B : FileOf(t) = FileFor(req[r].cmd),
         Save(r, B, {u}, {}), \A s \in Conns : ~Writes(req'[s]),
         uses' = [uses EXCEPT ![u] = @ + 1]
  PROVE  OneTime!Next
<1>1. lived' = lived \cup B /\ u \notin B
  BY LiveLived DEF Save
<1>2. \A t \in Tokens : Live(t)' <=> t \in B \/ (Live(t) /\ t # u)
  BY SavedLive
<1>3. B \in SUBSET Tokens /\ B \cap lived = {}
  OBVIOUS
<1> QED
  BY <1>1, <1>2, <1>3, UsingStep

\* Every write issues, uses or retires.
LEMMA WriteRefines ==
  ASSUME TokenInv, NEW r \in Conns,
         \/ IssuePairingToken(r) \/ SaveSession(r) \/ Rotate(r)
         \/ RevokeRefreshToken(r) \/ IssueConfirmToken(r) \/ ConsumeConfirmToken(r)
  PROVE  OneTime!Next
<1> DEFINE a == req[r].arg
<1>1. req[r].pc = "fill" /\ req[r].cmd \in Commands /\ MemOK(req[r])
  BY RequestFacts DEF IssuePairingToken, SaveSession, Rotate, RevokeRefreshToken,
     IssueConfirmToken, ConsumeConfirmToken, Filling, TokenInv, MemInv, Writes
<1>2. ArgOK(req[r])
  BY DEF TokenInv, ArgInv
<1>3. \A s \in Conns \ {r} : ~Writes(req[s])
  BY <1>1, OneWriter DEF Writes
<1>4. \A s \in Conns : ~Writes(req'[s])
  <2>1. CASE Answers(r)
    BY <1>3, <2>1, AnswersFacts
  <2>2. CASE Goes(r, "act")
    BY <1>3, <2>2, RequestFacts DEF Goes, TokenInv, TypeOK, Request, Writes
  <2> QED
    BY <2>1, <2>2 DEF IssuePairingToken, SaveSession, Rotate, RevokeRefreshToken,
       IssueConfirmToken, ConsumeConfirmToken, Reply
<1>5. CASE IssuePairingToken(r)
  <2>1. PICK new \in Fresh(Codes) :
          req[r].cmd = "init" /\ Save(r, {new}, Codes, {}) /\ uses' = uses
    BY <1>5 DEF IssuePairingToken, Filling
  <2>2. new \in Tokens \ lived /\ FileOf(new) = FileFor(req[r].cmd)
    BY <2>1, TokenPools, FileOfPool DEF Fresh, FileFor
  <2> QED
    BY <1>1, <1>4, <2>1, <2>2, AddingRefines
<1>6. CASE SaveSession(r)
  <2>1. PICK new \in Fresh(Refreshes) :
          req[r].cmd = "complete" /\ Save(r, {new}, {}, {}) /\ uses' = uses
    BY <1>6 DEF SaveSession, Filling
  <2>2. new \in Tokens \ lived /\ FileOf(new) = FileFor(req[r].cmd)
    BY <2>1, TokenPools, FileOfPool DEF Fresh, FileFor
  <2> QED
    BY <1>1, <1>4, <2>1, <2>2, AddingRefines
<1>7. CASE Rotate(r)
  <2>1. PICK new \in Fresh(Refreshes) :
          /\ req[r].cmd = "rotate" /\ Save(r, {new}, {a}, {})
          /\ uses' = [uses EXCEPT ![a] = @ + 1]
    BY <1>7 DEF Rotate, Filling
  <2>2. new \in Tokens \ lived /\ FileOf(new) = FileFor(req[r].cmd)
    BY <2>1, TokenPools, FileOfPool DEF Fresh, FileFor
  <2>3. a \in Tokens /\ FileOf(a) = FileFor(req[r].cmd) /\ req[r].mem[a] = "live"
    BY <1>1, <1>2, <2>1, TokenPools, FileOfPool DEF ArgOK, MemOK, FileFor
  <2>4. Live(a)
    BY <1>1, <2>3 DEF Live
  <2>5. {new} \in SUBSET (Tokens \ lived)
    BY <2>2
  <2> QED
    BY <1>1, <1>4, <2>1, <2>2, <2>3, <2>4, <2>5, SpendingRefines
<1>8. CASE RevokeRefreshToken(r)
  <2>1. Save(r, {}, {}, {a}) /\ uses' = uses
    BY <1>8 DEF RevokeRefreshToken
  <2> QED
    BY <1>1, <1>4, <2>1, DroppingRefines
<1>9. CASE IssueConfirmToken(r)
  <2>1. PICK new \in Fresh(Confirms) :
          req[r].cmd = "confirm" /\ Save(r, {new}, expired, {}) /\ uses' = uses
    BY <1>9 DEF IssueConfirmToken, Filling
  <2>2. new \in Tokens \ lived /\ FileOf(new) = FileFor(req[r].cmd)
    BY <2>1, TokenPools, FileOfPool DEF Fresh, FileFor
  <2> QED
    BY <1>1, <1>4, <2>1, <2>2, AddingRefines
<1>10. CASE ConsumeConfirmToken(r)
  <2>1. req[r].cmd = "act" /\ Save(r, {}, {a}, {})
    BY <1>10 DEF ConsumeConfirmToken, Filling
  <2>2. CASE uses' = uses
    BY <1>1, <1>4, <2>1, <2>2, DroppingRefines
  <2>3. CASE uses' = [uses EXCEPT ![a] = @ + 1]
    <3>1. /\ a \in Tokens /\ a \notin Refreshes
          /\ FileOf(a) = FileFor(req[r].cmd) /\ req[r].mem[a] # "absent"
      BY <1>1, <1>2, <2>1, TokenPools, FileOfPool, PoolAssumption
         DEF ArgOK, MemOK, FileFor
    <3>2. req[r].mem[a] = "live"
      BY <1>1, <3>1, RequestFacts DEF MemOK, Records
    <3>3. Live(a)
      BY <1>1, <3>1, <3>2 DEF Live
    <3>4. {} \in SUBSET (Tokens \ lived) /\ \A t \in {} : FileOf(t) = FileFor(req[r].cmd)
      OBVIOUS
    <3>5. req[r].pc = "fill" /\ Save(r, {}, {a}, {})
      BY <1>1, <2>1
    <3> HIDE DEF a
    <3> QED
      BY <1>4, <2>3, <3>1, <3>3, <3>4, <3>5, SpendingRefines
  <2> QED
    BY <1>10, <2>2, <2>3 DEF ConsumeConfirmToken
<1> QED
  BY <1>5, <1>6, <1>7, <1>8, <1>9, <1>10

\* Expiry and restarts end tokens at most.
LEMMA EnvironmentRefines ==
  ASSUME TokenInv, \/ \E t \in Tokens : Expire(t)
                   \/ Crash
  PROVE  OneTime!Next
<1>1. UNCHANGED <<disk, lived, uses>>
  BY DEF Expire, Crash, store, history
<1>2. \A s \in Conns : req'[s].pc = "fill" => req'[s] = req[s]
  BY DEF Expire, Crash, Idle
<1>3. \A t \in Tokens : Live(t)' => Live(t)
  BY <1>1, <1>2 DEF Live
<1> QED
  BY <1>1, <1>3, RetiringStep

\* Every step of the store is a step of OneTimeTokens, or none.
LEMMA StepRefines ==
  ASSUME TokenInv, [Next]_vars
  PROVE  [OneTime!Next]_(OneTime!vars)
<1>1. CASE Next
  <2>1. CASE \E r \in Conns : Step(r)
    BY <2>1, QuietRefines, TruncateRefines, ConsumePairingRefines, WriteRefines DEF Step
  <2>2. CASE \E r \in Conns, cmd \in Commands, arg \in Tokens \cup {None} :
               Arrive(r, cmd, arg)
    BY <2>2, QuietRefines
  <2> QED
    BY <1>1, <2>1, <2>2, EnvironmentRefines DEF Next
<1>2. CASE UNCHANGED vars
  BY <1>2 DEF vars, store, history, OneTime!vars, Stage, Live
<1> QED
  BY <1>1, <1>2

\* An empty store is the initial state of OneTimeTokens.
LEMMA InitRefines == Init => OneTime!Init
BY DEF Init, OneTime!Init, Stage, Live, Idle, Nothing
-----------------------------------------------------------------------------
(* Tokens are accepted once *)

\* A token that was accepted is gone, and is not accepted again.
LEMMA OnceStep ==
  ASSUME TokenInv, OneTime!AcceptedOnce, [OneTime!Next]_(OneTime!vars)
  PROVE  OneTime!AcceptedOnce'
<1> DEFINE st == [t \in Tokens |-> Stage(t)]
           Once(t) == uses[t] = 0 \/ (uses[t] = 1 /\ st[t] = "gone")
<1>1. SUFFICES ASSUME NEW t \in Tokens, Once(t) PROVE Once(t)'
  BY DEF OneTime!AcceptedOnce
<1>2. uses \in [Tokens -> Nat]
  BY DEF TokenInv, TypeOK
<1>3. CASE OneTime!Next
  <2> DEFINE Chg(B, D) ==
        /\ \A u \in B : st[u] = "unborn"
        /\ \A u \in D : st[u] = "live"
        /\ st' = [u \in Tokens |-> IF u \in B THEN "live"
                                 ELSE IF u \in D THEN "gone" ELSE st[u]]
  <2>1. PICK B \in SUBSET Tokens, D \in SUBSET Tokens :
          /\ Chg(B, D)
          /\ uses' = uses \/ \E u \in D : D = {u} /\ uses' = [uses EXCEPT ![u] = @ + 1]
    <3>1. CASE \E D \in SUBSET Tokens : OneTime!Retire(D)
      <4>1. PICK D \in SUBSET Tokens : Chg({}, D) /\ uses' = uses
        BY <3>1 DEF OneTime!Retire, OneTime!Change
      <4> HIDE DEF Chg
      <4>2. {} \in SUBSET Tokens
        OBVIOUS
      <4> QED
        BY <4>1, <4>2
    <3>2. CASE \E u \in Tokens : OneTime!Issue(u)
      <4>1. PICK u \in Tokens, D \in SUBSET Tokens : Chg({u}, D) /\ uses' = uses
        BY <3>2 DEF OneTime!Issue, OneTime!Change
      <4> QED
        BY <4>1
    <3>3. CASE \E u \in Tokens : OneTime!Use(u)
      <4>1. PICK u \in Tokens, B \in SUBSET Tokens :
              Chg(B, {u}) /\ uses' = [uses EXCEPT ![u] = @ + 1]
        BY <3>3 DEF OneTime!Use, OneTime!Change
      <4> HIDE DEF st
      <4>2. {u} \in SUBSET Tokens /\ \E v \in {u} : {u} = {v} /\ uses' = [uses EXCEPT ![v] = @ + 1]
        BY <4>1
      <4> QED
        BY <4>1, <4>2
    <3> QED
      BY <1>3, <3>1, <3>2, <3>3 DEF OneTime!Next
  <2>2. st[t] = "gone" => st'[t] = "gone"
    BY <2>1
  <2>3. CASE uses' = uses
    BY <1>1, <2>2, <2>3
  <2>4. CASE \E u \in D : D = {u} /\ uses' = [uses EXCEPT ![u] = @ + 1]
    <3>1. PICK u \in D : D = {u} /\ uses' = [uses EXCEPT ![u] = @ + 1]
      BY <2>4
    <3>2. CASE t # u
      BY <1>1, <1>2, <2>2, <3>1, <3>2
    <3>3. CASE t = u
      <4>1. st[t] = "live" /\ st'[t] = "gone"
        BY <2>1, <3>1, <3>3
      <4>2. uses[t] = 0 /\ uses'[t] = 1
        BY <1>1, <1>2, <3>1, <3>3, <4>1
      <4> QED
        BY <4>1, <4>2
    <3> QED
      BY <3>2, <3>3
  <2> QED
    BY <2>1, <2>3, <2>4
<1>4. CASE UNCHANGED OneTime!vars
  BY <1>1, <1>4 DEF OneTime!vars
<1> QED
  BY <1>3, <1>4

\* What is live was not accepted yet.
LEMMA LiveUnused ==
  ASSUME OneTime!AcceptedOnce, NEW t \in Tokens, Live(t)
  PROVE  uses[t] = 0
BY DEF OneTime!AcceptedOnce, Stage

\* Uses are never forgotten.
LEMMA UsesGrow ==
  ASSUME TokenInv, [OneTime!Next]_(OneTime!vars)
  PROVE  \A t \in Tokens : uses'[t] \in Nat /\ uses[t] \in Nat /\ uses'[t] >= uses[t]
<1>1. uses \in [Tokens -> Nat]
  BY DEF TokenInv, TypeOK
<1>2. \/ uses' = uses
      \/ \E u \in Tokens : uses' = [uses EXCEPT ![u] = @ + 1]
  BY DEF OneTime!Next, OneTime!Issue, OneTime!Use, OneTime!Retire, OneTime!vars
<1>3. CASE \E u \in Tokens : uses' = [uses EXCEPT ![u] = @ + 1]
  BY <1>1, <1>3
<1> QED
  BY <1>1, <1>2, <1>3

-----------------------------------------------------------------------------
(* A code is spent once, for one session *)

\* Steps that start no pairing and no session.
LEMMA PairKept ==
  ASSUME TokenInv, PairInv, [OneTime!Next]_(OneTime!vars), chain' = chain,
         \A t \in Refreshes : t \in lived' <=> t \in lived,
         \A s \in Conns : Pairing(s)' => Pairing(s) /\ req'[s].arg = req[s].arg
  PROVE  PairInv'
<1>1. \A t \in Tokens : uses[t] # 0 => uses'[t] # 0
  BY UsesGrow
<1>2. \A s \in Conns : Pairing(s) => req[s].arg \in Tokens
  BY TokenPools DEF Pairing, TokenInv, ArgInv, ArgOK
<1>3. \A t \in Refreshes :
        IF t \in lived' THEN chain'[t] \in Codes /\ uses'[chain'[t]] # 0
                        ELSE chain'[t] = None
  BY <1>1, TokenPools DEF PairInv
<1>4. ASSUME NEW s \in Conns, Pairing(s)'
      PROVE  /\ uses'[req'[s].arg] # 0
             /\ \A t \in Refreshes : chain'[t] # req'[s].arg
             /\ \A o \in Conns \ {s} : Pairing(o)' => req'[o].arg # req'[s].arg
  BY <1>1, <1>2, <1>4 DEF PairInv
<1> QED
  BY <1>3, <1>4 DEF PairInv

\* A code that is accepted was never used: no session descends from it.
LEMMA PairConsume ==
  ASSUME TokenInv, OneTime!AcceptedOnce, PairInv, NEW r \in Conns,
         ConsumePairingToken(r)
  PROVE  PairInv'
<1> DEFINE c == req[r].arg
<1>1. /\ req[r].pc = "lock" /\ req[r].cmd = "complete" /\ mu = None
      /\ UNCHANGED <<lived, chain>>
  BY DEF ConsumePairingToken, Unlocked
<1>2. c \in Codes /\ c \in Tokens
  BY <1>1 DEF TokenInv, ArgInv, ArgOK, Tokens
<1>3. CASE Answers(r)
  <2>1. \A s \in Conns : Pairing(s)' => Pairing(s) /\ req'[s].arg = req[s].arg
    BY <1>3, AnswersFacts DEF Pairing, Idle
  <2>2. [OneTime!Next]_(OneTime!vars)
    BY ConsumePairingRefines
  <2> QED
    BY <1>1, <2>1, <2>2, PairKept
<1>4. CASE /\ disk[c] = "live" /\ uses' = [uses EXCEPT ![c] = @ + 1]
           /\ Goes(r, "session")
  <2>1. /\ req'[r].pc = "session" /\ req'[r].cmd = "complete" /\ req'[r].arg = c
        /\ \A s \in Conns \ {r} : req'[s] = req[s]
    BY <1>1, <1>4, RequestFacts DEF Goes, TokenInv, TypeOK, Request
  <2>2. uses[c] = 0
    BY <1>2, <1>4, LiveUnused DEF Live
  <2>3. \A t \in Refreshes : chain[t] # c
    BY <1>2, <2>2, PoolAssumption DEF PairInv
  <2>4. \A s \in Conns \ {r} : Pairing(s) => req[s].arg # c
    BY <2>2 DEF PairInv
  <2>5. /\ uses'[c] # 0
        /\ \A t \in Tokens \ {c} : uses'[t] = uses[t]
    BY <1>2, <1>4, <2>2 DEF TokenInv, TypeOK
  <2>6. ASSUME NEW s \in Conns, Pairing(s)'
        PROVE  /\ uses'[req'[s].arg] # 0
               /\ \A t \in Refreshes : chain'[t] # req'[s].arg
               /\ \A o \in Conns \ {s} : Pairing(o)' => req'[o].arg # req'[s].arg
    <3>1. CASE s = r
      BY <1>1, <2>1, <2>3, <2>4, <2>5, <3>1 DEF Pairing
    <3>2. CASE s # r
      <4>1. Pairing(s) /\ req'[s] = req[s]
        BY <2>1, <2>6, <3>2 DEF Pairing
      <4>2. req[s].arg \in Tokens /\ req[s].arg # c
        BY <2>4, <3>2, <4>1, TokenPools DEF Pairing, TokenInv, ArgInv, ArgOK
      <4> QED
        BY <1>1, <2>1, <2>5, <3>2, <4>1, <4>2 DEF Pairing, PairInv
    <3> QED
      BY <3>1, <3>2
  <2>7. \A t \in Refreshes :
          IF t \in lived' THEN chain'[t] \in Codes /\ uses'[chain'[t]] # 0
                          ELSE chain'[t] = None
    BY <1>1, <2>3, <2>5, TokenPools DEF PairInv
  <2> QED
    BY <2>6, <2>7 DEF PairInv
<1> QED
  BY <1>3, <1>4 DEF ConsumePairingToken

\* A saved session is the only one of its code.
LEMMA PairSave ==
  ASSUME TokenInv, PairInv, NEW r \in Conns, SaveSession(r)
  PROVE  PairInv'
<1> DEFINE c == req[r].arg
<1>1. PICK new \in Fresh(Refreshes) :
        /\ req[r].pc = "fill" /\ req[r].cmd = "complete"
        /\ lived' = lived \cup {new} /\ Answers(r) /\ uses' = uses
        /\ chain' = [chain EXCEPT ![new] = c]
  BY DEF SaveSession, Filling, Save, Reply
<1>2. c \in Codes /\ new \in Refreshes
  BY <1>1 DEF TokenInv, ArgInv, ArgOK, Fresh
<1>3. Pairing(r) /\ uses[c] # 0 /\ \A s \in Conns \ {r} : Pairing(s) => req[s].arg # c
  BY <1>1 DEF Pairing, PairInv
<1>4. /\ chain'[new] = c
      /\ \A t \in Refreshes \ {new} : chain'[t] = chain[t]
  BY <1>1, <1>2 DEF TokenInv, TypeOK
<1>5. \A s \in Conns : Pairing(s)' => s # r /\ Pairing(s) /\ req'[s] = req[s]
  BY <1>1, AnswersFacts DEF Pairing, Idle
<1>6. ASSUME NEW s \in Conns, Pairing(s)'
      PROVE  /\ uses'[req'[s].arg] # 0
             /\ \A t \in Refreshes : chain'[t] # req'[s].arg
             /\ \A o \in Conns \ {s} : Pairing(o)' => req'[o].arg # req'[s].arg
  BY <1>1, <1>3, <1>4, <1>5, <1>6 DEF PairInv
<1>7. \A t \in Refreshes :
        IF t \in lived' THEN chain'[t] \in Codes /\ uses'[chain'[t]] # 0
                        ELSE chain'[t] = None
  BY <1>1, <1>2, <1>3, <1>4 DEF PairInv
<1> QED
  BY <1>6, <1>7 DEF PairInv

\* The new token has the code of the old one.
LEMMA PairRotate ==
  ASSUME TokenInv, PairInv, NEW r \in Conns, Rotate(r)
  PROVE  PairInv'
<1> DEFINE a == req[r].arg
<1>1. PICK new \in Fresh(Refreshes) :
        /\ req[r].pc = "fill" /\ req[r].cmd = "rotate"
        /\ lived' = lived \cup {new} /\ Answers(r)
        /\ chain' = [chain EXCEPT ![new] = chain[a]]
  BY DEF Rotate, Filling, Save, Reply
<1>2. a \in Refreshes /\ new \in Refreshes /\ a \in Tokens
  BY <1>1, TokenPools DEF TokenInv, ArgInv, ArgOK, Fresh
<1>3. a \in lived
  BY <1>1, <1>2 DEF TokenInv, MemInv, MemOK, Writes
<1>4. \A t \in Tokens : uses[t] # 0 => uses'[t] # 0
  BY WriteRefines, UsesGrow
<1>5. /\ chain'[new] = chain[a]
      /\ \A t \in Refreshes \ {new} : chain'[t] = chain[t]
  BY <1>1, <1>2 DEF TokenInv, TypeOK
<1>6. \A s \in Conns : Pairing(s)' => s # r /\ Pairing(s) /\ req'[s] = req[s]
  BY <1>1, AnswersFacts DEF Pairing, Idle
<1>7. \A s \in Conns : Pairing(s) => req[s].arg \in Tokens
  BY TokenPools DEF Pairing, TokenInv, ArgInv, ArgOK
<1>8. ASSUME NEW s \in Conns, Pairing(s)'
      PROVE  /\ uses'[req'[s].arg] # 0
             /\ \A t \in Refreshes : chain'[t] # req'[s].arg
             /\ \A o \in Conns \ {s} : Pairing(o)' => req'[o].arg # req'[s].arg
  BY <1>2, <1>4, <1>5, <1>6, <1>7, <1>8 DEF PairInv
<1>9. \A t \in Refreshes :
        IF t \in lived' THEN chain'[t] \in Codes /\ uses'[chain'[t]] # 0
                        ELSE chain'[t] = None
  BY <1>1, <1>2, <1>3, <1>4, <1>5, TokenPools DEF PairInv
<1> QED
  BY <1>8, <1>9 DEF PairInv
-----------------------------------------------------------------------------
(* A revoked pairing stays ended *)

\* Steps that start and end no session.
LEMMA ChainKept ==
  ASSUME ChainInv, RevokeEndsChain, chain' = chain, ended' = ended,
         \A t \in Refreshes : (Live(t)' => Live(t)) /\ (Revoked(t)' => Revoked(t))
  PROVE  ChainInv' /\ RevokeEndsChain'
<1>1. RevokeEndsChain'
  BY DEF RevokeEndsChain
<1>2. \A t, u \in Refreshes : Live(t)' /\ Live(u)' /\ chain'[t] = chain'[u] => t = u
  BY DEF ChainInv
<1>3. \A t \in Refreshes : Revoked(t)' => chain'[t] \in ended'
  BY DEF ChainInv
<1>4. \A c \in ended' : \E t \in Refreshes : chain'[t] = c
  BY DEF ChainInv
<1> QED
  BY <1>1, <1>2, <1>3, <1>4 DEF ChainInv

\* What is revoked after a write to the refresh file.
LEMMA SavedRevoked ==
  ASSUME TokenInv, NEW r \in Conns, req[r].pc = "fill", NEW new, NEW out, NEW dead,
         Save(r, new, out, dead), \A s \in Conns : ~Writes(req'[s]),
         NEW t \in Refreshes, Revoked(t)'
  PROVE  /\ t \in dead \/ Revoked(t)
         /\ FileFor(req[r].cmd) = "refresh" => t \notin new
<1>1. disk'[t] = "revoked"
  BY DEF Revoked
<1>2. t \in Tokens
  BY TokenPools
<1> QED
  BY <1>1, <1>2, FileOfPool DEF Save, Revoked, Writes

\* Handlers that do not write revive nothing.
LEMMA ChainQuiet ==
  ASSUME TokenInv, ChainInv, RevokeEndsChain, NEW r \in Conns,
         \/ \E cmd \in Commands, arg \in Tokens \cup {None} : Arrive(r, cmd, arg)
         \/ Load(r) \/ CreateSession(r) \/ Act(r) \/ DiskFault(r)
  PROVE  ChainInv' /\ RevokeEndsChain'
<1>1. \A t \in Refreshes : Live(t)' => Live(t)
  BY QuietSteps DEF Live
<1>2. \A t \in Refreshes : Revoked(t)' => Revoked(t)
  BY QuietSteps DEF Revoked
<1>3. chain' = chain /\ ended' = ended
  BY QuietSteps
<1> QED
  BY <1>1, <1>2, <1>3, ChainKept

\* Pairing codes are not part of a session.
LEMMA ChainConsume ==
  ASSUME TokenInv, ChainInv, RevokeEndsChain, NEW r \in Conns,
         ConsumePairingToken(r)
  PROVE  ChainInv' /\ RevokeEndsChain'
<1> DEFINE c == req[r].arg
<1>1. /\ req[r].pc = "lock" /\ req[r].cmd = "complete" /\ mu = None
      /\ UNCHANGED <<chain, ended>>
      /\ Answers(r) \/ Goes(r, "session")
      /\ disk' \in {disk, [disk EXCEPT ![c] = "absent"],
                    [t \in Tokens |-> IF t \in Codes THEN "absent" ELSE disk[t]]}
  BY DEF ConsumePairingToken, Unlocked
<1>2. \A s \in Conns : ~Writes(req[s])
  BY <1>1, PoolAssumption DEF TokenInv, LockInv
<1>3. \A s \in Conns : ~Writes(req'[s])
  <2>1. CASE Answers(r)
    BY <1>2, <2>1, AnswersFacts
  <2>2. CASE Goes(r, "session")
    BY <1>2, <2>2, RequestFacts DEF Goes, TokenInv, TypeOK, Request, Writes
  <2> QED
    BY <1>1, <2>1, <2>2
<1>4. \A t \in Refreshes : disk'[t] = disk[t]
  <2>1. c \in Codes
    BY <1>1 DEF TokenInv, ArgInv, ArgOK
  <2> QED
    BY <1>1, <2>1, TokenPools, PoolAssumption DEF TokenInv, TypeOK, Records
<1>5. \A t \in Refreshes : (Live(t)' => Live(t)) /\ (Revoked(t)' => Revoked(t))
  BY <1>2, <1>3, <1>4 DEF Live, Revoked, Writes
<1> QED
  BY <1>1, <1>5, ChainKept

\* What is revoked on disk is revoked in memory.
LEMMA ChainTruncate ==
  ASSUME TokenInv, ChainInv, RevokeEndsChain, NEW r \in Conns, Truncate(r)
  PROVE  ChainInv' /\ RevokeEndsChain'
<1>1. /\ req[r].pc = "open" /\ Goes(r, "fill") /\ UNCHANGED <<chain, ended>>
      /\ \A t \in Tokens : disk'[t] \in {"absent", disk[t]}
  BY DEF Truncate, history
<1>2. \A s \in Conns : req'[s].mem = req[s].mem /\ (Writes(req'[s]) => Writes(req[s]))
  BY <1>1, RequestFacts DEF Goes, TokenInv, TypeOK, Request, Writes
<1>3. \A t \in Refreshes : Revoked(t)' => Revoked(t)
  BY <1>1, <1>2, TokenPools DEF Revoked
<1>4. \A t \in Refreshes : Live(t)' => Live(t)
  BY TruncateRefines, TokenPools
<1> QED
  BY <1>1, <1>3, <1>4, ChainKept

\* Writes that leave the sessions alone.
LEMMA ChainOther ==
  ASSUME TokenInv, ChainInv, RevokeEndsChain, NEW r \in Conns,
         IssuePairingToken(r) \/ IssueConfirmToken(r) \/ ConsumeConfirmToken(r),
         \A s \in Conns : ~Writes(req'[s])
  PROVE  ChainInv' /\ RevokeEndsChain'
<1>1. PICK new \in SUBSET (Codes \cup Confirms), out \in SUBSET Tokens :
        /\ req[r].pc = "fill" /\ Save(r, new, out, {})
        /\ UNCHANGED <<chain, ended>>
  <2>1. CASE IssuePairingToken(r)
    <3>1. PICK t \in Fresh(Codes) :
            /\ req[r].pc = "fill" /\ Save(r, {t}, Codes, {}) /\ UNCHANGED <<chain, ended>>
      BY <2>1 DEF IssuePairingToken, Filling
    <3>2. {t} \in SUBSET (Codes \cup Confirms) /\ Codes \in SUBSET Tokens
      BY TokenPools DEF Fresh
    <3> QED
      BY <3>1, <3>2
  <2>2. CASE IssueConfirmToken(r)
    <3>1. PICK t \in Fresh(Confirms) :
            /\ req[r].pc = "fill" /\ Save(r, {t}, expired, {})
            /\ UNCHANGED <<chain, ended>>
      BY <2>2 DEF IssueConfirmToken, Filling
    <3>2. {t} \in SUBSET (Codes \cup Confirms)
      BY DEF Fresh
    <3>3. Save(r, {t}, expired \cap Tokens, {})
      BY <3>1 DEF Save
    <3> QED
      BY <3>1, <3>2, <3>3
  <2>3. CASE ConsumeConfirmToken(r)
    <3>1. /\ req[r].pc = "fill" /\ req[r].cmd = "act" /\ Save(r, {}, {req[r].arg}, {})
          /\ UNCHANGED <<chain, ended>>
      BY <2>3 DEF ConsumeConfirmToken, Filling
    <3>2. {} \in SUBSET (Codes \cup Confirms) /\ {req[r].arg} \in SUBSET Tokens
      BY <3>1, TokenPools DEF TokenInv, ArgInv, ArgOK
    <3> QED
      BY <3>1, <3>2
  <2> QED
    BY <2>1, <2>2, <2>3
<1>2. ASSUME NEW t \in Refreshes PROVE Live(t)' => Live(t)
  <2>1. t \in Tokens /\ t \notin new
    BY TokenPools, PoolAssumption
  <2> QED
    BY <1>1, <2>1, SavedLive
<1>3. ASSUME NEW t \in Refreshes PROVE Revoked(t)' => Revoked(t)
  BY <1>1, SavedRevoked
<1> QED
  BY <1>1, <1>2, <1>3, ChainKept

\* The first token of a session.
LEMMA ChainSave ==
  ASSUME TokenInv, PairInv, ChainInv, RevokeEndsChain, NEW r \in Conns, SaveSession(r)
  PROVE  ChainInv' /\ RevokeEndsChain'
<1> DEFINE c == req[r].arg
<1>1. PICK new \in Fresh(Refreshes) :
        /\ req[r].pc = "fill" /\ req[r].cmd = "complete"
        /\ Save(r, {new}, {}, {}) /\ Answers(r) /\ ended' = ended
        /\ chain' = [chain EXCEPT ![new] = c]
  BY DEF SaveSession, Filling, Reply
<1>2. new \in Refreshes /\ new \notin lived
  BY DEF Fresh
<1>3. \A t \in Refreshes : chain[t] # c
  BY <1>1 DEF PairInv, Pairing
<1>4. chain'[new] = c /\ \A t \in Refreshes \ {new} : chain'[t] = chain[t]
  BY <1>1, <1>2 DEF TokenInv, TypeOK
<1>5. \A s \in Conns : ~Writes(req'[s])
  BY <1>1, OneWriter, AnswersFacts DEF Writes
<1>6. \A t \in Refreshes : Live(t)' => t = new \/ Live(t)
  BY <1>1, <1>5, SavedLive, TokenPools
<1>7. \A t \in Refreshes : Revoked(t)' => t # new /\ Revoked(t)
  <2>1. FileFor(req[r].cmd) = "refresh"
    BY <1>1 DEF FileFor
  <2> QED
    BY <1>1, <1>5, <2>1, SavedRevoked
<1>8. c \notin ended
  BY <1>3 DEF ChainInv
<1>9. RevokeEndsChain'
  BY <1>1, <1>4, <1>6, <1>8 DEF RevokeEndsChain
<1>10. \A t, u \in Refreshes : Live(t)' /\ Live(u)' /\ chain'[t] = chain'[u] => t = u
  BY <1>3, <1>4, <1>6 DEF ChainInv
<1>11. \A t \in Refreshes : Revoked(t)' => chain'[t] \in ended'
  BY <1>1, <1>4, <1>7 DEF ChainInv
<1>12. \A d \in ended' : \E t \in Refreshes : chain'[t] = d
  <2>1. SUFFICES ASSUME NEW d \in ended PROVE \E t \in Refreshes : chain'[t] = d
    BY <1>1
  <2>2. PICK t \in Refreshes : chain[t] = d
    BY DEF ChainInv
  <2>3. d \in Codes /\ chain[new] = None
    BY <1>2 DEF TokenInv, TypeOK, PairInv
  <2>4. t # new
    BY <2>2, <2>3, PoolAssumption
  <2> QED
    BY <1>4, <2>2, <2>4
<1> QED
  BY <1>9, <1>10, <1>11, <1>12 DEF ChainInv

\* The next token of a session takes the place of the one before.
LEMMA ChainRotate ==
  ASSUME TokenInv, PairInv, ChainInv, RevokeEndsChain, NEW r \in Conns, Rotate(r)
  PROVE  ChainInv' /\ RevokeEndsChain'
<1> DEFINE a == req[r].arg
<1>1. PICK new \in Fresh(Refreshes) :
        /\ req[r].pc = "fill" /\ req[r].cmd = "rotate"
        /\ Save(r, {new}, {a}, {}) /\ Answers(r) /\ ended' = ended
        /\ chain' = [chain EXCEPT ![new] = chain[a]]
  BY DEF Rotate, Filling, Reply
<1>2. /\ new \in Refreshes /\ new \notin lived
      /\ a \in Refreshes /\ a \in Tokens
  BY <1>1, TokenPools DEF Fresh, TokenInv, ArgInv, ArgOK
<1>3. Live(a) /\ chain[a] \notin ended
  <2>1. req[r].mem[a] = "live"
    BY <1>1 DEF TokenInv, MemInv, MemOK, Writes
  <2>2. FileFor(req[r].cmd) = FileOf(a)
    BY <1>1, <1>2, FileOfPool DEF FileFor
  <2> QED
    BY <1>1, <1>2, <2>1, <2>2 DEF Live, RevokeEndsChain
<1>4. chain'[new] = chain[a] /\ \A t \in Refreshes \ {new} : chain'[t] = chain[t]
  BY <1>1, <1>2 DEF TokenInv, TypeOK
<1>5. \A s \in Conns : ~Writes(req'[s])
  BY <1>1, OneWriter, AnswersFacts DEF Writes
<1>6. \A t \in Refreshes : Live(t)' => t = new \/ (Live(t) /\ t # a)
  <2>1. SUFFICES ASSUME NEW t \in Refreshes, Live(t)'
                 PROVE  t = new \/ (Live(t) /\ t # a)
    OBVIOUS
  <2>2. t \in Tokens /\ FileFor(req[r].cmd) = FileOf(t)
    BY <1>1, TokenPools, FileOfPool DEF FileFor
  <2> QED
    BY <1>1, <1>5, <2>1, <2>2, SavedLive
<1>7. \A t \in Refreshes : Revoked(t)' => t # new /\ Revoked(t)
  <2>1. FileFor(req[r].cmd) = "refresh"
    BY <1>1 DEF FileFor
  <2> QED
    BY <1>1, <1>5, <2>1, SavedRevoked
<1>8. RevokeEndsChain'
  BY <1>1, <1>3, <1>4, <1>6 DEF RevokeEndsChain
<1>9. \A t, u \in Refreshes : Live(t)' /\ Live(u)' /\ chain'[t] = chain'[u] => t = u
  BY <1>2, <1>3, <1>4, <1>6 DEF ChainInv
<1>10. \A t \in Refreshes : Revoked(t)' => chain'[t] \in ended'
  BY <1>1, <1>4, <1>7 DEF ChainInv
<1>11. \A d \in ended' : \E t \in Refreshes : chain'[t] = d
  <2>1. SUFFICES ASSUME NEW d \in ended PROVE \E t \in Refreshes : chain'[t] = d
    BY <1>1
  <2>2. PICK t \in Refreshes : chain[t] = d
    BY DEF ChainInv
  <2>3. d \in Codes /\ chain[new] = None
    BY <1>2 DEF TokenInv, TypeOK, PairInv
  <2>4. t # new
    BY <2>2, <2>3, PoolAssumption
  <2> QED
    BY <1>4, <2>2, <2>4
<1> QED
  BY <1>8, <1>9, <1>10, <1>11 DEF ChainInv

\* Revoking a token ends its session: of the others none was live.
LEMMA ChainRevoke ==
  ASSUME TokenInv, PairInv, ChainInv, RevokeEndsChain, NEW r \in Conns,
         RevokeRefreshToken(r)
  PROVE  ChainInv' /\ RevokeEndsChain' /\ chain[req[r].arg] \in Codes
<1> DEFINE a == req[r].arg
<1>1. /\ req[r].pc = "fill" /\ req[r].cmd = "revoke"
      /\ Save(r, {}, {}, {a}) /\ Answers(r) /\ chain' = chain
      /\ ended' = ended \cup {chain[a]}
  BY DEF RevokeRefreshToken, Filling
<1>2. a \in Refreshes /\ a \in Tokens /\ FileFor(req[r].cmd) = FileOf(a)
  BY <1>1, TokenPools, FileOfPool DEF TokenInv, ArgInv, ArgOK, FileFor
<1>3. req[r].mem[a] \in {"live", "revoked"} /\ a \in lived
  BY <1>1, <1>2, RequestFacts DEF TokenInv, MemInv, MemOK, Writes, Records
<1>4. Live(a) \/ Revoked(a)
  BY <1>1, <1>2, <1>3 DEF Live, Revoked, Writes
<1>5. \A s \in Conns : ~Writes(req'[s])
  BY <1>1, OneWriter, AnswersFacts DEF Writes
<1>6. \A t \in Refreshes : Live(t)' => Live(t) /\ t # a
  <2>1. SUFFICES ASSUME NEW t \in Refreshes, Live(t)' PROVE Live(t) /\ t # a
    OBVIOUS
  <2>2. t \in Tokens /\ FileFor(req[r].cmd) = FileOf(t)
    BY <1>1, TokenPools, FileOfPool DEF FileFor
  <2> QED
    BY <1>1, <1>5, <2>1, <2>2, SavedLive
<1>7. \A t \in Refreshes : Revoked(t)' => t = a \/ Revoked(t)
  BY <1>1, <1>5, SavedRevoked
<1>8. RevokeEndsChain'
  <2>1. SUFFICES ASSUME NEW t \in Refreshes, Live(t)' PROVE chain[t] \notin ended'
    BY <1>1 DEF RevokeEndsChain
  <2>2. Live(t) /\ t # a /\ chain[t] \notin ended
    BY <1>6, <2>1 DEF RevokeEndsChain
  <2>3. chain[t] # chain[a]
    BY <1>2, <1>4, <2>1, <2>2 DEF ChainInv
  <2> QED
    BY <1>1, <2>2, <2>3
<1>9. \A t, u \in Refreshes : Live(t)' /\ Live(u)' /\ chain'[t] = chain'[u] => t = u
  BY <1>1, <1>6 DEF ChainInv
<1>10. \A t \in Refreshes : Revoked(t)' => chain'[t] \in ended'
  BY <1>1, <1>7 DEF ChainInv
<1>11. \A d \in ended' : \E t \in Refreshes : chain'[t] = d
  BY <1>1, <1>2 DEF ChainInv
<1>12. chain[a] \in Codes
  BY <1>2, <1>3 DEF PairInv
<1> QED
  BY <1>8, <1>9, <1>10, <1>11, <1>12 DEF ChainInv
-----------------------------------------------------------------------------
(* An accepted confirmation starts its action once *)

\* Steps that accept no confirmation and start no action.
LEMMA ActKept ==
  ASSUME TokenInv, ActInv, [OneTime!Next]_(OneTime!vars), performed' = performed,
         \A s \in Conns : req'[s].pc = "act" => req'[s] = req[s]
  PROVE  ActInv'
<1>1. performed \in [Confirms -> Nat]
  BY DEF TokenInv, TypeOK
<1>2. \A k \in Confirms : uses'[k] \in Nat /\ uses[k] \in Nat /\ uses'[k] >= uses[k]
  BY UsesGrow, TokenPools
<1>3. ASSUME NEW k \in Confirms
      PROVE  /\ performed'[k] <= uses'[k]
             /\ \A s \in Conns :
                  req'[s].pc = "act" /\ req'[s].arg = k =>
                    /\ performed'[k] < uses'[k]
                    /\ \A o \in Conns \ {s} :
                         ~(req'[o].pc = "act" /\ req'[o].arg = k)
  BY <1>1, <1>2 DEF ActInv
<1> QED
  BY <1>3 DEF ActInv

\* Starting the action uses up what was accepted for it.
LEMMA ActStep ==
  ASSUME TokenInv, ActInv, NEW r \in Conns, Act(r)
  PROVE  ActInv'
<1> DEFINE a == req[r].arg
<1>1. /\ req[r].pc = "act" /\ Answers(r) /\ uses' = uses
      /\ performed' \in {performed, [performed EXCEPT ![a] = @ + 1]}
  BY DEF Act
<1>2. a \in Confirms
  BY <1>1 DEF TokenInv, ArgInv, ArgOK
<1>3. req'[r].pc # "act" /\ \A s \in Conns \ {r} : req'[s] = req[s]
  BY <1>1, AnswersFacts DEF Idle
<1>4. /\ performed'[a] <= performed[a] + 1
      /\ \A k \in Confirms \ {a} : performed'[k] = performed[k]
  BY <1>1, <1>2 DEF TokenInv, TypeOK
<1>5. performed[a] < uses[a] /\ \A s \in Conns \ {r} : ~(req[s].pc = "act" /\ req[s].arg = a)
  BY <1>1, <1>2 DEF ActInv
<1>6. performed'[a] <= uses'[a]
  <2>1. performed[a] \in Nat /\ performed'[a] \in Nat /\ uses[a] \in Nat
    BY <1>1, <1>2, TokenPools DEF TokenInv, TypeOK
  <2> QED
    BY <1>1, <1>4, <1>5, <2>1
<1>7. ASSUME NEW k \in Confirms
      PROVE  /\ performed'[k] <= uses'[k]
             /\ \A s \in Conns :
                  req'[s].pc = "act" /\ req'[s].arg = k =>
                    /\ performed'[k] < uses'[k]
                    /\ \A o \in Conns \ {s} :
                         ~(req'[o].pc = "act" /\ req'[o].arg = k)
  <2>1. CASE k = a
    BY <1>3, <1>5, <1>6, <2>1
  <2>2. CASE k # a
    BY <1>1, <1>3, <1>4, <2>2 DEF ActInv
  <2> QED
    BY <2>1, <2>2
<1> QED
  BY <1>7 DEF ActInv

\* A confirmation that is accepted has started nothing yet.
LEMMA ActConfirm ==
  ASSUME TokenInv, OneTime!AcceptedOnce, ActInv, NEW r \in Conns,
         ConsumeConfirmToken(r)
  PROVE  ActInv'
<1> DEFINE a == req[r].arg
<1>1. /\ req[r].pc = "fill" /\ req[r].cmd = "act" /\ performed' = performed
      /\ \/ uses' = [uses EXCEPT ![a] = @ + 1] /\ Goes(r, "act")
         \/ Answers(r)
  BY DEF ConsumeConfirmToken, Filling
<1>2. [OneTime!Next]_(OneTime!vars)
  BY WriteRefines
<1>3. CASE Answers(r)
  <2>1. \A s \in Conns : req'[s].pc = "act" => req'[s] = req[s]
    BY <1>3, AnswersFacts DEF Idle
  <2> QED
    BY <1>1, <1>2, <2>1, ActKept
<1>4. CASE uses' = [uses EXCEPT ![a] = @ + 1] /\ Goes(r, "act")
  <2>1. a \in Confirms /\ a \in Tokens /\ a \notin Refreshes
    BY <1>1, TokenPools, PoolAssumption DEF TokenInv, ArgInv, ArgOK
  <2>2. Live(a)
    <3>1. req[r].mem[a] = "live"
      BY <1>1, <2>1, RequestFacts DEF TokenInv, MemInv, MemOK, Writes, Records
    <3>2. FileFor(req[r].cmd) = FileOf(a)
      BY <1>1, <2>1, FileOfPool DEF FileFor
    <3> QED
      BY <1>1, <3>1, <3>2 DEF Live
  <2>3. uses[a] = 0 /\ uses'[a] = 1 /\ \A k \in Confirms \ {a} : uses'[k] = uses[k]
    BY <1>4, <2>1, <2>2, LiveUnused, TokenPools DEF TokenInv, TypeOK
  <2>4. performed[a] = 0 /\ \A s \in Conns : ~(req[s].pc = "act" /\ req[s].arg = a)
    <3>1. performed[a] \in Nat /\ performed[a] <= 0
      BY <2>1, <2>3 DEF ActInv, TokenInv, TypeOK
    <3>2. \A s \in Conns : req[s].pc = "act" /\ req[s].arg = a => performed[a] < 0
      BY <2>1, <2>3 DEF ActInv
    <3> QED
      BY <3>1, <3>2
  <2>5. /\ req'[r].pc = "act" /\ req'[r].arg = a
        /\ \A s \in Conns \ {r} : req'[s] = req[s]
    BY <1>4, RequestFacts DEF Goes, TokenInv, TypeOK, Request
  <2>6. ASSUME NEW k \in Confirms
        PROVE  /\ performed'[k] <= uses'[k]
               /\ \A s \in Conns :
                    req'[s].pc = "act" /\ req'[s].arg = k =>
                      /\ performed'[k] < uses'[k]
                      /\ \A o \in Conns \ {s} :
                           ~(req'[o].pc = "act" /\ req'[o].arg = k)
    <3>1. CASE k = a
      BY <1>1, <2>3, <2>4, <2>5, <3>1
    <3>2. CASE k # a
      BY <1>1, <2>3, <2>5, <3>2 DEF ActInv
    <3> QED
      BY <3>1, <3>2
  <2> QED
    BY <2>6 DEF ActInv
<1> QED
  BY <1>1, <1>3, <1>4

\* What is accepted once starts once.
LEMMA ConfirmedBound ==
  ASSUME TokenInv, OneTime!AcceptedOnce, ActInv
  PROVE  ConfirmedOnce
<1>1. \A k \in Confirms : performed[k] \in Nat /\ uses[k] \in {0, 1}
  BY TokenPools DEF TokenInv, TypeOK, OneTime!AcceptedOnce
<1> QED
  BY <1>1 DEF ActInv, ConfirmedOnce

-----------------------------------------------------------------------------
(* The mutex is left locked over a torn refresh file only *)

\* Every step of the store, and what is around it, keeps it.
LEMMA HolderStep ==
  ASSUME TokenInv, HolderInv, [Next]_vars
  PROVE  HolderInv'
<1>1. mu # None => mu \in Conns
  BY DEF TokenInv, TypeOK
<1>2. ASSUME NEW r \in Conns, Load(r) \/ CreateSession(r) PROVE HolderInv'
  <2>1. mu = None /\ torn' = torn
    BY <1>2 DEF Load, CreateSession, Unlocked
  <2>2. CASE req' = [req EXCEPT ![r].pc = "open", ![r].mem = disk]
    <3>1. req'[r].pc = "open"
      BY <2>2, RequestFacts DEF TokenInv, TypeOK, Request
    <3> QED
      BY <1>2, <2>1, <3>1 DEF Load, CreateSession, HolderInv, Writes
  <2>3. CASE Answers(r)
    <3>1. req'[r].pc = "idle"
      BY <2>3, AnswersFacts DEF Idle
    <3>2. mu' = None \/ (mu' = r /\ "refresh" \in torn) \/ (mu' = r /\ req'[r].pc = "open")
      <4>1. CASE Load(r)
        BY <2>1, <4>1, RequestFacts DEF Load, TokenInv, TypeOK, Request
      <4>2. CASE CreateSession(r)
        BY <4>2, RequestFacts DEF CreateSession, TokenInv, TypeOK, Request
      <4> QED
        BY <1>2, <4>1, <4>2
    <3> QED
      BY <2>1, <3>1, <3>2 DEF HolderInv
  <2> QED
    BY <1>2, <2>2, <2>3 DEF Load, CreateSession
<1>3. ASSUME NEW r \in Conns, ConsumePairingToken(r) PROVE HolderInv'
  BY <1>3 DEF ConsumePairingToken, Unlocked, HolderInv
<1>4. ASSUME NEW r \in Conns, Truncate(r) PROVE HolderInv'
  <2>1. mu = r /\ mu' = mu
    BY <1>4, OneWriter DEF Truncate, Writes
  <2>2. req'[r].pc = "fill"
    BY <1>4, RequestFacts DEF Truncate, Goes, TokenInv, TypeOK, Request
  <2> QED
    BY <2>1, <2>2 DEF HolderInv, Writes
<1>5. ASSUME NEW r \in Conns,
             \/ DiskFault(r) \/ IssuePairingToken(r) \/ SaveSession(r) \/ Rotate(r)
             \/ RevokeRefreshToken(r) \/ IssueConfirmToken(r) \/ ConsumeConfirmToken(r)
      PROVE  HolderInv'
  <2>1. mu' = None
    BY <1>5 DEF DiskFault, IssuePairingToken, SaveSession, Rotate, RevokeRefreshToken,
                IssueConfirmToken, ConsumeConfirmToken, Save
  <2> QED
    BY <2>1 DEF HolderInv
<1>6. ASSUME NEW r \in Conns, mu # r, torn' = torn, mu' = mu,
             \A s \in Conns \ {r} : req'[s] = req[s]
      PROVE  HolderInv'
  BY <1>1, <1>6 DEF HolderInv
<1>7. ASSUME NEW r \in Conns, Act(r) PROVE HolderInv'
  <2>1. mu # r
    BY <1>7, PoolAssumption DEF Act, HolderInv, Writes
  <2>2. \A s \in Conns \ {r} : req'[s] = req[s]
    BY <1>7, AnswersFacts DEF Act
  <2> QED
    BY <1>6, <1>7, <2>1, <2>2 DEF Act, store
<1>8. ASSUME NEW r \in Conns, NEW cmd \in Commands, NEW arg \in Tokens \cup {None},
             Arrive(r, cmd, arg)
      PROVE  HolderInv'
  <2>1. mu # r /\ mu' = mu /\ torn' = torn
    BY <1>8 DEF Arrive, store
  <2>2. \A s \in Conns \ {r} : req'[s] = req[s]
    BY <1>8 DEF Arrive, TokenInv, TypeOK
  <2> QED
    BY <1>6, <2>1, <2>2
<1>9. CASE (\E t \in Tokens : Expire(t)) \/ Crash \/ UNCHANGED vars
  BY <1>9 DEF Expire, Crash, vars, store, HolderInv
<1> QED
  BY <1>2, <1>3, <1>4, <1>5, <1>7, <1>8, <1>9 DEF Next, Step

-----------------------------------------------------------------------------
(* A device is not locked out *)

\* Steps that leave every session the tokens it had.
LEMMA SessionsKept ==
  ASSUME LockedOutExplained, chain' = chain,
         ~trouble' => ~trouble /\ ended \subseteq ended' /\ known \subseteq known',
         \A t \in Refreshes : Live(t) => Live(t)' \/ chain[t] \in ended'
  PROVE  LockedOutExplained'
<1> SUFFICES ASSUME NEW c \in Codes, NEW t \in Refreshes, chain'[t] = c,
                    c \notin ended', ~trouble'
             PROVE  \E u \in Refreshes : chain'[u] = c /\ Live(u)' /\ u \in known'
  BY DEF LockedOutExplained
<1>1. PICK u \in Refreshes : chain[u] = c /\ Live(u) /\ u \in known
  BY DEF LockedOutExplained
<1> QED
  BY <1>1

\* A step that takes no token and loses none.
LEMMA QuietSessions ==
  ASSUME TokenInv, LockedOutExplained, NEW r \in Conns,
         \/ \E cmd \in Commands, arg \in Tokens \cup {None} : Arrive(r, cmd, arg)
         \/ Load(r) \/ CreateSession(r) \/ Act(r) \/ DiskFault(r)
         \/ ConsumePairingToken(r) \/ Truncate(r)
  PROVE  LockedOutExplained'
<1>1. CASE DiskFault(r)
  BY <1>1 DEF DiskFault, LockedOutExplained
<1>2. CASE Truncate(r)
  <2>1. \A t \in Refreshes : Live(t) => Live(t)'
    BY <1>2, TruncateRefines, TokenPools
  <2>2. UNCHANGED <<chain, trouble, ended, known>>
    BY <1>2 DEF Truncate, history
  <2> QED
    BY <2>1, <2>2, SessionsKept
<1>3. CASE ConsumePairingToken(r)
  <2>1. UNCHANGED <<chain, trouble, ended, known>> /\ Unlocked
    BY <1>3 DEF ConsumePairingToken
  <2>2. \A t \in Refreshes : disk'[t] = disk[t]
    <3>1. /\ req[r].arg \in Codes
          /\ disk' \in {disk, [disk EXCEPT ![req[r].arg] = "absent"],
                        [t \in Tokens |-> IF t \in Codes THEN "absent" ELSE disk[t]]}
      BY <1>3 DEF ConsumePairingToken, TokenInv, ArgInv, ArgOK
    <3> QED
      BY <3>1, TokenPools, PoolAssumption DEF TokenInv, TypeOK, Records
  <2>3. \A s \in Conns : req[s].pc # "fill"
    BY <2>1, PoolAssumption DEF TokenInv, LockInv, Writes, Unlocked
  <2>4. \A t \in Refreshes : Live(t) => Live(t)'
    BY <2>2, <2>3 DEF Live
  <2> QED
    BY <2>1, <2>4, SessionsKept
<1>4. CASE \/ \E cmd \in Commands, arg \in Tokens \cup {None} : Arrive(r, cmd, arg)
           \/ Load(r) \/ CreateSession(r) \/ Act(r)
  <2>1. /\ UNCHANGED <<disk, chain, trouble, ended, known>>
        /\ req[r].pc # "fill" /\ \A s \in Conns \ {r} : req'[s] = req[s]
    <3>1. CASE \E cmd \in Commands, arg \in Tokens \cup {None} : Arrive(r, cmd, arg)
      BY <3>1 DEF Arrive, store, history, TokenInv, TypeOK
    <3>2. CASE Load(r) \/ CreateSession(r) \/ Act(r)
      BY <3>2, AnswersFacts DEF Load, CreateSession, Act, store, history, TokenInv, TypeOK
    <3> QED
      BY <1>4, <3>1, <3>2
  <2>2. \A s \in Conns : req[s].pc = "fill" => req'[s] = req[s]
    BY <2>1
  <2>3. \A t \in Refreshes : Live(t) => Live(t)'
    BY <2>1, <2>2 DEF Live
  <2> QED
    BY <2>1, <2>3, SessionsKept
<1> QED
  BY <1>1, <1>2, <1>3, <1>4

\* A write to the other files, or one that ends a session by revoking.
LEMMA OtherSessions ==
  ASSUME TokenInv, LockedOutExplained, NEW r \in Conns,
         \A s \in Conns : ~Writes(req'[s]),
         \/ IssuePairingToken(r) \/ IssueConfirmToken(r) \/ ConsumeConfirmToken(r)
         \/ RevokeRefreshToken(r)
  PROVE  LockedOutExplained'
<1>1. PICK new, out, dead :
        /\ req[r].pc = "fill" /\ Save(r, new, out, dead) /\ chain' = chain
        /\ ~trouble' => ~trouble /\ ended \subseteq ended' /\ known \subseteq known'
        /\ \/ FileFor(req[r].cmd) # "refresh"
           \/ out = {} /\ dead = {req[r].arg} /\ chain[req[r].arg] \in ended'
  <2>1. CASE IssuePairingToken(r)
    BY <2>1 DEF IssuePairingToken, Filling, Reply, FileFor
  <2>2. CASE IssueConfirmToken(r)
    BY <2>2 DEF IssueConfirmToken, Filling, Reply, FileFor
  <2>3. CASE ConsumeConfirmToken(r)
    BY <2>3 DEF ConsumeConfirmToken, Filling, FileFor
  <2>4. CASE RevokeRefreshToken(r)
    BY <2>4 DEF RevokeRefreshToken, Filling
  <2> QED
    BY <2>1, <2>2, <2>3, <2>4
<1>2. ASSUME NEW t \in Refreshes, Live(t) PROVE Live(t)' \/ chain[t] \in ended'
  <2>1. t \in Tokens /\ FileOf(t) = "refresh"
    BY TokenPools, FileOfPool
  <2>2. Live(t)' <=> IF FileOf(t) = FileFor(req[r].cmd)
                       THEN t \in new \/ (t \notin out \cup dead /\ Live(t))
                       ELSE Live(t)
    BY <1>1, <2>1, SavedLive
  <2> QED
    BY <1>1, <1>2, <2>1, <2>2
<1> QED
  BY <1>1, <1>2, SessionsKept

\* A session's first token, or its next one, is live and, if no answer was lost,
\* known to the device.
LEMMA NewSessions ==
  ASSUME TokenInv, PairInv, LockedOutExplained, NEW r \in Conns,
         \A s \in Conns : ~Writes(req'[s]),
         SaveSession(r) \/ Rotate(r)
  PROVE  LockedOutExplained'
<1> DEFINE a == req[r].arg
<1>1. PICK new \in Fresh(Refreshes), c \in Codes, out \in SUBSET Refreshes :
        /\ req[r].pc = "fill" /\ req[r].cmd \in {"complete", "rotate"}
        /\ Save(r, {new}, out, {}) /\ ended' = ended
        /\ ~trouble' => (~trouble /\ known' = known \cup {new})
        /\ chain' = [chain EXCEPT ![new] = c]
        /\ out = {} \/ (out = {a} /\ c = chain[a])
  <2>1. CASE SaveSession(r)
    <3>1. a \in Codes
      BY <2>1 DEF SaveSession, Filling, TokenInv, ArgInv, ArgOK
    <3>2. PICK t \in Fresh(Refreshes) :
            /\ req[r].pc = "fill" /\ req[r].cmd = "complete"
            /\ Save(r, {t}, {}, {}) /\ Reply(r, {t}) /\ ended' = ended
            /\ chain' = [chain EXCEPT ![t] = a]
      BY <2>1 DEF SaveSession, Filling
    <3>3. ~trouble' => (~trouble /\ known' = known \cup {t})
      BY <3>2 DEF Reply
    <3> QED
      BY <3>1, <3>2, <3>3
  <2>2. CASE Rotate(r)
    <3>1. req[r].pc = "fill" /\ req[r].cmd = "rotate" /\ a \in Refreshes
      BY <2>2 DEF Rotate, Filling, TokenInv, ArgInv, ArgOK
    <3>2. req[r].mem[a] = "live" /\ a \in Tokens
      BY <3>1, TokenPools DEF TokenInv, MemInv, MemOK, Writes
    <3>3. a \in lived
      BY <3>1, <3>2 DEF TokenInv, MemInv, MemOK, Writes
    <3>4. chain[a] \in Codes
      BY <3>1, <3>3 DEF PairInv
    <3>5. PICK t \in Fresh(Refreshes) :
            /\ Save(r, {t}, {a}, {}) /\ Reply(r, {t}) /\ ended' = ended
            /\ chain' = [chain EXCEPT ![t] = chain[a]]
      BY <2>2 DEF Rotate, Filling
    <3>6. ~trouble' => (~trouble /\ known' = known \cup {t})
      BY <3>5 DEF Reply
    <3> QED
      BY <3>1, <3>4, <3>5, <3>6
  <2> QED
    BY <2>1, <2>2
<1>2. new \in Refreshes /\ new \in Tokens /\ chain[new] = None
  BY TokenPools DEF Fresh, PairInv
<1>3. chain'[new] = c /\ \A t \in Refreshes \ {new} : chain'[t] = chain[t]
  BY <1>1, <1>2 DEF TokenInv, TypeOK
<1>4. \A t \in Refreshes : Live(t)' <=> t = new \/ (t \notin out /\ Live(t))
  <2> SUFFICES ASSUME NEW t \in Refreshes
               PROVE  Live(t)' <=> t = new \/ (t \notin out /\ Live(t))
    OBVIOUS
  <2>1. t \in Tokens /\ FileOf(t) = "refresh" /\ FileFor(req[r].cmd) = "refresh"
    BY <1>1, TokenPools, FileOfPool DEF FileFor
  <2> QED
    BY <1>1, <2>1, SavedLive
<1> SUFFICES ASSUME NEW d \in Codes, NEW t \in Refreshes, chain'[t] = d,
                    d \notin ended', ~trouble'
             PROVE  \E u \in Refreshes : chain'[u] = d /\ Live(u)' /\ u \in known'
  BY DEF LockedOutExplained
<1>5. CASE d = c
  BY <1>1, <1>2, <1>3, <1>4, <1>5
<1>6. CASE d # c
  <2>1. chain[t] = d
    BY <1>2, <1>3, <1>6
  <2>2. PICK u \in Refreshes : chain[u] = d /\ Live(u) /\ u \in known
    BY <1>1, <2>1 DEF LockedOutExplained
  <2>3. u # new /\ u \notin out
    BY <1>1, <1>2, <1>6, <2>2, PoolAssumption
  <2> QED
    BY <1>1, <1>3, <1>4, <2>2, <2>3
<1> QED
  BY <1>5, <1>6

\* Every step keeps a token for every device, or is a loss.
LEMMA SessionsStep ==
  ASSUME TokenInv, PairInv, LockedOutExplained, [Next]_vars
  PROVE  LockedOutExplained'
<1>1. ASSUME NEW r \in Conns,
             \/ IssuePairingToken(r) \/ SaveSession(r) \/ Rotate(r)
             \/ RevokeRefreshToken(r) \/ IssueConfirmToken(r) \/ ConsumeConfirmToken(r)
      PROVE  LockedOutExplained'
  <2>1. Writes(req[r]) /\ (Answers(r) \/ Goes(r, "act"))
    BY <1>1 DEF IssuePairingToken, SaveSession, Rotate, RevokeRefreshToken,
       IssueConfirmToken, ConsumeConfirmToken, Filling, Reply, Writes
  <2>2. \A s \in Conns : ~Writes(req'[s])
    <3>1. CASE Answers(r)
      BY <2>1, <3>1, OneWriter, AnswersFacts
    <3>2. CASE Goes(r, "act")
      <4>1. req'[r].pc = "act" /\ \A s \in Conns \ {r} : req'[s] = req[s]
        BY <3>2, RequestFacts DEF Goes, TokenInv, TypeOK, Request
      <4> QED
        BY <2>1, <4>1, OneWriter DEF Writes
    <3> QED
      BY <2>1, <3>1, <3>2
  <2> QED
    BY <1>1, <2>2, OtherSessions, NewSessions
<1>2. ASSUME NEW r \in Conns, Step(r) PROVE LockedOutExplained'
  BY <1>1, <1>2, QuietSessions DEF Step
<1>3. CASE Crash
  BY <1>3 DEF Crash, LockedOutExplained
<1>4. CASE (\E t \in Tokens : Expire(t)) \/ UNCHANGED vars
  <2>1. UNCHANGED <<disk, req, chain, ended, trouble, known>>
    BY <1>4 DEF Expire, vars, store, history
  <2>2. \A t \in Refreshes : Live(t) => Live(t)'
    BY <2>1 DEF Live
  <2> QED
    BY <2>1, <2>2, SessionsKept
<1> QED
  BY <1>2, <1>3, <1>4, QuietSessions DEF Next

-----------------------------------------------------------------------------
(* The invariant *)

\* The invariant holds of the empty store.
LEMMA InitAInv == Init => AInv
<1> SUFFICES ASSUME Init PROVE AInv
  OBVIOUS
<1>1. /\ \A r \in Conns : req[r] = Idle
      /\ disk = Nothing /\ uses = [t \in Tokens |-> 0]
      /\ chain = [t \in Refreshes |-> None] /\ lived = {} /\ ended = {}
      /\ performed = [k \in Confirms |-> 0]
  BY DEF Init
<1>2. /\ \A t \in Tokens : ~Live(t)
      /\ \A t \in Refreshes : t \in Tokens /\ ~Live(t) /\ ~Revoked(t)
  BY <1>1, TokenPools DEF Live, Revoked, Writes, Idle, Nothing
<1>3. TokenInv
  BY InitTokenInv
<1>4. OneTime!AcceptedOnce
  BY <1>1 DEF OneTime!AcceptedOnce
<1>5. PairInv
  BY <1>1 DEF PairInv, Pairing, Idle
<1>6. ChainInv /\ RevokeEndsChain
  BY <1>1, <1>2 DEF ChainInv, RevokeEndsChain
<1>7. ActInv
  BY <1>1, TokenPools DEF ActInv, Idle
<1>8. HolderInv /\ LockedOutExplained
  BY <1>1, PoolAssumption DEF Init, HolderInv, LockedOutExplained
<1> QED
  BY <1>3, <1>4, <1>5, <1>6, <1>7, <1>8, ConfirmedBound DEF AInv

\* What handlers do that are not writing.
LEMMA QuietAInv ==
  ASSUME AInv, NEW r \in Conns,
         \/ \E cmd \in Commands, arg \in Tokens \cup {None} : Arrive(r, cmd, arg)
         \/ Load(r) \/ CreateSession(r) \/ Act(r) \/ DiskFault(r)
  PROVE  TokenInv' /\ PairInv' /\ ChainInv' /\ RevokeEndsChain' /\ ActInv'
<1>1. TokenInv /\ PairInv /\ ChainInv /\ RevokeEndsChain /\ ActInv
  BY DEF AInv
<1>2. TokenInv'
  BY <1>1, ArriveTokenInv, LoadTokenInv, CreateSessionInv, ActInvariant, DiskFaultInv
<1>3. [OneTime!Next]_(OneTime!vars)
  BY <1>1, QuietRefines
<1>4. PairInv'
  <2>1. /\ chain' = chain /\ \A t \in Refreshes : t \in lived' <=> t \in lived
        /\ \A s \in Conns : Pairing(s)' => Pairing(s) /\ req'[s].arg = req[s].arg
    BY <1>1, QuietSteps
  <2> QED
    BY <1>1, <1>3, <2>1, PairKept
<1>5. ChainInv' /\ RevokeEndsChain'
  BY <1>1, ChainQuiet
<1>6. ActInv'
  <2>1. CASE Act(r)
    BY <1>1, <2>1, ActStep
  <2>2. CASE ~Act(r)
    <3>1. performed' = performed
      BY <2>2 DEF Arrive, Load, CreateSession, DiskFault, history
    <3>2. \A s \in Conns : req'[s].pc = "act" => req'[s] = req[s]
      BY <1>1, QuietSteps
    <3> QED
      BY <1>1, <1>3, <3>1, <3>2, ActKept
  <2> QED
    BY <2>1, <2>2
<1> QED
  BY <1>2, <1>4, <1>5, <1>6

\* Truncation keeps the invariant.
LEMMA TruncateAInv ==
  ASSUME AInv, NEW r \in Conns, Truncate(r)
  PROVE  TokenInv' /\ PairInv' /\ ChainInv' /\ RevokeEndsChain' /\ ActInv'
<1>1. TokenInv /\ PairInv /\ ChainInv /\ RevokeEndsChain /\ ActInv
  BY DEF AInv
<1>2. [OneTime!Next]_(OneTime!vars) /\ lived' = lived
  BY <1>1, TruncateRefines
<1>3. req[r].pc = "open" /\ Goes(r, "fill") /\ chain' = chain /\ performed' = performed
  BY DEF Truncate, history
<1>4. /\ req'[r].pc = "fill" /\ req'[r].cmd = req[r].cmd /\ req'[r].arg = req[r].arg
      /\ \A s \in Conns \ {r} : req'[s] = req[s]
  BY <1>1, <1>3, RequestFacts DEF Goes, TokenInv, TypeOK, Request
<1>5. \A s \in Conns : Pairing(s)' => Pairing(s) /\ req'[s].arg = req[s].arg
  BY <1>3, <1>4 DEF Pairing
<1>6. \A s \in Conns : req'[s].pc = "act" => req'[s] = req[s]
  BY <1>4
<1>7. PairInv'
  BY <1>1, <1>2, <1>3, <1>5, PairKept
<1>8. ActInv'
  BY <1>1, <1>2, <1>3, <1>6, ActKept
<1> QED
  BY <1>1, <1>7, <1>8, TruncateInv, ChainTruncate

\* Accepting a pairing code keeps the invariant.
LEMMA ConsumePairingAInv ==
  ASSUME AInv, NEW r \in Conns, ConsumePairingToken(r)
  PROVE  TokenInv' /\ PairInv' /\ ChainInv' /\ RevokeEndsChain' /\ ActInv'
<1>1. /\ TokenInv /\ OneTime!AcceptedOnce /\ PairInv /\ ChainInv
      /\ RevokeEndsChain /\ ActInv
  BY DEF AInv
<1>2. [OneTime!Next]_(OneTime!vars)
  BY <1>1, ConsumePairingRefines
<1>3. performed' = performed /\ (Answers(r) \/ Goes(r, "session"))
  BY DEF ConsumePairingToken
<1>4. \A s \in Conns : req'[s].pc = "act" => req'[s] = req[s]
  <2>1. CASE Answers(r)
    BY <1>1, <2>1, AnswersFacts DEF Idle
  <2>2. CASE Goes(r, "session")
    BY <1>1, <2>2, RequestFacts DEF Goes, TokenInv, TypeOK, Request
  <2> QED
    BY <1>3, <2>1, <2>2
<1>5. ActInv'
  BY <1>1, <1>2, <1>3, <1>4, ActKept
<1> QED
  BY <1>1, <1>5, ConsumePairingTokenInv, PairConsume, ChainConsume

\* Every write keeps the invariant.
LEMMA WriteAInv ==
  ASSUME AInv, NEW r \in Conns,
         \/ IssuePairingToken(r) \/ SaveSession(r) \/ Rotate(r)
         \/ RevokeRefreshToken(r) \/ IssueConfirmToken(r) \/ ConsumeConfirmToken(r)
  PROVE  TokenInv' /\ PairInv' /\ ChainInv' /\ RevokeEndsChain' /\ ActInv'
<1>1. /\ TokenInv /\ OneTime!AcceptedOnce /\ PairInv /\ ChainInv
      /\ RevokeEndsChain /\ ActInv
  BY DEF AInv
<1>2. [OneTime!Next]_(OneTime!vars)
  BY <1>1, WriteRefines
<1>3. /\ req[r].pc = "fill"
      /\ Answers(r) \/ (ConsumeConfirmToken(r) /\ Goes(r, "act"))
  BY DEF IssuePairingToken, SaveSession, Rotate, RevokeRefreshToken,
     IssueConfirmToken, ConsumeConfirmToken, Filling, Reply
<1>4. /\ \A s \in Conns \ {r} : req'[s] = req[s]
      /\ req'[r] = Idle \/ (ConsumeConfirmToken(r) /\ req'[r].pc = "act")
  <2>1. CASE Answers(r)
    BY <1>1, <2>1, AnswersFacts
  <2>2. CASE ConsumeConfirmToken(r) /\ Goes(r, "act")
    BY <1>1, <2>2, RequestFacts DEF Goes, TokenInv, TypeOK, Request
  <2> QED
    BY <1>3, <2>1, <2>2
<1>5. \A s \in Conns : ~Writes(req'[s])
  BY <1>1, <1>3, <1>4, OneWriter DEF Writes, Idle
<1>6. \A s \in Conns : Pairing(s)' => Pairing(s) /\ req'[s].arg = req[s].arg
  BY <1>4 DEF Pairing, Idle
<1>7. ActInv'
  <2>1. CASE ConsumeConfirmToken(r)
    BY <1>1, <2>1, ActConfirm
  <2>2. CASE ~ConsumeConfirmToken(r)
    <3>1. performed' = performed
      BY <2>2 DEF IssuePairingToken, SaveSession, Rotate, RevokeRefreshToken,
         IssueConfirmToken
    <3>2. \A s \in Conns : req'[s].pc = "act" => req'[s] = req[s]
      BY <1>4, <2>2 DEF Idle
    <3> QED
      BY <1>1, <1>2, <3>1, <3>2, ActKept
  <2> QED
    BY <2>1, <2>2
<1>8. CASE SaveSession(r)
  BY <1>1, <1>7, <1>8, SaveSessionInv, PairSave, ChainSave
<1>9. CASE Rotate(r)
  BY <1>1, <1>7, <1>9, RotateInv, PairRotate, ChainRotate
<1>10. CASE RevokeRefreshToken(r)
  <2>1. chain' = chain /\ lived' = lived \cup {}
    BY <1>10 DEF RevokeRefreshToken, Save
  <2>2. PairInv'
    BY <1>1, <1>2, <1>6, <2>1, PairKept
  <2> QED
    BY <1>1, <1>7, <1>10, <2>2, ChainRevoke, RevokeRefreshTokenInv
<1>11. CASE IssuePairingToken(r) \/ IssueConfirmToken(r) \/ ConsumeConfirmToken(r)
  <2>1. chain' = chain /\ \A t \in Refreshes : t \in lived' <=> t \in lived
    BY <1>11, PoolAssumption
       DEF IssuePairingToken, IssueConfirmToken, ConsumeConfirmToken, Save, Fresh
  <2>2. PairInv'
    BY <1>1, <1>2, <1>6, <2>1, PairKept
  <2> QED
    BY <1>1, <1>5, <1>7, <1>11, <2>2, ChainOther, IssuePairingTokenInv,
       IssueConfirmTokenInv, ConsumeConfirmTokenInv
<1> QED
  BY <1>8, <1>9, <1>10, <1>11

\* The environment, and steps that change nothing.
LEMMA EnvironmentAInv ==
  ASSUME AInv, \/ \E t \in Tokens : Expire(t)
               \/ Crash
               \/ UNCHANGED vars
  PROVE  TokenInv' /\ PairInv' /\ ChainInv' /\ RevokeEndsChain' /\ ActInv'
<1>1. TokenInv /\ PairInv /\ ChainInv /\ RevokeEndsChain /\ ActInv
  BY DEF AInv
<1>2. UNCHANGED <<disk, lived, uses, chain, ended, performed>>
  BY DEF Expire, Crash, vars, store, history
<1>3. \A s \in Conns : req'[s] = req[s] \/ req'[s] = Idle
  BY DEF Expire, Crash, vars
<1>4. [OneTime!Next]_(OneTime!vars)
  BY <1>1, EnvironmentRefines, StepRefines
<1>5. PairInv'
  <2>1. \A s \in Conns : Pairing(s)' => Pairing(s) /\ req'[s].arg = req[s].arg
    BY <1>3 DEF Pairing, Idle
  <2> QED
    BY <1>1, <1>2, <1>4, <2>1, PairKept
<1>6. ChainInv' /\ RevokeEndsChain'
  <2>1. \A t \in Refreshes : (Live(t)' => Live(t)) /\ (Revoked(t)' => Revoked(t))
    BY <1>2, <1>3 DEF Live, Revoked, Writes, Idle
  <2> QED
    BY <1>1, <1>2, <2>1, ChainKept
<1>7. ActInv'
  <2>1. \A s \in Conns : req'[s].pc = "act" => req'[s] = req[s]
    BY <1>3 DEF Idle
  <2> QED
    BY <1>1, <1>2, <1>4, <2>1, ActKept
<1>8. TokenInv'
  BY <1>1, ExpireInv, CrashInv, StutterInv
<1> QED
  BY <1>5, <1>6, <1>7, <1>8

\* Every step keeps the invariant.
LEMMA AInvStep ==
  ASSUME AInv, [Next]_vars
  PROVE  AInv'
<1>1. TokenInv /\ OneTime!AcceptedOnce
  BY DEF AInv
<1>2. OneTime!AcceptedOnce'
  BY <1>1, StepRefines, OnceStep
<1>3. TokenInv' /\ PairInv' /\ ChainInv' /\ RevokeEndsChain' /\ ActInv'
  <2>1. CASE \E r \in Conns : Step(r)
    BY <2>1, QuietAInv, TruncateAInv, ConsumePairingAInv, WriteAInv DEF Step
  <2>2. CASE \E r \in Conns, cmd \in Commands, arg \in Tokens \cup {None} :
               Arrive(r, cmd, arg)
    BY <2>2, QuietAInv
  <2> QED
    BY <2>1, <2>2, EnvironmentAInv DEF Next
<1>4. ConfirmedOnce'
  BY <1>2, <1>3, ConfirmedBound, PTL
<1>5. HolderInv' /\ LockedOutExplained'
  BY HolderStep, SessionsStep DEF AInv
<1> QED
  BY <1>2, <1>3, <1>4, <1>5 DEF AInv

\* The invariant of the token store (Store's operations behind the routes of
\* server.go): every conjunct holds in every reachable state.
THEOREM AlwaysAInv == Spec => []AInv
BY InitAInv, AInvStep, PTL DEF Spec

\* Every variable of the store and its handlers keeps its type.
THEOREM TypeCorrect == Spec => []TypeOK
<1>1. AInv => TypeOK
  BY DEF AInv, TokenInv
<1> QED
  BY <1>1, AlwaysAInv, PTL

\* After authRevoke has answered, no token of that pairing is accepted again,
\* however the device's refresh requests were interleaved with it.
THEOREM RevokeIsFinal == Spec => []RevokeEndsChain
<1>1. AInv => RevokeEndsChain
  BY DEF AInv
<1> QED
  BY <1>1, AlwaysAInv, PTL

\* ConsumeConfirmToken lets the action of a confirmation start once at most.
THEOREM ActionsStartOnce == Spec => []ConfirmedOnce
<1>1. AInv => ConfirmedOnce
  BY DEF AInv
<1> QED
  BY <1>1, AlwaysAInv, PTL

\* The mutex that withRecovery leaves locked behind a panic: only ever over a
\* refresh file that does not parse.
THEOREM PoisonIsTorn == Spec => []PoisonMeansTorn
<1>1. AInv => PoisonMeansTorn
  BY DEF AInv, HolderInv, PoisonMeansTorn, Poisoned, Writes
<1> QED
  BY <1>1, AlwaysAInv, PTL

\* A paired device that was not revoked has a token that the store accepts, until
\* an answer or a write is lost or the agent restarts.
THEOREM LockOutsExplained == Spec => []LockedOutExplained
<1>1. AInv => LockedOutExplained
  BY DEF AInv
<1> QED
  BY <1>1, AlwaysAInv, PTL

\* The store implements OneTimeTokens: pairing codes, refresh tokens and
\* confirmations are accepted once at most and never come back, also across
\* crashes and writes that fail halfway.
THEOREM StoreImplements == Spec => Implements
<1>1. Init => OneTime!Init
  BY InitRefines
<1>2. AInv /\ [Next]_vars => [OneTime!Next]_(OneTime!vars)
  BY StepRefines DEF AInv
<1> QED
  BY <1>1, <1>2, AlwaysAInv, PTL DEF Spec, Implements, OneTime!Spec
=============================================================================
