---------------------------- MODULE AgentAuthInv ----------------------------
(***************************************************************************)
(* The inductive invariant behind the safety properties of AgentAuth and   *)
(* the refinement of OneTimeTokens.  TLC checks it on the instances of the *)
(* configurations; AgentAuthProofs proves it inductive.                    *)
(***************************************************************************)
EXTENDS AgentAuth

\* What a request at work carries.
ArgOK(q) ==
  /\ q.pc # "idle" => q.cmd # None
  /\ q.pc = "session" => q.cmd = "complete"
  /\ q.pc = "act" => q.cmd = "act"
  /\ q.cmd = "complete" => q.arg \in Codes
  /\ q.cmd \in {"rotate", "revoke"} => q.arg \in Refreshes
  /\ q.cmd = "act" => q.arg \in Confirms

ArgInv == \A r \in Conns : ArgOK(req[r])

Writes(q) == q.pc \in {"open", "fill"}

\* Whoever writes a file holds the mutex.
LockInv == \A r \in Conns : Writes(req[r]) => mu = r

\* What a writer has in memory is what the file held; while it fills the file,
\* nothing of it is on disk.  What it was asked about is in its memory.
MemOK(q) ==
  /\ q.pc = "open" => q.mem = disk
  /\ q.pc = "fill" =>
       \A t \in Tokens : FileOf(t) = FileFor(q.cmd) => disk[t] = "absent"
  /\ \A t \in Tokens : q.mem[t] # "absent" => t \in lived
  /\ \A t \in Tokens \ Refreshes : q.mem[t] # "revoked"
  /\ q.cmd = "rotate" => q.mem[q.arg] = "live"
  /\ q.cmd \in {"revoke", "act"} => q.mem[q.arg] # "absent"

MemInv == \A r \in Conns : Writes(req[r]) => MemOK(req[r])

\* Records are of tokens that were saved; only refresh tokens are revoked.
DiskInv ==
  /\ \A t \in Tokens : disk[t] # "absent" => t \in lived
  /\ \A t \in Tokens \ Refreshes : disk[t] # "revoked"

TokenInv == TypeOK /\ ArgInv /\ LockInv /\ MemInv /\ DiskInv

-----------------------------------------------------------------------------

\* A request that has spent its pairing code and not yet saved the session.
Pairing(r) == req[r].cmd = "complete" /\ req[r].pc \in {"session", "open", "fill"}

\* A code is spent by one request, for one session.
PairInv ==
  /\ \A r \in Conns :
       Pairing(r) => /\ uses[req[r].arg] # 0
                     /\ \A t \in Refreshes : chain[t] # req[r].arg
                     /\ \A s \in Conns \ {r} : Pairing(s) => req[s].arg # req[r].arg
  /\ \A t \in Refreshes :
       IF t \in lived THEN chain[t] \in Codes /\ uses[chain[t]] # 0
                      ELSE chain[t] = None

\* A refresh token marked revoked, on disk or in a writer's memory.
Revoked(t) ==
  \/ disk[t] = "revoked"
  \/ \E r \in Conns : Writes(req[r]) /\ req[r].mem[t] = "revoked"

\* Of the tokens that descend from a code one is live at most, and none if one of
\* them is revoked.
ChainInv ==
  /\ \A t, u \in Refreshes : Live(t) /\ Live(u) /\ chain[t] = chain[u] => t = u
  /\ \A t \in Refreshes : Revoked(t) => chain[t] \in ended
  /\ \A c \in ended : \E t \in Refreshes : chain[t] = c

\* An accepted confirmation starts its action once.
ActInv ==
  \A k \in Confirms :
    /\ performed[k] <= uses[k]
    /\ \A r \in Conns :
         req[r].pc = "act" /\ req[r].arg = k =>
           /\ performed[k] < uses[k]
           /\ \A s \in Conns \ {r} : ~(req[s].pc = "act" /\ req[s].arg = k)

\* The mutex is held by a request that writes, or was left by one that found a
\* refresh file it could not parse; then nobody repairs the file.
HolderInv ==
  mu # None => \/ Writes(req[mu])
               \/ req[mu].pc = "idle" /\ "refresh" \in torn

AInv ==
  /\ TokenInv /\ OneTime!AcceptedOnce /\ PairInv /\ ChainInv /\ RevokeEndsChain
  /\ ActInv /\ ConfirmedOnce /\ HolderInv /\ LockedOutExplained
=============================================================================
