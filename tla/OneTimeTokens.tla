--------------------------- MODULE OneTimeTokens ---------------------------
(***************************************************************************)
(* What the agent promises about the tokens it hands out (pairing codes,   *)
(* refresh tokens, action confirmations): a token comes to life once, is   *)
(* accepted at most once, and never comes back.  AgentAuth implements it.  *)
(***************************************************************************)
EXTENDS Naturals

CONSTANT Tokens

VARIABLES
  state,  \* token -> its stage of life
  uses    \* token -> times it was accepted

vars == <<state, uses>>

Stages == {"unborn", "live", "gone"}

TypeOK == state \in [Tokens -> Stages] /\ uses \in [Tokens -> Nat]

Init ==
  /\ state = [t \in Tokens |-> "unborn"]
  /\ uses = [t \in Tokens |-> 0]

\* Tokens B come to life and tokens D end theirs.
Change(B, D) ==
  /\ \A t \in B : state[t] = "unborn"
  /\ \A t \in D : state[t] = "live"
  /\ state' = [t \in Tokens |-> IF t \in B THEN "live"
                                ELSE IF t \in D THEN "gone" ELSE state[t]]

\* A token is handed out; others may be replaced or dropped with it.
Issue(t) ==
  /\ \E D \in SUBSET Tokens : Change({t}, D)
  /\ UNCHANGED uses

\* A token is accepted; another may be handed out in exchange.
Use(t) ==
  /\ \E B \in SUBSET Tokens : Change(B, {t})
  /\ uses' = [uses EXCEPT ![t] = @ + 1]

\* Tokens are revoked, expire or are lost.
Retire(D) ==
  /\ Change({}, D)
  /\ UNCHANGED uses

Next ==
  \/ \E t \in Tokens : Issue(t) \/ Use(t)
  \/ \E D \in SUBSET Tokens : Retire(D)

Spec == Init /\ [][Next]_vars

\* The invariant: a token that was accepted is gone, and was accepted once.
AcceptedOnce ==
  \A t \in Tokens : uses[t] = 0 \/ (uses[t] = 1 /\ state[t] = "gone")
=============================================================================
