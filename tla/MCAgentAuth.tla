---------------------------- MODULE MCAgentAuth ----------------------------
(* An instance of AgentAuth: sessions, and one confirmation, which may expire. *)
EXTENDS AgentAuthInv, TLC

CONSTANTS n1, n2, c1, c2, t1, t2, t3, k1
=============================================================================
