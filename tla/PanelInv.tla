------------------------------- MODULE PanelInv -------------------------------
(***************************************************************************)
(* Why the checks of the routes hold at the steps they stand before, and   *)
(* why what the panel keeps of its accounts and keys survives requests     *)
(* side by side.  Panel states, as assumptions, what every program of the  *)
(* tables is like: where it asks, what it reads before it writes.  The     *)
(* invariant here carries each answer from the step that asks to the step  *)
(* that acts on it, whatever the other processes do in between.            *)
(***************************************************************************)
EXTENDS Panel, StepRunInv

\* A refusal looks where nothing is.
NothingInv == Sys("nothing") \in Files => disk[Sys("nothing")] = {}

\* A process past a refusal was not to perform it, and its copies still say so.
GuardOK(h) ==
  \A i, k \in 1..Len(Prog(h)) :
    k < run[h].pc /\ run[h].pc <= i /\ Bars(Prog(h), k, i) => ~Performed(Prog(h)[k], run[h].mem)
GuardInv == \A h \in Helpers : Running(h) => GuardOK(h)

\* An administrator is on file, and in every copy of the file.
SomeAdmin(S) == \E u \in Items : Admin(u) \in S
AdminInv ==
  /\ SomeAdmin(disk[UsersJson])
  /\ \A h \in Helpers : Running(h) /\ UsersJson \in DOMAIN run[h].mem => SomeAdmin(run[h].mem[UsersJson].val)

\* A request of a user who is logged out has not come past the step that asks.
HeldUp(h) ==
  \E j \in 1..Len(Prog(h)) :
    AsksLogout(Prog(h), j, UserOf[SessionOf(h)]) /\ run[h].pc <= j
LogoutInv ==
  \A h \in Helpers :
    Running(h) /\ OfSession(h) /\ run[h].out /\ Revocations \notin crossed =>
      /\ LoggedOut(UserOf[SessionOf(h)]) \in disk[Revocations] /\ Revocations \notin torn
      /\ Revocations \in Files /\ HeldUp(h)

PInv == NothingInv /\ GuardInv /\ AdminInv /\ LogoutInv

-----------------------------------------------------------------------------
(* Why the panel's stores are in order again when no request is at work:   *)
(* while one is not, a process is on its way through the steps that put it *)
(* in order.                                                               *)

\* Nothing failed, and no two processes had f at the same time.
Undisturbed(f) == trouble = 0 /\ f \notin crossed

\* A job that has started has a process that will write that it has ended.
Finishing(h, f) ==
  /\ Running(h) /\ run[h].wrote
  /\ \E i, e \in 1..Len(Prog(h)) : Finishes(Prog(h), i, e, f) /\ run[h].pc \in i + 1..e
JobInv ==
  \A x \in Items : Job(x) \in Files \ excused /\ JobStarted \in disk[Job(x)] =>
    \E h \in Helpers : Finishing(h, Job(x))

\* An alert that was sent is saved, or about to be.
AlertsOf(d) == {t \in disk[Apns] : t[2] = d}
Reporting(h, d) == Running(h) /\ \E i \in 1..Len(Prog(h)) : Reports(Prog(h), i, d) /\ run[h].pc = i + 1
AlertInv ==
  {Apns, AlertState} \subseteq Files /\ Undisturbed(AlertState) =>
    \A d \in Domains :
      /\ \A t, v \in AlertsOf(d) : t = v
      /\ AlertsOf(d) # {} => Sent(d) \in disk[AlertState] \/ \E h \in Helpers : Reporting(h, d)

\* A user without a token has signed out, or is about to have the one or the other.
Making(h, u) ==
  /\ Running(h) /\ run[h].wrote
  /\ \E i \in 1..Len(Prog(h)) :
       /\ SignsOut(Prog(h), i, u) \/ Replaces(Prog(h), i, u)
       /\ run[h].pc \in {i + 1, i + 2}
SignedInInv ==
  {Tokens, Revocations} \subseteq Files \ excused =>
    \A u \in Items : \/ TokensOf(u) \cap disk[Tokens] # {} \/ SignedOff(u) \cap disk[Revocations] # {}
                     \/ \E h \in Helpers : Making(h, u)

\* Where nobody signs in there is one token of a user.  A process that is about to
\* take it has it in its copy; while one is about to write the new one there is
\* none, and no other process is.
Taking(h, u) ==
  Running(h) => \A l \in 1..Len(Prog(h)) : Exchanges(Prog(h), l, u) /\ run[h].pc = l + 1 =>
                  Tokens \in DOMAIN run[h].mem /\ Prog(h)[l].need \subseteq run[h].mem[Tokens].val
Issuing(h, u) ==
  Running(h) /\ \E l \in 1..Len(Prog(h)) : Exchanges(Prog(h), l, u) /\ run[h].pc \in {l + 2, l + 3}
TokenInv ==
  Tokens \in Files =>
    \A u \in Exchanged :
      /\ \A h \in Helpers : Taking(h, u)
      /\ Tokens \notin excused =>
           /\ \A t, v \in TokensOf(u) \cap disk[Tokens] : t = v
           /\ \A h \in Helpers : Issuing(h, u) =>
                TokensOf(u) \cap disk[Tokens] = {} /\ \A g \in Helpers \ {h} : ~Issuing(g, u)

\* The environment has the features of the license on file, or the process that
\* changed the license is about to give it those; one that refreshes them knows
\* the license.
Aligning(h, i) == Running(h) /\ Installs(Prog(h), i) /\ run[h].pc \in {i + 1, i + 2}
Knowing(h, i) ==
  Running(h) /\ \E j \in 1..Len(Prog(h)) : Refreshes(Prog(h), j, i) /\ run[h].pc \in j + 1..i
LicenseInv ==
  {License, EnvFile} \subseteq Files \ excused /\ License \notin crossed =>
    /\ \A x, y \in KeysIn(disk[License]) : x = y
    /\ \/ KeysIn(disk[License]) = FeaturesIn(disk[EnvFile])
       \/ \E h \in Helpers : Running(h) /\ \E i \in 1..Len(Prog(h)) : Aligning(h, i)
    /\ \A h \in Helpers : Running(h) =>
         \A i \in 1..Len(Prog(h)) :
           /\ Aligning(h, i) => run[h].wrote /\ KeysIn(disk[License]) = KeysIn(Prog(h)[i].add)
           /\ Knowing(h, i) => License \in DOMAIN run[h].mem /\ run[h].mem[License].val = disk[License]
=============================================================================
