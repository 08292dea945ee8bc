---------------------------- MODULE ProvisioningInv ----------------------------
(***************************************************************************)
(* Why what is computed from the JSON files follows them.  While it does   *)
(* not, a process is at work that is bound to compute it again, and that   *)
(* leaves it excused when it is stopped or skips it; and what a process    *)
(* computes is what the files say when it writes it, unless another one    *)
(* has written one of them in between.                                     *)
(***************************************************************************)
EXTENDS Provisioning, StepRunInv

\* A process that will make F, or that leaves F behind when it ends.
Due(h, F) ==
  /\ Running(h) /\ run[h].wrote
  /\ F \in Leaves(run[h].cmd) \/ run[h].pc \in CoverOf[run[h].cmd][F]

\* S is truncated by a process that writes it back without changing what F shows.
Opened(S, F) == \E h \in Helpers : Running(h) /\ run[h].open # "no" /\ Step(h).f = S /\ Spares(Step(h), F)

\* F holds what it is computed from.
Current(F, src) ==
  IF F = Served THEN disk[F] = Derived(F, src, Seen)
  ELSE \/ src \cap excused # {}
       \/ disk[F] = Derived(F, src, disk) /\ \A S \in src \cap torn : Opened(S, F)

CurrentOrDue(F) ==
  \/ F \in torn \cup excused
  \/ \E src \in Origins(F) : src \subseteq Files /\ Current(F, src)
  \/ \E h \in Helpers : Due(h, F)
FollowInv == \A F \in Followers \cap Files : CurrentOrDue(F)

\* What a process is about to write is what the files say, unless one of them was
\* written since.
Fresh(copy, F, src) ==
  copy.src = src /\ (~copy.old => src \cap torn = {} /\ copy.val = Derived(F, src, disk))
PreparedOK(h) ==
  \A F \in Followers \cap Files :
    Makes(Step(h), F) /\ Step(h).op # "reload" =>
      F \in DOMAIN run[h].mem /\ Fresh(run[h].mem[F], F, Step(h).src)
PreparedInv == \A h \in Helpers : Running(h) => PreparedOK(h)

\* Of two processes that have a file open, neither has what the other writes.
CrossedOldInv ==
  \A h \in Helpers : Running(h) /\ run[h].open = "crossed" /\ WritesBack(Step(h)) => run[h].mem[Step(h).f].old

FInv == FollowInv /\ PreparedInv /\ CrossedOldInv
=============================================================================
