------------------------------ MODULE StepRunInv ------------------------------
(***************************************************************************)
(* Why a step that writes a file back loses nothing to itself: the copy it *)
(* writes is the file as it is, unless another process has the file at the *)
(* same time or something failed before.  The invariant says so for every  *)
(* point of a program between the step that reads and the step that writes *)
(* back, whatever the tables of programs are, as long as they read first   *)
(* (TablesAssumption).                                                     *)
(***************************************************************************)
EXTENDS StepRun

\* A process is idle or at a step of its command that is to be performed; a
\* file is open only for the step that writes it.
RunOK(h) ==
  /\ DOMAIN run[h] = DOMAIN Idle
  /\ Running(h) =>
       /\ run[h].cmd \in Command /\ run[h].pc \in 1..Len(Prog(h))
       /\ Performed(Step(h), run[h].mem)
       /\ run[h].open \in {"no", "mine", "crossed"}
       /\ run[h].open # "no" => Step(h).op = "save"
RunInv == DOMAIN run = Helpers /\ \A h \in Helpers : RunOK(h)

\* Copies are copies of files.
CopiesOfFiles(mem) ==
  /\ DOMAIN mem \subseteq Files
  /\ \A f \in DOMAIN mem : DOMAIN mem[f] = DOMAIN None(f) /\ IsFiniteSet(mem[f].val)
MemInv == \A h \in Helpers : Running(h) => CopiesOfFiles(run[h].mem)

DiskInv ==
  /\ DOMAIN disk = Files /\ \A f \in Files : IsFiniteSet(disk[f])
  /\ torn \subseteq Files /\ excused \subseteq Files /\ crossed \subseteq Files
  /\ started \in 0..MaxCommands /\ trouble \in 0..MaxTrouble

\* What two processes that run at the same time share, and one of them writes,
\* is crossed.
CrossedInv ==
  \A g, h \in Helpers :
    g # h /\ Running(g) /\ Running(h) => Uses(Prog(g)) \cap Writes(Prog(h)) \subseteq crossed

\* A file is truncated while its writer has it open; after that only a failure
\* or another writer leaves it so.
TornInv ==
  trouble = 0 =>
    \A f \in torn \ crossed : \E h \in Helpers : Running(h) /\ run[h].open # "no" /\ Step(h).f = f

OpenOK(h) == Running(h) /\ run[h].open = "crossed" => Step(h).f \in crossed
OpenInv == \A h \in Helpers : OpenOK(h)

\* There is a copy of f, and it is what the file holds, unless the file is
\* shared.  After a failure a file may have been truncated: then the copy is
\* empty, if the program takes such a file for an empty one.
CopyOf(mem, f, content, failed) ==
  /\ f \in DOMAIN mem /\ mem[f].src = {f}
  /\ ~mem[f].old => mem[f].val = content
  /\ f \notin crossed => mem[f].val \subseteq content /\ (failed = 0 => content \subseteq mem[f].val)
Doubt(s) == IF s.op = "read" THEN trouble ELSE 0

\* Between the step that reads and the one that writes back.
Pair(p, j, i) == i \in 1..Len(p) /\ j \in 1..i - 1 /\ WritesBack(p[i]) /\ ReadFor(p, j, i)

CopyOK(h) ==
  \A i, j \in 1..Len(Prog(h)) :
    Pair(Prog(h), j, i) /\ j < run[h].pc /\ run[h].pc <= i /\ Performed(Prog(h)[j], run[h].mem)
    => LET f == Prog(h)[i].f IN CopyOf(run[h].mem, f, disk[f], Doubt(Prog(h)[j]))

CopyInv == \A h \in Helpers : Running(h) => CopyOK(h)

SInv == RunInv /\ MemInv /\ DiskInv /\ CrossedInv /\ TornInv /\ OpenInv /\ CopyInv
=============================================================================
