--------------------------- MODULE PanelStoreProofs ---------------------------
(***************************************************************************)
(* The stores of the panel are in order again when nobody is at work:      *)
(* jobs end, an alert is sent once, a user who has not signed out holds a  *)
(* token, one and no more, and the environment follows the license.  Each  *)
(* is a property of two files, or of several steps of a request, that any  *)
(* single step leaves unsettled; the invariants of PanelInv say which      *)
(* process is about to settle it.                                          *)
(***************************************************************************)
EXTENDS PanelProofs

-----------------------------------------------------------------------------
(* A step.                                                                 *)

\* A command is started, or a process does its next step, or fails there, or is
\* killed.
Advances(h) == Running(h) /\ Moved(h) /\ (Proceed(h) \/ FailStep(h) \/ Kill(h))
LEMMA EachStep ==
  ASSUME SInv, Next
  PROVE  crossed \subseteq crossed' /\ \E h \in Helpers : (\E c \in Command : Start(h, c)) \/ Advances(h)
<1>1. PICK h \in Helpers : (\E c \in Command : Start(h, c)) \/ Proceed(h) \/ FailStep(h) \/ Kill(h)
  BY DEF Next
<1>2. CASE \E c \in Command : Start(h, c)
  BY <1>2 DEF Start
<1>3. CASE Proceed(h) \/ FailStep(h) \/ Kill(h)
  <2>1. Running(h) /\ Moved(h)
    BY <1>3, Moves
  <2> QED
    BY <1>3, <2>1 DEF Advances, Moved
<1> QED
  BY <1>1, <1>2, <1>3

\* A failure is not forgotten.
LEMMA Calm ==
  ASSUME SInv, Next, trouble' = 0
  PROVE  /\ trouble = 0 /\ crossed \subseteq crossed'
         /\ \E h \in Helpers :
              \/ \E c \in Command : Start(h, c)
              \/ Running(h) /\ Moved(h) /\ Proceed(h)
<1>1. PICK h \in Helpers : (\E c \in Command : Start(h, c)) \/ Proceed(h) \/ FailStep(h) \/ Kill(h)
  BY DEF Next
<1>2. trouble \in Nat
  BY InstanceAssumption DEF SInv, DiskInv
<1>3. CASE \E c \in Command : Start(h, c)
  BY <1>3 DEF Start
<1>4. CASE Proceed(h) \/ FailStep(h) \/ Kill(h)
  <2>1. Running(h) /\ Moved(h)
    BY <1>4, Moves
  <2>2. Proceed(h)
    BY <1>2, <1>4 DEF FailStep, Kill
  <2>3. trouble' = trouble
    BY <2>2 DEF Proceed, ResolveDomainUser, UnknownDomain, ReadFile, NotAcceptable, Refuse, RenderFile,
                StripConflicts, OpenFile, WriteFile, ChangeInOnePiece, ReloadService, RunProgram, ExitNonzero
  <2> QED
    BY <2>1, <2>2, <2>3 DEF Moved
<1> QED
  BY <1>1, <1>3, <1>4

\* What the steps of a program are, at one of them.
LEMMA OfProgram ==
  ASSUME SInv, NEW h \in Helpers, Running(h)
  PROVE  /\ run[h].cmd \in Command /\ run[h].pc \in 1..Len(Prog(h)) /\ run[h].pc \in Nat \ {0}
         /\ Len(Prog(h)) \in Nat /\ DOMAIN Prog(h) = 1..Len(Prog(h))
         /\ Prog(h) = Program[run[h].cmd] /\ Step(h) = Prog(h)[run[h].pc]
<1>1. run[h].cmd \in Command /\ run[h].pc \in 1..Len(Prog(h)) /\ run[h].pc \in Nat \ {0}
  BY AtStep
<1>2. Prog(h) = Program[run[h].cmd] /\ Step(h) = Prog(h)[run[h].pc]
  BY DEF Prog, Step
<1>3. Len(Prog(h)) \in Nat /\ DOMAIN Prog(h) = 1..Len(Prog(h))
  BY <1>1, ProgramFacts DEF Prog
<1> QED
  BY <1>1, <1>2, <1>3

\* Where a command is when it is started: nowhere but at its first step.
LEMMA Started ==
  ASSUME SInv, NEW h \in Helpers, NEW c \in Command, Start(h, c)
  PROVE  /\ disk' = disk /\ torn' = torn /\ excused' = excused /\ trouble' = trouble /\ crossed \subseteq crossed'
         /\ ~Running(h) /\ run'[h].pc = 1 /\ Prog(h)' = Program[c]
         /\ \A g \in Helpers \ {h} : run'[g] = run[g] /\ (Running(g)' <=> Running(g)) /\ Prog(g)' = Prog(g)
<1> DEFINE p == Program[c]
           r == [Idle EXCEPT !.cmd = c, !.nr = started + 1, !.pc = Landing(p, 1, <<>>), !.out = LoggedOutOnFile(c)]
<1>1. /\ ~Running(h) /\ UNCHANGED <<disk, torn, excused, trouble>> /\ crossed \subseteq crossed'
      /\ run' = [run EXCEPT ![h] = r] /\ DOMAIN run = Helpers
  BY DEF Start, SInv, RunInv
<1>2. r.cmd = c /\ r.pc = 1
  BY LandsFirst DEF Idle
<1> HIDE DEF r
<1>3. run'[h] = r /\ Prog(h)' = p
  BY <1>1, <1>2 DEF Prog
<1>4. ASSUME NEW g \in Helpers \ {h}
      PROVE  run'[g] = run[g] /\ (Running(g)' <=> Running(g)) /\ Prog(g)' = Prog(g)
  BY <1>1, <1>4 DEF Running, Prog
<1> QED
  BY <1>1, <1>2, <1>3, <1>4

\* A process another one leaves where it is.
LEMMA Stays ==
  ASSUME SInv, NEW h \in Helpers, Moved(h), NEW g \in Helpers, g # h
  PROVE  /\ Running(g)' <=> Running(g)
         /\ Running(g) => /\ Prog(g)' = Prog(g) /\ run'[g].pc = run[g].pc
                          /\ run'[g].wrote = run[g].wrote /\ DOMAIN run'[g].mem = DOMAIN run[g].mem
                          /\ \A f \in DOMAIN run[g].mem : run'[g].mem[f].val = run[g].mem[f].val
<1>1. SameRun(run[g], run'[g]) /\ (Running(g)' => Running(g))
  BY StillThere
<1>2. ASSUME Running(g) PROVE Running(g)' /\ Prog(g)' = Prog(g)
  <2>1. run[g].pc \in Nat \ {0}
    BY <1>2, AtStep
  <2>2. run'[g].pc # 0
    BY <1>1, <2>1 DEF SameRun
  <2> QED
    BY <1>1, <2>2 DEF SameRun, Prog, Running, Idle
<1> QED
  BY <1>1, <1>2 DEF SameRun

\* A file one process writes is not another's, unless it is crossed.
LEMMA Sole ==
  ASSUME SInv, NEW h \in Helpers, Running(h), NEW g \in Helpers, Running(g), g # h,
         Step(h).op \in WriteOps, NEW f \in FilesOf(Step(h)), f \notin crossed
  PROVE  f \notin Uses(Prog(g))
<1>1. run[h].cmd \in Command /\ run[h].pc \in 1..Len(Prog(h))
  BY AtStep
<1>2. f \in Writes(Prog(h))
  BY <1>1, StepFiles DEF Prog, Step
<1> QED
  BY <1>2 DEF SInv, CrossedInv

\* A set whose members are all the same.
LEMMA AtMostOne ==
  ASSUME NEW S, \A x, y \in S : x = y
  PROVE  Cardinality(S) <= 1
<1>1. CASE S = {}
  BY <1>1, FS_EmptySet
<1>2. CASE S # {}
  <2>1. PICK x \in S : S = {x}
    BY <1>2
  <2>2. Cardinality({x}) = 1
    BY FS_Singleton
  <2> QED
    BY <2>1, <2>2
<1> QED
  BY <1>1, <1>2

\* A file with a step of its own in a program.
LEMMA Used ==
  ASSUME SInv, NEW g \in Helpers, Running(g), NEW i \in DOMAIN Prog(g)
  PROVE  /\ i \in 1..Len(Prog(g)) /\ FilesOf(Prog(g)[i]) \subseteq Uses(Prog(g))
         /\ Prog(g)[i].op \in WriteOps => FilesOf(Prog(g)[i]) \subseteq Writes(Prog(g))
<1>1. run[g].cmd \in Command
  BY AtStep
<1>2. i \in 1..Len(Prog(g))
  BY <1>1, ProgramFacts DEF Prog
<1> QED
  BY <1>1, <1>2, StepFiles DEF Prog

\* The first step on the way that is performed is the next.
LEMMA GoesOnHere ==
  ASSUME SInv, NEW h \in Helpers, Running(h), NEW i \in 1..Len(Prog(h)), NEW mem, NEW w, NEW x,
         Continue(h, i, mem, w, x), Performed(Prog(h)[i], mem)
  PROVE  /\ Running(h)' /\ Prog(h)' = Prog(h) /\ run'[h].pc = i /\ run'[h].mem = Remembered(h, i, mem)
         /\ run[h].wrote \/ w # {} => run'[h].wrote
<1> DEFINE p == Prog(h)
           j == Landing(p, i, mem)
           later == {k \in i..Len(p) : Performed(p[k], mem)}
           next == [run[h] EXCEPT !.pc = j, !.mem = Remembered(h, j, mem), !.open = "no",
                                  !.wrote = @ \/ w # {}]
<1>1. run[h].cmd \in Command /\ Len(p) \in Nat
  BY AtStep, ProgramFacts DEF Prog
<1>2. i \in Nat \ {0} /\ i \in later
  BY <1>1
<1>3. j = i
  <2>1. j = CHOOSE m \in later : \A k \in later : m <= k
    BY <1>2 DEF Landing
  <2>2. \A k \in later : i <= k
    BY <1>1, <1>2
  <2>3. later \subseteq Nat
    BY <1>1, <1>2
  <2> HIDE DEF later
  <2>4. j \in later /\ \A k \in later : j <= k
    BY <1>2, <2>1, <2>2
  <2>5. j <= i /\ i <= j /\ j \in Nat
    BY <1>2, <2>2, <2>3, <2>4
  <2> HIDE DEF j
  <2> QED
    BY <1>2, <2>5
<1>4. ~(j > Len(p))
  BY <1>1, <1>3
<1>5. run'[h] = next
  BY <1>4 DEF Continue
<1> HIDE DEF j
<1>6. DOMAIN run[h] = DOMAIN Idle
  BY DEF SInv, RunInv, RunOK
<1>7. /\ run'[h].pc = i /\ run'[h].cmd = run[h].cmd /\ run'[h].mem = Remembered(h, i, mem)
      /\ run[h].wrote \/ w # {} => run'[h].wrote
  BY <1>3, <1>5, <1>6 DEF Idle
<1>8. run'[h] # Idle
  BY <1>2, <1>7 DEF Idle
<1> QED
  BY <1>7, <1>8 DEF Running, Prog

\* A step that nothing stops, before one that is performed: h comes there, or has
\* opened the file it is about to write.
Passable(h) == Step(h).op \in WriteOps \cup {"run"} \/ (Step(h).op \in Reading /\ Acceptable(h))
LEMMA Continues ==
  ASSUME SInv, NEW h \in Helpers, Running(h), Proceed(h), Passable(h), Step(h).next = 1,
         NEW i, i = run[h].pc + 1, i \in 1..Len(Prog(h)),
         \/ Prog(h)[i].has = {} /\ Prog(h)[i].lacks = {}
         \/ /\ Prog(h)[i].has = Step(h).has /\ Prog(h)[i].lacks = Step(h).lacks
            /\ Step(h).op \notin Copying
  PROVE  /\ Running(h)' /\ Prog(h)' = Prog(h)
         /\ run'[h].pc = i \/ (Opens(h) /\ run'[h].pc = run[h].pc)
         /\ run[h].wrote \/ (Step(h).op \in WriteOps /\ FilesOf(Step(h)) # {}) => run'[h].wrote
<1> DEFINE s == Step(h)
           q == Prog(h)[i]
<1>1. ASSUME NEW mem, NEW w, NEW x, Continue(h, i, mem, w, x), s.op \in Copying \/ mem = run[h].mem
      PROVE  /\ Running(h)' /\ Prog(h)' = Prog(h) /\ run'[h].pc = i
             /\ run[h].wrote \/ w # {} => run'[h].wrote
  <2>1. Performed(q, mem)
    <3>1. CASE q.has = {} /\ q.lacks = {}
      BY <3>1 DEF Performed
    <3>2. CASE q.has = s.has /\ q.lacks = s.lacks /\ s.op \notin Copying
      <4>1. Performed(s, run[h].mem)
        BY DEF SInv, RunInv, RunOK
      <4> QED
        BY <1>1, <3>2, <4>1 DEF Performed
    <3> QED
      BY <3>1, <3>2
  <2> QED
    BY <1>1, <2>1, GoesOnHere
<1>2. CASE WriteFile(h) \/ ReadFile(h)
  <2>1. s.op \in Copying
    BY <1>2 DEF WriteFile, ReadFile, Reads, At, Copying, Reading
  <2>2. PICK mem, w, x : Continue(h, i, mem, w, x) /\ (s.op \in WriteOps => w # {})
    BY <1>2 DEF WriteFile, ReadFile, Reads, At, WriteOps, Onward
  <2> QED
    BY <1>1, <2>1, <2>2
<1>3. CASE ChangeInOnePiece(h) \/ ReloadService(h) \/ RunProgram(h)
  <2>1. PICK w, x : Continue(h, i, run[h].mem, w, x) /\ (s.op \in WriteOps /\ FilesOf(s) # {} => w # {})
    BY <1>3 DEF ChangeInOnePiece, ReloadService, RunProgram, At, WriteOps, Onward
  <2> QED
    BY <1>1, <2>1
<1>4. CASE OpenFile(h)
  <2>1. /\ s.op = "save" /\ disk' = disk /\ DOMAIN run = Helpers
        /\ run'[h] = [run[h] EXCEPT !.open = "mine", !.wrote = TRUE]
    BY <1>4 DEF OpenFile, At, SInv, RunInv
  <2>2. DOMAIN run[h] = DOMAIN Idle /\ run[h].pc \in Nat \ {0}
    BY AtStep DEF SInv, RunInv, RunOK
  <2>3. Opens(h) /\ run'[h].pc = run[h].pc /\ run'[h].cmd = run[h].cmd /\ run'[h].wrote
    BY <2>1, <2>2 DEF Opens, Idle
  <2>4. run'[h] # Idle
    BY <2>2, <2>3 DEF Idle
  <2> QED
    BY <2>3, <2>4 DEF Running, Prog
<1>5. WriteFile(h) \/ ReadFile(h) \/ ChangeInOnePiece(h) \/ ReloadService(h) \/ RunProgram(h) \/ OpenFile(h)
  BY DEF Proceed, Passable, ResolveDomainUser, UnknownDomain, NotAcceptable, RenderFile, StripConflicts,
         ExitNonzero, Reads, At, Reading, WriteOps
<1> QED
  BY <1>2, <1>3, <1>4, <1>5

\* A file is opened, or the new text is written.
LEMMA Saves ==
  ASSUME SInv, NEW h \in Helpers, Running(h), Proceed(h), Step(h).op = "save"
  PROVE  \/ Opens(h) /\ run'[h].pc = run[h].pc /\ run'[h].wrote /\ Running(h)' /\ Prog(h)' = Prog(h)
         \/ WriteFile(h) /\ disk' = [disk EXCEPT ![Step(h).f] = NewValue(h)] /\ disk'[Step(h).f] = NewValue(h)
<1>1. OpenFile(h) \/ WriteFile(h)
  BY DEF Proceed, ResolveDomainUser, UnknownDomain, ReadFile, NotAcceptable, RenderFile, StripConflicts,
         ChangeInOnePiece, ReloadService, RunProgram, ExitNonzero, Reads, At
<1>2. CASE WriteFile(h)
  <2>1. Step(h).f \in DOMAIN disk
    BY AtStep DEF SInv, DiskInv
  <2> QED
    BY <1>2, <2>1 DEF WriteFile
<1>3. CASE OpenFile(h)
  <2>1. /\ Step(h).op = "save" /\ disk' = disk /\ DOMAIN run = Helpers
        /\ run'[h] = [run[h] EXCEPT !.open = "mine", !.wrote = TRUE]
    BY <1>3 DEF OpenFile, At, SInv, RunInv
  <2>2. DOMAIN run[h] = DOMAIN Idle /\ run[h].pc \in Nat \ {0}
    BY AtStep DEF SInv, RunInv, RunOK
  <2>3. Opens(h) /\ run'[h].pc = run[h].pc /\ run'[h].cmd = run[h].cmd /\ run'[h].wrote
    BY <2>1, <2>2 DEF Opens, Idle
  <2>4. run'[h] # Idle
    BY <2>2, <2>3 DEF Idle
  <2> QED
    BY <2>3, <2>4 DEF Running, Prog
<1> QED
  BY <1>1, <1>2, <1>3

\* A step of h that does not go well: h ends, or skips the rest of its block.
Undone(h) == Stop(h) \/ GiveUp(h)
LEMMA Either ==
  ASSUME SInv, NEW h \in Helpers, Advances(h), Step(h).op \in WriteOps \cup {"run"} \cup Reading
  PROVE  (Proceed(h) /\ Passable(h)) \/ (Undone(h) /\ disk' = disk)
<1>1. CASE FailStep(h) \/ Kill(h) \/ ExitNonzero(h) \/ NotAcceptable(h) \/ UnknownDomain(h)
  BY <1>1 DEF FailStep, Kill, ExitNonzero, NotAcceptable, UnknownDomain, Refuse, Undone
<1>2. CASE ~(FailStep(h) \/ Kill(h) \/ ExitNonzero(h) \/ NotAcceptable(h) \/ UnknownDomain(h))
  <2>1. Proceed(h) /\ (Step(h).op \in Reading => ReadFile(h))
    BY <1>2 DEF Advances, Proceed, ResolveDomainUser, RenderFile, StripConflicts, OpenFile, WriteFile,
                ChangeInOnePiece, ReloadService, RunProgram, At, Reading
  <2> QED
    BY <2>1 DEF Passable, ReadFile
<1> QED
  BY <1>1, <1>2

\* What h was still to write is excused then, once it has begun, unless a later
\* step writes it anyway.
LEMMA Abandoned ==
  ASSUME SInv, NEW h \in Helpers, Running(h), run[h].wrote, Undone(h),
         NEW e \in run[h].pc..Len(Prog(h)), Prog(h)[e].op \in WriteOps, NEW f \in FilesOf(Prog(h)[e]), f \notin excused'
  PROVE  /\ ~Stop(h) /\ GiveUp(h) /\ Step(h).catch > 0 /\ ~Abandons(Prog(h), run[h].pc, f)
<1> DEFINE k == run[h].pc
           i == k + Step(h).catch
<1>1. f \in Ahead(h, k)
  BY DEF Ahead
<1>2. ~Stop(h)
  BY <1>1 DEF Stop
<1>3. Step(h).catch > 0 /\ GiveUp(h)
  BY <1>2 DEF GiveUp, Undone
<1>4. Continue(h, i, run[h].mem, {}, excused \cup (Ahead(h, k) \ Certain[run[h].cmd][i]))
  BY <1>3 DEF GiveUp
<1>5. f \in Certain[run[h].cmd][i]
  BY <1>1, <1>4 DEF Continue
<1>6. ASSUME i \in 1..Len(Prog(h)) + 1 PROVE f \in Surely(Prog(h), i)
  BY <1>5, <1>6, AtStep DEF Certain, Prog
<1> HIDE DEF k
<1> QED
  BY <1>2, <1>3, <1>6, AtStep DEF Abandons, Step, k

\* So a step on the way to one that writes f goes well, if f is not excused.
LEMMA GoesWell ==
  ASSUME SInv, NEW h \in Helpers, Advances(h), run[h].wrote, Step(h).op \in WriteOps \cup {"run"} \cup Reading,
         NEW e \in run[h].pc..Len(Prog(h)), Prog(h)[e].op \in WriteOps, NEW f \in FilesOf(Prog(h)[e]), f \notin excused',
         Abandons(Prog(h), run[h].pc, f)
  PROVE  Proceed(h) /\ Passable(h)
BY Either, Abandoned DEF Advances

\* A file that is written back, or from the request alone, is excused for good.
LEMMA StaysExcused ==
  ASSUME SInv, Next, NEW f, f # Served, f \in excused,
         \A h \in Helpers : Running(h) /\ Step(h).op \in {"save", "swap"} /\ Step(h).f = f =>
                             WritesBack(Step(h)) \/ Step(h).src = {}
  PROVE  f \in excused'
<1>1. PICK h \in Helpers : (\E c \in Command : Start(h, c)) \/ Advances(h)
  BY EachStep
<1>2. CASE \E c \in Command : Start(h, c)
  BY <1>2 DEF Start
<1>3. ASSUME Advances(h), Step(h).op \in {"save", "swap"} PROVE f \in Recorded(h)
  <2>1. CASE Step(h).f # f
    BY <2>1 DEF Recorded
  <2>2. CASE Step(h).f = f /\ Step(h).src = {}
    <3>1. Kept(h, Step(h)).src = {f}
      BY <2>2 DEF Kept, None, Copied
    <3> QED
      BY <2>2, <3>1 DEF Recorded
  <2>3. CASE Step(h).f = f /\ WritesBack(Step(h))
    <3>1. Kept(h, Step(h)).src = {f}
      BY <1>3, <2>3, HoldsCopy DEF Advances
    <3> QED
      BY <2>3, <3>1 DEF Recorded
  <2> QED
    BY <1>3, <2>1, <2>2, <2>3 DEF Advances
<1>4. ASSUME Advances(h), NEW i, NEW mem, NEW w, NEW x, Continue(h, i, mem, w, x), f \in x
      PROVE  f \in excused'
  BY <1>4 DEF Continue
<1>5. CASE Advances(h) /\ Undone(h)
  BY <1>4, <1>5 DEF Undone, Stop, GiveUp
<1>6. CASE WriteFile(h)
  BY <1>1, <1>3, <1>4, <1>6 DEF WriteFile, At, Onward, Start
<1>7. CASE ChangeInOnePiece(h)
  BY <1>1, <1>3, <1>4, <1>7 DEF ChangeInOnePiece, At, Onward, Start
<1>8. CASE ReloadService(h)
  BY <1>1, <1>4, <1>8 DEF ReloadService, At, Onward, Start
<1>9. CASE Advances(h) /\ (ResolveDomainUser(h) \/ ReadFile(h) \/ RenderFile(h) \/ StripConflicts(h) \/ OpenFile(h)
                           \/ RunProgram(h))
  BY <1>4, <1>9 DEF ResolveDomainUser, ReadFile, RenderFile, StripConflicts, OpenFile, RunProgram, Onward
<1> QED
  BY <1>1, <1>2, <1>5, <1>6, <1>7, <1>8, <1>9
     DEF Advances, Proceed, FailStep, Kill, UnknownDomain, NotAcceptable, Refuse, ExitNonzero, Undone

\* A text that is written back and not excused is the file with what the step adds
\* and without what it takes out: its copy was not out of date.
LEMMA Rewritten ==
  ASSUME SInv, NEW h \in Helpers, Running(h), WriteFile(h), WritesBack(Step(h)), Step(h).f \notin excused'
  PROVE  NewValue(h) = (disk[Step(h).f] \ Step(h).del) \cup Step(h).add
<1> DEFINE f == Step(h).f
<1>1. f \notin Recorded(h)
  BY DEF WriteFile, Onward, Continue
<1>2. ~Kept(h, Step(h)).old
  BY <1>1 DEF Recorded
<1>3. Kept(h, Step(h)).val = disk[f]
  BY <1>2, HoldsCopy
<1> QED
  BY <1>3 DEF NewValue

\* A process that comes to a step of a stretch has been at its first step, or was
\* in the stretch before.
LEMMA ComesFrom ==
  ASSUME SInv, NEW h \in Helpers, Running(h), Moved(h), NEW l \in 1..Len(Prog(h)), NEW n \in Nat,
         OnlyThrough(Prog(h), l, n), Plain(Prog(h)[l]),
         Running(h)', run'[h].pc \in l + 1..n, run'[h].pc # run[h].pc
  PROVE  run[h].pc \in l..run'[h].pc - 1
<1> DEFINE p == Prog(h)
           k == run[h].pc
<1>1. PICK t, mem, m : Goes(h, t, mem) /\ Arrives(h, t, mem, m)
  BY DEF Moved, Opens, Running
<1>2. /\ k \in Nat \ {0} /\ Len(p) \in Nat /\ t \in Nat /\ m \in Nat /\ k < t /\ t <= m /\ run'[h].pc = m
  BY <1>1, Forward DEF Arrives
<1>3. ~(k < l)
  <2> SUFFICES ASSUME k < l PROVE FALSE
    OBVIOUS
  <2>1. k \in 1..l - 1 /\ t \in Jumps(p, k)
    BY <1>1, <1>2 DEF Goes
  <2>2. t \notin l + 1..n
    BY <2>1 DEF OnlyThrough
  <2>3. l \in t..m - 1
    BY <1>2, <2>2
  <2>4. Performed(p[l], mem)
    BY DEF Plain, Performed
  <2> QED
    BY <1>1, <2>3, <2>4 DEF Arrives
<1> QED
  BY <1>2, <1>3

\* What the files hold in the beginning, where nothing is computed.
LEMMA Unprocessed ==
  ASSUME Init, NEW f \in Files, f \in {Apns, AlertState, Tokens, Revocations, License, EnvFile} \/ f[1] = "update job"
  PROVE  disk[f] = Source(f)
<1> DEFINE computed == [g \in Files |-> IF Basis(g) = {} THEN Source(g)
                                        ELSE Derived(g, Basis(g), [e \in Files |-> Source(e)])]
<1>1. \A g \in Files :
        disk[g] = CASE g = Served -> Loaded(computed)
                    [] g = Postfix -> Tagged(computed, Maps \cap Files)
                    [] OTHER -> computed[g]
  BY DEF Init
<1> DEFINE names == {"apns", "mobile-push-alert-state.json", "mobile-refresh-tokens.json", "session-revocations.json",
                     "license.json", ".env.local", "update job"}
<1>2. f # Served /\ f # Postfix /\ ~(f = AliasMap) /\ ~(f = DomainMap) /\ ~(f = BackupCron)
      /\ ~(f[1] = "vhost") /\ ~(f[1] = "php-fpm pool")
  <2>1. f[1] \in names
    <3>1. /\ Apns[1] \in names /\ AlertState[1] \in names /\ Tokens[1] \in names /\ Revocations[1] \in names
          /\ License[1] \in names /\ EnvFile[1] \in names /\ "update job" \in names
      BY DEF Apns, AlertState, Tokens, Revocations, License, EnvFile, Sys
    <3> HIDE DEF names
    <3> QED
      BY <3>1
  <2>2. /\ Served[1] \notin names /\ Postfix[1] \notin names /\ AliasMap[1] \notin names /\ DomainMap[1] \notin names
        /\ BackupCron[1] \notin names /\ "vhost" \notin names /\ "php-fpm pool" \notin names
    BY DEF Served, Postfix, AliasMap, DomainMap, BackupCron, Sys
  <2> HIDE DEF names
  <2> QED
    BY <2>1, <2>2
<1>3. Basis(f) = {}
  BY <1>2, Zenon DEF Basis
<1> HIDE DEF computed
<1>4. disk[f] = computed[f]
  BY <1>1, <1>2, Zenon
<1> QED
  BY <1>3, <1>4 DEF computed

-----------------------------------------------------------------------------
(* Jobs end.                                                               *)

\* A process on its way to the end of a job goes on, whatever step fails.
LEMMA FinishingGoesOn ==
  ASSUME SInv, NEW h \in Helpers, Advances(h), NEW f, f \notin excused', Finishing(h, f), JobStarted \in disk'[f]
  PROVE  Finishing(h, f)'
<1> DEFINE p == Prog(h)
           k == run[h].pc
           s == Step(h)
<1>1. /\ Running(h) /\ run[h].wrote
      /\ k \in Nat \ {0} /\ k \in 1..Len(p) /\ Len(p) \in Nat /\ DOMAIN p = 1..Len(p) /\ s = p[k]
  BY OfProgram DEF Advances, Finishing
<1>2. PICK i, e \in 1..Len(p) : Finishes(p, i, e, f) /\ k \in i + 1..e
  BY DEF Finishing
<1>3. /\ Plain(s) /\ s.next = 1 /\ (Abandons(p, k, f) \/ k + s.catch \in k + 1..e)
      /\ k \in i + 1..e - 2 => s.op \in WriteOps \cup {"run"}
      /\ k = e - 1 => s.op \in Reading
      /\ k = e => s.op = "save" /\ s.f = f /\ JobStarted \in s.del \ s.add
      /\ p[e].op = "save" /\ p[e].f = f
  BY <1>1, <1>2 DEF Finishes, Plain
<1>4. ASSUME Running(h)', Prog(h)' = p, run'[h].pc \in i + 1..e, run'[h].wrote
      PROVE  Finishing(h, f)'
  BY <1>2, <1>4 DEF Finishing
<1>5. s.op \in WriteOps \cup {"run"} \cup Reading /\ p[e].op \in WriteOps /\ f \in FilesOf(p[e])
  BY <1>1, <1>2, <1>3 DEF WriteOps, FilesOf
<1>6. CASE Undone(h)
  <2>1. GiveUp(h) /\ s.catch > 0 /\ ~Abandons(p, k, f)
    BY <1>1, <1>2, <1>5, <1>6, Abandoned
  <2> DEFINE n == k + s.catch
  <2>2. n \in k + 1..e /\ n \in i + 1..e /\ n \in 1..Len(p)
    BY <1>1, <1>2, <1>3, <2>1, AtStep
  <2>3. Performed(p[n], run[h].mem)
    BY <1>2, <2>2 DEF Finishes, Plain, Performed
  <2>4. PICK x : Continue(h, n, run[h].mem, {}, x)
    BY <2>1 DEF GiveUp
  <2> HIDE DEF n
  <2>5. Running(h)' /\ Prog(h)' = p /\ run'[h].pc = n /\ run'[h].wrote
    BY <1>1, <2>2, <2>3, <2>4, GoesOnHere
  <2> QED
    BY <1>4, <2>2, <2>5
<1>7. CASE Proceed(h) /\ Passable(h) /\ k = e
  <2>1. CASE Opens(h) /\ run'[h].pc = k /\ run'[h].wrote /\ Running(h)' /\ Prog(h)' = p
    BY <1>2, <1>4, <2>1
  <2>2. CASE disk'[f] = NewValue(h)
    BY <1>3, <1>7, <2>2 DEF NewValue
  <2> QED
    BY <1>1, <1>3, <1>7, <2>1, <2>2, Saves
<1>8. CASE Proceed(h) /\ Passable(h) /\ k # e
  <2>1. k + 1 \in i + 1..e /\ k + 1 \in 1..Len(p)
    BY <1>1, <1>2, <1>8
  <2>2. Plain(p[k + 1])
    BY <1>2, <2>1 DEF Finishes
  <2>3. Running(h)' /\ Prog(h)' = p /\ (run'[h].pc = k + 1 \/ run'[h].pc = k) /\ run'[h].wrote
    BY <1>1, <1>3, <1>8, <2>1, <2>2, Continues DEF Plain
  <2> QED
    BY <1>2, <1>4, <2>1, <2>3
<1> QED
  BY <1>5, <1>6, <1>7, <1>8, Either

\* What is written to a job's file: that it has ended, or that it has started, by
\* the process that will end it.
LEMMA JobWritten ==
  ASSUME SInv, NEW h \in Helpers, Advances(h), NEW x \in Items,
         Job(x) \in Files, disk'[Job(x)] # disk[Job(x)], JobStarted \in disk'[Job(x)]
  PROVE  Finishing(h, Job(x))'
<1> DEFINE p == Prog(h)
           k == run[h].pc
           s == Step(h)
           f == Job(x)
<1>1. /\ Running(h) /\ k \in Nat \ {0} /\ k \in 1..Len(p) /\ Len(p) \in Nat /\ DOMAIN p = 1..Len(p)
      /\ run[h].cmd \in Command /\ s = p[k] /\ p = Program[run[h].cmd]
  BY OfProgram DEF Advances
<1>2. s.op \in WriteOps /\ f \in FilesOf(s)
  BY DEF Advances, Moved
<1>3. /\ s.op = "save"
      /\ \/ JobStarted \in s.del \ s.add
         \/ s.next = 1 /\ \E e \in DOMAIN p : Finishes(p, k, e, f)
  BY <1>1, <1>2, JobsAssumption
<1>4. s.f = f
  BY <1>2, <1>3 DEF FilesOf
<1>5. Proceed(h) /\ Passable(h)
  BY <1>2, Either
<1>6. disk'[f] = NewValue(h)
  BY <1>1, <1>3, <1>4, <1>5, Saves DEF Opens
<1>7. PICK e \in DOMAIN p : s.next = 1 /\ Finishes(p, k, e, f)
  BY <1>3, <1>6 DEF NewValue
<1>8. k + 1 \in k + 1..e /\ k + 1 \in 1..Len(p)
  BY <1>1, <1>7 DEF Finishes
<1>9. Plain(p[k + 1])
  BY <1>7, <1>8 DEF Finishes
<1>10. Running(h)' /\ Prog(h)' = p /\ run'[h].pc = k + 1 /\ run'[h].wrote
  BY <1>1, <1>2, <1>5, <1>7, <1>8, <1>9, Continues DEF Plain, Opens
<1> QED
  BY <1>1, <1>7, <1>8, <1>10 DEF Finishing

\* A job's file that is excused stays so.
LEMMA JobsExcused ==
  ASSUME SInv, Next, NEW x \in Items, Job(x) \in excused
  PROVE  Job(x) \in excused'
<1>1. Job(x) # Served
  <2>1. Job(x)[1] = "update job" /\ Served[1] = "nginx"
    BY DEF Job, Cfg, Served, Sys
  <2> QED
    BY <2>1
<1>2. ASSUME NEW h \in Helpers, Running(h), Step(h).op \in {"save", "swap"}, Step(h).f = Job(x)
      PROVE  WritesBack(Step(h)) \/ Step(h).src = {}
  BY <1>2, OfProgram, JobsAssumption DEF WriteOps, FilesOf
<1> QED
  BY <1>1, <1>2, StaysExcused

\* A job that has started has a process that ends it.
LEMMA JobsKept ==
  ASSUME SInv, JobInv, Next
  PROVE  JobInv'
<1> SUFFICES ASSUME NEW x \in Items, Job(x) \in Files \ excused', JobStarted \in disk'[Job(x)]
             PROVE  \E g \in Helpers : Finishing(g, Job(x))'
  BY DEF JobInv
<1> DEFINE f == Job(x)
<1>1. f \in Files \ excused
  BY JobsExcused
<1>2. PICK h \in Helpers : (\E c \in Command : Start(h, c)) \/ Advances(h)
  BY EachStep
<1>3. ASSUME disk'[f] = disk[f]
      PROVE  \E g \in Helpers : Finishing(g, f)
  BY <1>1, <1>3 DEF JobInv
<1>4. CASE \E c \in Command : Start(h, c)
  <2>1. disk' = disk /\ ~Running(h)
        /\ \A g \in Helpers \ {h} : run'[g] = run[g] /\ (Running(g)' <=> Running(g)) /\ Prog(g)' = Prog(g)
    BY <1>4, Started
  <2>2. PICK g \in Helpers : Finishing(g, f)
    BY <1>3, <2>1
  <2>3. Finishing(g, f)'
    BY <2>1, <2>2 DEF Finishing
  <2> QED
    BY <2>3
<1>5. CASE Advances(h)
  <2>1. CASE disk'[f] # disk[f]
    BY <1>5, <2>1, JobWritten
  <2>2. CASE disk'[f] = disk[f]
    <3>1. PICK g \in Helpers : Finishing(g, f)
      BY <1>3, <2>2
    <3>2. CASE g = h
      BY <1>5, <3>1, <3>2, FinishingGoesOn
    <3>3. CASE g # h
      <4>1. Running(g)' /\ Prog(g)' = Prog(g) /\ run'[g].pc = run[g].pc /\ run'[g].wrote = run[g].wrote
        BY <1>5, <3>1, <3>3, Stays DEF Finishing, Advances
      <4> QED
        BY <3>1, <4>1 DEF Finishing
    <3> QED
      BY <3>1, <3>2, <3>3
  <2> QED
    BY <2>1, <2>2
<1> QED
  BY <1>2, <1>4, <1>5

\* No job is at work in the beginning.
LEMMA JobsBegin ==
  ASSUME Init
  PROVE  JobInv
<1> SUFFICES ASSUME NEW x \in Items, Job(x) \in Files, JobStarted \in disk[Job(x)] PROVE FALSE
  BY DEF JobInv
<1> DEFINE f == Job(x)
<1>1. f[1] = "update job" /\ f[2] = x
  BY DEF Job, Cfg
<1>2. disk[f] = Source(f)
  BY <1>1, Unprocessed
<1>3. Source(f) = IF f[2] \in Present THEN {JobMeta, JobEnded} ELSE {}
  <2>1. /\ ~(f \in {Registry, Linked}) /\ ~(f = Passwd) /\ ~(f = UsersJson) /\ ~(f = Tokens) /\ ~(f = ApiKeys)
        /\ ~(f = License) /\ ~(f = EnvFile) /\ ~(f = PushTokens) /\ ~(f = Docker) /\ ~(f = PlanStore)
        /\ ~(f = Servers) /\ ~(f = JournalFile)
    <3> DEFINE others == {Registry, Linked, Passwd, UsersJson, Tokens, ApiKeys, License, EnvFile, PushTokens, Docker,
                          PlanStore, Servers, JournalFile}
    <3>1. \A g \in others : g[1] # "update job"
      <4>1. /\ Registry[1] # "update job" /\ Linked[1] # "update job" /\ Passwd[1] # "update job"
            /\ UsersJson[1] # "update job" /\ Tokens[1] # "update job" /\ ApiKeys[1] # "update job"
            /\ License[1] # "update job" /\ EnvFile[1] # "update job" /\ PushTokens[1] # "update job"
            /\ Docker[1] # "update job" /\ PlanStore[1] # "update job" /\ Servers[1] # "update job"
            /\ JournalFile[1] # "update job"
        BY DEF Sys, Registry, Linked, Passwd, Tokens, ApiKeys, License, EnvFile, PushTokens, Docker, PlanStore,
               Servers, UsersJson, JournalFile
      <4> QED
        BY <4>1
    <3>2. f \notin others
      BY <1>1, <3>1
    <3> QED
      BY <3>2
  <2> HIDE DEF f
  <2> QED
    BY <1>1, <2>1, Zenon DEF Source
<1>4. JobStarted \notin {JobMeta, JobEnded}
  BY DEF JobStarted, JobMeta, JobEnded
<1> QED
  BY <1>2, <1>3, <1>4

\* When no request is at work no job's file says that it runs, unless its last
\* writer left it behind: whatever fails on the way, who writes that a job has
\* started comes to the step that writes that it has ended.
THEOREM JobsComeToAnEnd == Spec => []JobsEnd
<1>1. Init => SInv /\ JobInv
  BY InitInv, JobsBegin
<1>2. SInv /\ JobInv /\ [Next]_vars => SInv' /\ JobInv'
  <2>1. ASSUME JobInv, UNCHANGED vars PROVE JobInv'
    BY <2>1 DEF vars, JobInv, Finishing, Running, Prog
  <2> QED
    BY <2>1, NextKeeps, JobsKept
<1>3. JobInv => JobsEnd
  BY DEF JobInv, JobsEnd, Whole, Finishing, Quiet
<1> QED
  BY <1>1, <1>2, <1>3, PTL DEF Spec

-----------------------------------------------------------------------------
(* An alert is sent once.                                                  *)

\* Two files of the alerts.
LEMMA AlertFiles == Apns # AlertState
<1>1. Apns[1] = "apns" /\ AlertState[1] = "mobile-push-alert-state.json"
  BY DEF Apns, AlertState, Sys
<1> QED
  BY <1>1

\* Who sends an alert of d has read that none was sent.
LEMMA NotYetSent ==
  ASSUME SInv, NEW h \in Helpers, Running(h), trouble = 0, AlertState \notin crossed,
         NEW d \in Domains, Reports(Prog(h), run[h].pc, d)
  PROVE  Sent(d) \notin disk[AlertState]
<1> DEFINE p == Prog(h)
           k == run[h].pc
           mem == run[h].mem
<1>1. k \in Nat \ {0} /\ k \in 1..Len(p) /\ Len(p) \in Nat /\ DOMAIN p = 1..Len(p) /\ ReadsFirst(p)
  BY AtStep, ProgramFacts DEF Prog
<1>2. /\ k + 1 \in 1..Len(p) /\ p[k].op = "put" /\ p[k + 1].f = AlertState /\ WritesBack(p[k + 1])
      /\ \A i \in {k, k + 1} : p[i].has = {} /\ p[i].lacks = {<<AlertState, Sent(d)>>}
  BY <1>1 DEF Reports
<1>3. PICK j \in 1..k : ReadFor(p, j, k + 1)
  BY <1>1, <1>2 DEF ReadsFirst
<1>4. j # k /\ Asks(p[j], p[k])
  BY <1>2, <1>3 DEF ReadFor, Reading, Asks
<1>5. Performed(p[k], mem)
  BY DEF SInv, RunInv, RunOK, Step
<1>6. Performed(p[j], mem)
  BY <1>4, <1>5 DEF Asks, Performed
<1>7. j \in 1..Len(p) /\ j < k /\ k <= k + 1 /\ Pair(p, j, k + 1)
  BY <1>1, <1>2, <1>3, <1>4 DEF Pair
<1>8. CopyOf(mem, AlertState, disk[AlertState], Doubt(p[j]))
  BY <1>2, <1>6, <1>7 DEF SInv, CopyInv, CopyOK
<1>9. AlertState \in DOMAIN mem /\ disk[AlertState] \subseteq mem[AlertState].val
  BY <1>8 DEF CopyOf, Doubt
<1>10. ~Holds(mem, <<AlertState, Sent(d)>>)
  BY <1>2, <1>5 DEF Performed
<1> QED
  BY <1>9, <1>10 DEF Holds

\* An alert is sent: it is the only one of its domain, and about to be saved.
LEMMA AlertSent ==
  ASSUME SInv, AlertInv, NEW h \in Helpers, Running(h), Moved(h), Proceed(h), Undisturbed(AlertState),
         {Apns, AlertState} \subseteq Files, Step(h).op \in WriteOps, Apns \in FilesOf(Step(h)), NEW d \in Domains
  PROVE  /\ \A t, v \in AlertsOf(d)' : t = v
         /\ AlertsOf(d)' # {} => Sent(d) \in disk'[AlertState] \/ \E g \in Helpers : Reporting(g, d)'
<1> DEFINE p == Prog(h)
           k == run[h].pc
           s == Step(h)
<1>1. /\ k \in Nat \ {0} /\ k \in 1..Len(p) /\ Len(p) \in Nat /\ DOMAIN p = 1..Len(p) /\ run[h].cmd \in Command
      /\ DOMAIN disk = Files
  BY AtStep, ProgramFacts DEF Prog, SInv, DiskInv
<1>2. PICK e \in Domains : Reports(p, k, e)
  BY <1>1, AlertsAssumption DEF Prog, Step
<1>3. /\ s.op = "put" /\ s.f = Apns /\ s.del = {} /\ s.next = 1 /\ k + 1 \in 1..Len(p)
      /\ p[k + 1].op = "save" /\ p[k + 1].f = AlertState
      /\ p[k + 1].has = s.has /\ p[k + 1].lacks = s.lacks
  BY <1>1, <1>2 DEF Reports, Step
<1>4. PICK by : s.add = {<<"alert", e, by>>}
  BY <1>2 DEF Reports, Step
<1>5. ChangeInOnePiece(h)
  BY <1>3 DEF Proceed, ResolveDomainUser, UnknownDomain, ReadFile, NotAcceptable, RenderFile, StripConflicts,
              OpenFile, WriteFile, ReloadService, RunProgram, ExitNonzero, Reads, At
<1>6. disk'[Apns] = disk[Apns] \cup {<<"alert", e, by>>} /\ disk'[AlertState] = disk[AlertState]
  <2>1. disk' = [f \in Files |-> IF f \in {Apns} THEN After(h, f) ELSE disk[f]]
    BY <1>3, <1>5 DEF ChangeInOnePiece, FilesOf
  <2>2. After(h, Apns) = (disk[Apns] \ s.del) \cup s.add
    BY <1>3 DEF After
  <2> QED
    BY <1>3, <1>4, <2>1, <2>2, AlertFiles
<1>7. ASSUME NEW g \in Helpers, NEW a \in Domains, Reporting(g, a) PROVE g # h /\ Reporting(g, a)'
  <2>1. PICK i \in 1..Len(Prog(g)) : Reports(Prog(g), i, a) /\ run[g].pc = i + 1 /\ Running(g)
    BY <1>7 DEF Reporting
  <2>2. g # h
    BY <1>3, <2>1 DEF Reports, Step
  <2>3. Running(g)' /\ Prog(g)' = Prog(g) /\ run'[g].pc = run[g].pc
    BY <2>1, <2>2, Stays
  <2> QED
    BY <2>1, <2>2, <2>3 DEF Reporting
<1>8. CASE d # e
  <2>1. AlertsOf(d)' = AlertsOf(d)
    BY <1>6, <1>8 DEF AlertsOf
  <2> QED
    BY <1>6, <1>7, <2>1 DEF AlertInv
<1>9. CASE d = e
  <2>1. Sent(d) \notin disk[AlertState]
    BY <1>2, <1>9, NotYetSent DEF Undisturbed
  <2>2. ASSUME NEW g \in Helpers, Reporting(g, d) PROVE FALSE
    <3>1. PICK i \in 1..Len(Prog(g)) : Reports(Prog(g), i, d) /\ run[g].pc = i + 1 /\ Running(g)
      BY <2>2 DEF Reporting
    <3>2. Step(g).op \in WriteOps /\ AlertState \in FilesOf(Step(g))
      BY <3>1 DEF Reports, Step, WriteOps, FilesOf
    <3>3. AlertState \in Uses(p)
      BY <1>1, <1>3, Used DEF FilesOf
    <3> QED
      BY <1>7, <2>2, <3>1, <3>2, <3>3, Sole DEF Undisturbed
  <2>3. AlertsOf(d) = {}
    BY <2>1, <2>2 DEF AlertInv
  <2>4. \A t \in AlertsOf(d)' : t = <<"alert", e, by>>
    BY <1>6, <2>3 DEF AlertsOf
  <2>5. Running(h)' /\ Prog(h)' = p /\ run'[h].pc = k + 1
    <3>1. Passable(h) /\ s.op \notin Copying /\ ~Opens(h)
      BY <1>3 DEF Passable, Copying, Reading, Opens
    <3> QED
      BY <1>3, <3>1, Continues
  <2>6. Reporting(h, d)'
    BY <1>1, <1>2, <1>9, <2>5 DEF Reporting
  <2> QED
    BY <2>4, <2>6
<1> QED
  BY <1>8, <1>9

\* What was sent stays on record.
LEMMA RecordGrows ==
  ASSUME SInv, NEW h \in Helpers, Running(h), Moved(h), Proceed(h), Undisturbed(AlertState), AlertState \in Files
  PROVE  disk[AlertState] \subseteq disk'[AlertState]
<1> DEFINE f == AlertState
<1> SUFFICES ASSUME disk'[f] # disk[f] PROVE disk[f] \subseteq disk'[f]
  OBVIOUS
<1>1. Step(h).op \in WriteOps /\ f \in FilesOf(Step(h))
  BY DEF Moved
<1>2. run[h].cmd \in Command /\ run[h].pc \in DOMAIN Prog(h)
  BY AtStep, ProgramFacts DEF Prog
<1>3. Step(h).op = "save" /\ WritesBack(Step(h)) /\ Step(h).del = {}
  BY <1>1, <1>2, AlertsAssumption DEF Prog, Step
<1>4. Step(h).f = f
  BY <1>1, <1>3 DEF FilesOf
<1>5. disk'[f] = NewValue(h)
  BY <1>3, <1>4, Saves DEF Opens
<1> QED
  BY <1>3, <1>4, <1>5, WritesAll DEF Undisturbed

\* Who is about to save that an alert was sent saves it.
LEMMA ReportingGoesOn ==
  ASSUME SInv, NEW h \in Helpers, Running(h), Moved(h), Proceed(h), NEW d \in Domains, Reporting(h, d)
  PROVE  Sent(d) \in disk'[AlertState] \/ Reporting(h, d)'
<1>1. PICK i \in 1..Len(Prog(h)) : Reports(Prog(h), i, d) /\ run[h].pc = i + 1
  BY DEF Reporting
<1>2. Step(h).op = "save" /\ Step(h).f = AlertState /\ Sent(d) \in Step(h).add
  BY <1>1 DEF Reports, Step
<1>3. CASE run'[h].pc = run[h].pc /\ Running(h)' /\ Prog(h)' = Prog(h)
  BY <1>1, <1>3 DEF Reporting
<1>4. CASE disk'[AlertState] = NewValue(h)
  BY <1>2, <1>4 DEF NewValue
<1> QED
  BY <1>2, <1>3, <1>4, Saves

\* An alert that was sent is on record or about to be, and is not sent again.
LEMMA AlertsKept ==
  ASSUME SInv, AlertInv, Next
  PROVE  AlertInv'
<1> SUFFICES ASSUME {Apns, AlertState} \subseteq Files, Undisturbed(AlertState)', NEW d \in Domains
             PROVE  /\ \A t, v \in AlertsOf(d)' : t = v
                    /\ AlertsOf(d)' # {} => Sent(d) \in disk'[AlertState] \/ \E g \in Helpers : Reporting(g, d)'
  BY DEF AlertInv
<1>1. Undisturbed(AlertState)
  BY Calm DEF Undisturbed
<1>2. PICK h \in Helpers : (\E c \in Command : Start(h, c)) \/ (Running(h) /\ Moved(h) /\ Proceed(h))
  BY Calm DEF Undisturbed
<1>3. /\ \A t, v \in AlertsOf(d) : t = v
      /\ AlertsOf(d) # {} => Sent(d) \in disk[AlertState] \/ \E g \in Helpers : Reporting(g, d)
  BY <1>1 DEF AlertInv
<1>4. CASE \E c \in Command : Start(h, c)
  <2>1. disk' = disk /\ ~Running(h)
        /\ \A g \in Helpers \ {h} : run'[g] = run[g] /\ (Running(g)' <=> Running(g)) /\ Prog(g)' = Prog(g)
    BY <1>4, Started
  <2>2. ASSUME NEW g \in Helpers, Reporting(g, d) PROVE Reporting(g, d)'
    BY <2>1, <2>2 DEF Reporting
  <2>3. AlertsOf(d)' = AlertsOf(d)
    BY <2>1 DEF AlertsOf
  <2> QED
    BY <1>3, <2>1, <2>2, <2>3
<1>5. CASE Running(h) /\ Moved(h) /\ Proceed(h)
  <2>1. CASE Step(h).op \in WriteOps /\ Apns \in FilesOf(Step(h))
    BY <1>1, <1>5, <2>1, AlertSent
  <2>2. CASE ~(Step(h).op \in WriteOps /\ Apns \in FilesOf(Step(h)))
    <3>1. disk'[Apns] = disk[Apns]
      BY <1>5, <2>2 DEF Moved
    <3>2. AlertsOf(d)' = AlertsOf(d)
      BY <3>1 DEF AlertsOf
    <3>3. ASSUME NEW g \in Helpers, Reporting(g, d)
          PROVE  Sent(d) \in disk'[AlertState] \/ Reporting(g, d)'
      <4>1. CASE g = h
        BY <1>5, <3>3, <4>1, ReportingGoesOn
      <4>2. CASE g # h
        <5>1. Running(g)' /\ Prog(g)' = Prog(g) /\ run'[g].pc = run[g].pc
          BY <1>5, <3>3, <4>2, Stays DEF Reporting
        <5> QED
          BY <3>3, <5>1 DEF Reporting
      <4> QED
        BY <4>1, <4>2
    <3>4. disk[AlertState] \subseteq disk'[AlertState]
      BY <1>1, <1>5, RecordGrows
    <3> QED
      BY <1>3, <3>2, <3>3, <3>4
  <2> QED
    BY <2>1, <2>2
<1> QED
  BY <1>2, <1>4, <1>5

\* No alert was sent in the beginning.
LEMMA AlertsBegin ==
  ASSUME Init
  PROVE  AlertInv
<1> SUFFICES ASSUME {Apns, AlertState} \subseteq Files PROVE disk[Apns] = {}
  BY DEF AlertInv, AlertsOf
<1> DEFINE f == Apns
<1>1. disk[f] = Source(f)
  BY Unprocessed
<1>2. f[1] = "apns" /\ f[2] \notin Hosted
  BY DomainsAssumption, InstanceAssumption DEF Apns, Sys
<1>3. /\ ~(f \in {Registry, Linked}) /\ ~(f = Passwd) /\ ~(f = UsersJson) /\ ~(f = Tokens) /\ ~(f = ApiKeys)
      /\ ~(f = License) /\ ~(f = EnvFile) /\ ~(f = PushTokens) /\ ~(f = Docker) /\ ~(f = PlanStore)
      /\ ~(f = Servers) /\ ~(f = JournalFile) /\ ~(f[1] = "update job")
  BY DEF Apns, Sys, Registry, Linked, Passwd, Tokens, ApiKeys, License, EnvFile, PushTokens, Docker, PlanStore,
         Servers, UsersJson, JournalFile
<1> HIDE DEF f
<1>4. Source(f) = IF f[2] \in Hosted THEN SourceOf(f) ELSE {}
  BY <1>3, Zenon DEF Source
<1> QED
  BY <1>1, <1>2, <1>4 DEF f

\* An alert is sent once, whoever evaluates it, unless two evaluations overlap or
\* something fails: who sends it has read that it was not, and saves that it was.
THEOREM AlertsAreSentOnce == {Apns, AlertState} \subseteq Files => (Spec => []AlertSentOnce)
<1> SUFFICES ASSUME {Apns, AlertState} \subseteq Files PROVE Spec => []AlertSentOnce
  OBVIOUS
<1>1. Init => SInv /\ AlertInv
  BY InitInv, AlertsBegin
<1>2. SInv /\ AlertInv /\ [Next]_vars => SInv' /\ AlertInv'
  <2>1. ASSUME AlertInv, UNCHANGED vars PROVE AlertInv'
    BY <2>1 DEF vars, AlertInv, Undisturbed, AlertsOf, Reporting, Running, Prog
  <2> QED
    BY <2>1, NextKeeps, AlertsKept
<1>3. SInv /\ AlertInv => AlertSentOnce
  <2> SUFFICES ASSUME SInv, AlertInv, AlertState \notin crossed, ~(trouble > 0), NEW d \in Domains
               PROVE  Cardinality(AlertsOf(d)) <= 1
    BY DEF AlertSentOnce, AlertsOf
  <2>1. trouble = 0
    BY InstanceAssumption DEF SInv, DiskInv
  <2>2. \A t, v \in AlertsOf(d) : t = v
    BY <2>1 DEF AlertInv, Undisturbed
  <2> QED
    BY <2>2, AtMostOne
<1> QED
  BY <1>1, <1>2, <1>3, PTL DEF Spec

-----------------------------------------------------------------------------
(* A user who has not signed out holds a token.                            *)

\* The stores of the tokens and of who has signed out, as a step writes them.
LEMMA TokensWritten ==
  ASSUME SInv, NEW h \in Helpers, Advances(h), NEW f \in {Tokens, Revocations} \cap Files,
         f \notin excused', disk'[f] # disk[f]
  PROVE  /\ Proceed(h) /\ Passable(h) /\ Step(h).op = "save" /\ Step(h).f = f /\ WriteFile(h)
         /\ disk'[f] = (disk[f] \ Step(h).del) \cup Step(h).add
         /\ f = Revocations => Step(h).del = {}
         /\ f = Tokens => \A u \in Items : Step(h).del \cap TokensOf(u) # {} =>
              Step(h).next = 1 /\ (SignsOut(Prog(h), run[h].pc, u) \/ Replaces(Prog(h), run[h].pc, u))
<1>1. Running(h) /\ Step(h).op \in WriteOps /\ f \in FilesOf(Step(h))
  BY DEF Advances, Moved
<1>2. run[h].cmd \in Command /\ run[h].pc \in DOMAIN Prog(h)
  BY <1>1, OfProgram
<1>7. Proceed(h) /\ Passable(h)
  BY <1>1, Either
<1>3. /\ Step(h).op = "save" /\ WritesBack(Step(h))
      /\ f = Revocations => Step(h).del = {}
      /\ f = Tokens => \A u \in Items : Step(h).del \cap TokensOf(u) # {} =>
           Step(h).next = 1 /\ (SignsOut(Prog(h), run[h].pc, u) \/ Replaces(Prog(h), run[h].pc, u))
  BY <1>1, <1>2, TokensAssumption DEF Prog, Step
<1>4. Step(h).f = f
  BY <1>1, <1>3 DEF FilesOf
<1>5. disk'[f] = NewValue(h) /\ WriteFile(h)
  BY <1>1, <1>3, <1>4, <1>7, Saves DEF Opens
<1>6. NewValue(h) = (disk[f] \ Step(h).del) \cup Step(h).add
  BY <1>1, <1>3, <1>4, <1>5, Rewritten
<1> QED
  BY <1>3, <1>4, <1>5, <1>6, <1>7

\* Tokens and Revocations, when they are excused, stay so.
LEMMA TokensExcused ==
  ASSUME SInv, Next, NEW f \in {Tokens, Revocations}, f \in excused
  PROVE  f \in excused'
<1>1. f # Served
  <2>1. /\ Tokens[1] = "mobile-refresh-tokens.json" /\ Revocations[1] = "session-revocations.json"
        /\ Served[1] = "nginx"
    BY DEF Tokens, Revocations, Served, Sys
  <2> QED
    BY <2>1
<1>2. ASSUME NEW h \in Helpers, Running(h), Step(h).op \in {"save", "swap"}, Step(h).f = f
      PROVE  WritesBack(Step(h)) \/ Step(h).src = {}
  BY <1>2, OfProgram, TokensAssumption DEF WriteOps, FilesOf
<1> QED
  BY <1>1, <1>2, StaysExcused

\* Steps that read a file, whatever it holds, and write it back, one after the
\* other: the process comes from the first to the second, and writes, unless the
\* file is excused for it.
LEMMA EditGoesOn ==
  ASSUME SInv, NEW h \in Helpers, Advances(h), run[h].wrote, NEW i \in Nat, NEW f, f \notin excused',
         Edits(Prog(h), i, f)
  PROVE  /\ run[h].pc = i => Running(h)' /\ Prog(h)' = Prog(h) /\ run'[h].pc = i + 1 /\ run'[h].wrote
         /\ run[h].pc = i + 1 =>
              \/ Running(h)' /\ Prog(h)' = Prog(h) /\ run'[h].pc = i + 1 /\ run'[h].wrote /\ disk' = disk
              \/ WriteFile(h) /\ disk'[f] = NewValue(h)
<1> DEFINE p == Prog(h)
<1>1. Running(h) /\ DOMAIN p = 1..Len(p) /\ Len(p) \in Nat
  BY OfProgram DEF Advances
<1>2. /\ {i, i + 1} \subseteq 1..Len(p) /\ Plain(p[i]) /\ Plain(p[i + 1])
      /\ p[i].op = "read" /\ p[i].need = {} /\ p[i].bar = {}
      /\ p[i + 1].op \in WriteOps /\ p[i + 1].op = "save" /\ p[i + 1].f = f /\ f \in FilesOf(p[i + 1])
      /\ Abandons(p, i + 1, f)
  BY <1>1 DEF Edits, WriteOps, FilesOf
<1>3. CASE run[h].pc = i
  <2>1. /\ Step(h).op = "read" /\ Step(h).need = {} /\ Step(h).bar = {} /\ Step(h).next = 1
    BY <1>2, <1>3 DEF Plain, Step
  <2>2. Acceptable(h)
    BY <2>1 DEF Acceptable
  <2>3. ~Stop(h) \/ ~Undone(h)
    BY <1>1, <1>2, <1>3, Abandoned
  <2>4. ~FailStep(h) /\ ~ExitNonzero(h) /\ ~NotAcceptable(h) /\ ~UnknownDomain(h)
    BY <2>1, <2>2 DEF FailStep, ExitNonzero, NotAcceptable, UnknownDomain, At, Reads, WriteOps
  <2>5. Proceed(h)
    BY <2>3, <2>4 DEF Advances, Kill, Undone
  <2>6. Passable(h) /\ ~Opens(h)
    BY <2>1, <2>2 DEF Passable, Reading, Opens
  <2>7. Running(h)' /\ Prog(h)' = p /\ run'[h].pc = i + 1 /\ run'[h].wrote
    BY <1>1, <1>2, <1>3, <2>1, <2>5, <2>6, Continues DEF Plain
  <2> QED
    BY <1>3, <2>7
<1>4. CASE run[h].pc = i + 1
  <2>1. Step(h).op = "save" /\ Step(h).f = f /\ Step(h).op \in WriteOps
    BY <1>2, <1>4 DEF Step
  <2>2. Proceed(h)
    BY <1>1, <1>2, <1>4, <2>1, GoesWell
  <2>3. \/ Opens(h) /\ run'[h].pc = run[h].pc /\ run'[h].wrote /\ Running(h)' /\ Prog(h)' = p
        \/ WriteFile(h) /\ disk'[f] = NewValue(h)
    BY <1>1, <2>1, <2>2, Saves
  <2> QED
    BY <1>4, <2>3 DEF Opens
<1> QED
  BY <1>3, <1>4

\* Who is about to write that a user has signed out, or a new token, does so.
LEMMA MakingGoesOn ==
  ASSUME SInv, NEW h \in Helpers, Advances(h), NEW u \in Items, Making(h, u),
         Tokens \notin excused', Revocations \notin excused'
  PROVE  \/ Making(h, u)' \/ TokensOf(u) \cap disk'[Tokens] # {} \/ SignedOff(u) \cap disk'[Revocations] # {}
<1>1. PICK i \in 1..Len(Prog(h)) : /\ SignsOut(Prog(h), i, u) \/ Replaces(Prog(h), i, u)
                                   /\ run[h].pc \in {i + 1, i + 2} /\ run[h].wrote
  BY DEF Making
<1>2. Len(Prog(h)) \in Nat /\ i + 1 \in Nat /\ i + 1 + 1 = i + 2
  BY OfProgram DEF Advances
<1>3. PICK f \in {Tokens, Revocations} :
        /\ Edits(Prog(h), i + 1, f)
        /\ f = Tokens => Prog(h)[i + 2].add \cap TokensOf(u) # {}
        /\ f = Revocations => Prog(h)[i + 2].add \cap SignedOff(u) # {}
  <2>1. Tokens # Revocations
    <3>1. Tokens[1] = "mobile-refresh-tokens.json" /\ Revocations[1] = "session-revocations.json"
      BY DEF Tokens, Revocations, Sys
    <3> QED
      BY <3>1
  <2> QED
    BY <1>1, <2>1 DEF SignsOut, Replaces
<1>4. ASSUME Running(h)', Prog(h)' = Prog(h), run'[h].pc = i + 2, run'[h].wrote
      PROVE  Making(h, u)'
  BY <1>1, <1>4 DEF Making
<1>5. CASE run[h].pc = i + 1
  BY <1>1, <1>2, <1>3, <1>4, <1>5, EditGoesOn
<1>6. CASE run[h].pc = i + 2
  <2>1. CASE disk'[f] = NewValue(h)
    <3>1. Prog(h)[i + 2].add \subseteq disk'[f]
      BY <1>6, <2>1 DEF NewValue, Step
    <3> QED
      BY <1>3, <3>1
  <2>2. CASE Running(h)' /\ Prog(h)' = Prog(h) /\ run'[h].pc = i + 2 /\ run'[h].wrote
    BY <1>4, <2>2
  <2> QED
    BY <1>1, <1>2, <1>3, <1>6, <2>1, <2>2, EditGoesOn
<1> QED
  BY <1>1, <1>5, <1>6

\* Who takes the last token of a user is about to write the one or the other.
LEMMA LastToken ==
  ASSUME SInv, NEW h \in Helpers, Advances(h), Tokens \in Files \ excused',
         NEW u \in Items, TokensOf(u) \cap disk[Tokens] # {}, TokensOf(u) \cap disk'[Tokens] = {}
  PROVE  Making(h, u)'
<1> DEFINE p == Prog(h)
           k == run[h].pc
<1>1. Running(h) /\ k \in Nat \ {0} /\ k \in 1..Len(p) /\ DOMAIN p = 1..Len(p)
  BY OfProgram DEF Advances
<1>2. disk'[Tokens] # disk[Tokens]
  OBVIOUS
<1>3. /\ Proceed(h) /\ Passable(h) /\ Step(h).op = "save" /\ FilesOf(Step(h)) # {}
      /\ disk'[Tokens] = (disk[Tokens] \ Step(h).del) \cup Step(h).add
      /\ \A v \in Items : Step(h).del \cap TokensOf(v) # {} =>
           Step(h).next = 1 /\ (SignsOut(p, k, v) \/ Replaces(p, k, v))
  BY <1>2, TokensWritten DEF FilesOf
<1>4. Step(h).next = 1 /\ (SignsOut(p, k, u) \/ Replaces(p, k, u))
  BY <1>3
<1>5. Plain(p[k + 1]) /\ k + 1 \in 1..Len(p)
  BY <1>1, <1>4 DEF SignsOut, Replaces, Edits
<1>6. Running(h)' /\ Prog(h)' = p /\ run'[h].pc = k + 1 /\ run'[h].wrote
  BY <1>1, <1>2, <1>3, <1>4, <1>5, Continues DEF Plain, Opens, WriteOps
<1> QED
  BY <1>1, <1>4, <1>6 DEF Making

\* A user has a token, has signed out, or is about to have the one or the other.
LEMMA SignedInKept ==
  ASSUME SInv, SignedInInv, Next
  PROVE  SignedInInv'
<1> DEFINE Settled(u) == TokensOf(u) \cap disk[Tokens] # {} \/ SignedOff(u) \cap disk[Revocations] # {}
<1> SUFFICES ASSUME {Tokens, Revocations} \subseteq Files \ excused', NEW u \in Items
             PROVE  Settled(u)' \/ \E g \in Helpers : Making(g, u)'
  BY DEF SignedInInv
<1>1. {Tokens, Revocations} \subseteq Files \ excused
  BY TokensExcused
<1>2. PICK h \in Helpers : (\E c \in Command : Start(h, c)) \/ Advances(h)
  BY EachStep
<1>3. Settled(u) \/ \E g \in Helpers : Making(g, u)
  BY <1>1 DEF SignedInInv
<1>4. CASE \E c \in Command : Start(h, c)
  <2>1. disk' = disk /\ ~Running(h)
        /\ \A g \in Helpers \ {h} : run'[g] = run[g] /\ (Running(g)' <=> Running(g)) /\ Prog(g)' = Prog(g)
    BY <1>4, Started
  <2>2. ASSUME NEW g \in Helpers, Making(g, u) PROVE Making(g, u)'
    BY <2>1, <2>2 DEF Making
  <2> QED
    BY <1>3, <2>1, <2>2
<1>5. CASE Advances(h)
  <2>1. CASE TokensOf(u) \cap disk[Tokens] # {}
    BY <1>5, <2>1, LastToken
  <2>2. CASE SignedOff(u) \cap disk[Revocations] # {}
    <3>1. disk[Revocations] \subseteq disk'[Revocations]
      <4>1. CASE disk'[Revocations] = disk[Revocations]
        BY <4>1
      <4>2. CASE disk'[Revocations] # disk[Revocations]
        BY <1>5, <4>2, TokensWritten
      <4> QED
        BY <4>1, <4>2
    <3> QED
      BY <2>2, <3>1
  <2>3. CASE \E g \in Helpers : Making(g, u)
    <3>1. PICK g \in Helpers : Making(g, u)
      BY <2>3
    <3>2. CASE g = h
      BY <1>5, <3>1, <3>2, MakingGoesOn
    <3>3. CASE g # h
      <4>1. Running(g)' /\ Prog(g)' = Prog(g) /\ run'[g].pc = run[g].pc /\ run'[g].wrote = run[g].wrote
        BY <1>5, <3>1, <3>3, Stays DEF Making, Advances
      <4>2. Making(g, u)'
        BY <3>1, <4>1 DEF Making
      <4> QED
        BY <4>2
    <3> QED
      BY <3>2, <3>3
  <2> QED
    BY <1>3, <2>1, <2>2, <2>3
<1> QED
  BY <1>2, <1>4, <1>5

\* Every user has one token in the beginning.
LEMMA FirstTokens ==
  ASSUME Init, Tokens \in Files
  PROVE  disk[Tokens] = {Token(x, x) : x \in Items}
<1> DEFINE f == Tokens
<1>1. disk[f] = Source(f)
  BY Unprocessed
<1>2. f[1] = "mobile-refresh-tokens.json"
  BY DEF Tokens, Sys
<1>3. /\ ~(f \in {Registry, Linked}) /\ ~(f = Passwd) /\ ~(f = UsersJson) /\ ~(f = ApiKeys)
      /\ ~(f = License) /\ ~(f = EnvFile) /\ ~(f = PushTokens) /\ ~(f = Docker) /\ ~(f = PlanStore)
      /\ ~(f = Servers) /\ ~(f = JournalFile) /\ ~(f[1] = "update job")
  BY DEF Tokens, Sys, Registry, Linked, Passwd, ApiKeys, License, EnvFile, PushTokens, Docker, PlanStore,
         Servers, UsersJson, JournalFile
<1>4. Source(f) = {Token(x, x) : x \in Items}
  <2> DEFINE val == {Token(x, x) : x \in Items}
  <2> HIDE DEF val
  <2>1. f = Tokens
    OBVIOUS
  <2> HIDE DEF f
  <2>2. Source(f) = val
    BY <1>3, <2>1, Zenon DEF Source, val
  <2> QED
    BY <2>2 DEF val
<1> QED
  BY <1>1, <1>4

\* When no request is at work, whoever has not signed out holds a token, whatever
\* overlaps and fails, as long as the two files are not left behind: who takes the
\* last one off the file comes to the step that writes another.
THEOREM UsersStaySignedIn == Spec => []StaysSignedIn
<1>1. Init => SInv /\ SignedInInv
  <2>1. ASSUME Init, Tokens \in Files, NEW u \in Items PROVE TokensOf(u) \cap disk[Tokens] # {}
    BY <2>1, FirstTokens DEF TokensOf
  <2> QED
    BY <2>1, InitInv DEF SignedInInv
<1>2. SInv /\ SignedInInv /\ [Next]_vars => SInv' /\ SignedInInv'
  <2>1. ASSUME SignedInInv, UNCHANGED vars PROVE SignedInInv'
    BY <2>1 DEF vars, SignedInInv, Making, Running, Prog
  <2> QED
    BY <2>1, NextKeeps, SignedInKept
<1>3. SignedInInv => StaysSignedIn
  BY DEF SignedInInv, StaysSignedIn, Whole, Making, Quiet
<1> QED
  BY <1>1, <1>2, <1>3, PTL DEF Spec

-----------------------------------------------------------------------------
(* A token is exchanged for one.                                           *)

\* A step that does not go well leads past its block.
LEMMA Skips ==
  ASSUME SInv, NEW h \in Helpers, Running(h), Undone(h), Running(h)'
  PROVE  Step(h).catch > 0 /\ run'[h].pc \in Nat /\ run'[h].pc >= run[h].pc + Step(h).catch
<1>1. ~Stop(h)
  BY DEF Stop, Running, SInv, RunInv
<1>2. GiveUp(h) /\ Step(h).catch > 0
  BY <1>1 DEF Undone, GiveUp
<1> DEFINE i == run[h].pc + Step(h).catch
           w == {}
           x == excused \cup (Ahead(h, run[h].pc) \ Certain[run[h].cmd][i])
<1>3. Continue(h, i, run[h].mem, w, x)
  BY <1>2 DEF GiveUp
<1>4. i \in Nat \ {0} /\ run[h].cmd \in Command
  <2>1. run[h].pc \in Nat \ {0} /\ Step(h).catch \in Nat /\ run[h].cmd \in Command
    BY AtStep
  <2> QED
    BY <2>1
<1>5. DOMAIN run[h] = DOMAIN Idle
  BY DEF SInv, RunInv, RunOK
<1>6. Len(Prog(h)) \in Nat
  BY OfProgram
<1> HIDE DEF i, x, w
<1>7. PICK j \in i..Len(Prog(h)) : run'[h].pc = j
  BY <1>3, <1>4, <1>5, GoesOn DEF Running
<1>8. run'[h].pc \in Nat /\ run'[h].pc >= i
  BY <1>4, <1>6, <1>7
<1> QED
  BY <1>2, <1>8 DEF i

\* Who goes on from a step that asks, and has not skipped what the step stands
\* before, found what it asked for, and has a copy of it if the next step wants one.
LEMMA AskedFor ==
  ASSUME SInv, NEW h \in Helpers, Advances(h), Step(h).op \in Reading, Running(h)',
         Step(h).catch = 0 \/ run'[h].pc < run[h].pc + Step(h).catch
  PROVE  /\ Proceed(h) /\ Passable(h) /\ Acceptable(h)
         /\ run'[h].pc \in 1..Len(Prog(h)) /\ Step(h).f \in Wanted[run[h].cmd][run'[h].pc] =>
              Step(h).f \in DOMAIN run'[h].mem /\ run'[h].mem[Step(h).f].val = Seen[Step(h).f]
<1> DEFINE f == Step(h).f
           k == run[h].pc
<1>1. Running(h) /\ k \in Nat \ {0} /\ Step(h).next \in Nat \ {0} /\ Step(h).catch \in Nat /\ run[h].cmd \in Command
  BY AtStep DEF Advances
<1>2. ~Undone(h)
  BY <1>1, Skips
<1>3. Proceed(h) /\ Passable(h)
  BY <1>2, Either
<1>4. Acceptable(h)
  BY <1>3 DEF Passable, Reading, WriteOps
<1>5. ReadFile(h)
  BY <1>3, <1>4 DEF Proceed, ResolveDomainUser, UnknownDomain, NotAcceptable, RenderFile, StripConflicts, OpenFile,
     WriteFile, ChangeInOnePiece, ReloadService, RunProgram, ExitNonzero, Reads, At, Reading
<1> DEFINE i == k + Step(h).next
           mem == Taken(run[h].mem, f, Copied(Seen[f], {f}, f \in torn))
           w == {}
<1>6. Continue(h, i, mem, w, excused)
  BY <1>5 DEF ReadFile, Onward
<1>7. i \in Nat \ {0} /\ DOMAIN run[h] = DOMAIN Idle
  BY <1>1 DEF SInv, RunInv, RunOK
<1>8. f \in DOMAIN mem /\ mem[f].val = Seen[f]
  BY DEF Taken, Copied
<1> HIDE DEF i, mem, w
<1>9. run'[h].mem = Remembered(h, run'[h].pc, mem)
  BY <1>1, <1>6, <1>7, GoesOn DEF Running
<1>10. ASSUME f \in Wanted[run[h].cmd][run'[h].pc]
       PROVE  f \in DOMAIN run'[h].mem /\ run'[h].mem[f].val = Seen[f]
  BY <1>8, <1>9, <1>10 DEF Remembered
<1> QED
  BY <1>3, <1>4, <1>10

\* Where the exchange goes: to the next of its four steps, or away.
LEMMA ExchangeGoesOn ==
  ASSUME SInv, NEW h \in Helpers, Advances(h), NEW l \in 1..Len(Prog(h)), NEW u,
         Exchanges(Prog(h), l, u), Running(h)', run'[h].pc \in l + 1..l + 3
  PROVE  \/ run'[h].pc = run[h].pc /\ Opens(h)
         \/ /\ run[h].pc = l /\ run'[h].pc = l + 1 /\ Acceptable(h)
            /\ Tokens \in DOMAIN run'[h].mem /\ run'[h].mem[Tokens].val = Seen[Tokens]
         \/ run[h].pc = l + 1 /\ run'[h].pc = l + 2 /\ WriteFile(h)
         \/ run[h].pc = l + 2 /\ run'[h].pc = l + 3
<1> DEFINE p == Prog(h)
           k == run[h].pc
           m == run'[h].pc
<1>1. /\ Running(h) /\ Moved(h) /\ k \in Nat \ {0} /\ Len(p) \in Nat /\ DOMAIN p = 1..Len(p) /\ run[h].cmd \in Command
      /\ Step(h).catch \in Nat /\ p = Program[run[h].cmd] /\ Step(h) = p[k]
  BY AtStep, OfProgram DEF Advances
<1>2. /\ l + 1 \in 1..Len(p) /\ l + 2 \in 1..Len(p) /\ OnlyThrough(p, l, l + 3) /\ Plain(p[l]) /\ l \in Nat /\ m \in Nat
  BY <1>1 DEF Exchanges
<1>3. CASE m = k
  <2>1. CASE Opens(h)
    BY <1>3, <2>1
  <2>2. CASE ~Opens(h)
    <3>1. PICK t, mem, n : Goes(h, t, mem) /\ Arrives(h, t, mem, n)
      BY <1>1, <2>2 DEF Moved, Running
    <3>2. n = m
      BY <3>1 DEF Arrives
    <3>3. k < t /\ t <= n /\ t \in Nat /\ n \in Nat
      BY <1>1, <3>1, Forward
    <3> QED
      BY <1>1, <1>3, <3>2, <3>3
  <2> QED
    BY <2>1, <2>2
<1>4. CASE m # k
  <2>1. k \in l..m - 1
    BY <1>1, <1>2, <1>4, ComesFrom
  <2>2. CASE k = l
    <3>1. /\ Step(h).op \in Reading /\ Step(h).f = Tokens /\ Step(h).next = 1 /\ Plain(p[l + 1])
          /\ Step(h).catch = 0 \/ Step(h).catch > 3
          /\ p[l + 1].op \in {"save", "swap"} /\ p[l + 1].f = Tokens
      BY <1>1, <2>2 DEF Exchanges, Plain
    <3>2. Step(h).catch = 0 \/ m < k + Step(h).catch
      BY <1>1, <1>2, <2>2, <3>1
    <3>3. Proceed(h) /\ Passable(h) /\ Acceptable(h)
      BY <3>1, <3>2, AskedFor
    <3>4. ~Opens(h)
      BY <3>1 DEF Opens, Reading
    <3>5. m = k + 1
      BY <1>1, <1>2, <2>2, <3>1, <3>3, <3>4, Continues DEF Plain
    <3>6. Tokens \in Wanted[run[h].cmd][m]
      BY <1>1, <1>2, <2>2, <3>1, <3>5, Wants
    <3>7. Tokens \in DOMAIN run'[h].mem /\ run'[h].mem[Tokens].val = Seen[Tokens]
      BY <1>2, <2>2, <3>1, <3>2, <3>5, <3>6, AskedFor
    <3> QED
      BY <2>2, <3>3, <3>5, <3>7
  <2>3. CASE k = l + 1
    <3>1. /\ Step(h).op = "save" /\ Step(h).op \in WriteOps /\ Step(h).next = 1 /\ Plain(p[l + 2])
          /\ Step(h).catch = 0 \/ Step(h).catch > 2
      BY <1>1, <2>3 DEF Exchanges, Edits, Plain, WriteOps
    <3>2. ASSUME Undone(h) PROVE FALSE
      <4>1. Step(h).catch > 0 /\ m >= k + Step(h).catch
        BY <1>1, <3>2, Skips
      <4>2. Step(h).catch > 2 /\ m <= l + 3
        BY <1>1, <1>2, <3>1, <4>1
      <4> HIDE DEF m
      <4> QED
        BY <1>1, <1>2, <2>3, <4>1, <4>2
    <3>3. Proceed(h) /\ Passable(h)
      BY <3>1, <3>2, Either
    <3>4. m = k + 1
      BY <1>1, <1>2, <1>4, <2>3, <3>1, <3>3, Continues DEF Plain
    <3>5. WriteFile(h)
      BY <1>1, <1>4, <3>1, <3>3, Saves
    <3> QED
      BY <1>2, <2>3, <3>4, <3>5
  <2>4. CASE k = l + 2
    BY <1>2, <2>1, <2>4
  <2> QED
    BY <1>1, <1>2, <2>1, <2>2, <2>3, <2>4
<1> QED
  BY <1>3, <1>4

\* A process keeps its program.
LEMMA SameProgram ==
  ASSUME NEW h \in Helpers, Moved(h), Running(h)'
  PROVE  Prog(h)' = Prog(h)
BY DEF Moved, Opens, Arrives, Running, Prog

\* A token of a user nobody signs in as is added at the end of an exchange only.
LEMMA TokenAdded ==
  ASSUME SInv, NEW h \in Helpers, Advances(h), Tokens \in Files \ excused', disk'[Tokens] # disk[Tokens],
         NEW u \in Exchanged
  PROVE  /\ disk'[Tokens] = (disk[Tokens] \ Step(h).del) \cup Step(h).add
         /\ \/ Step(h).add \cap TokensOf(u) = {}
            \/ \E l \in 1..Len(Prog(h)) :
                 run[h].pc = l + 3 /\ Exchanges(Prog(h), l, u) /\ \E t : Step(h).add = {t}
<1>1. /\ Running(h) /\ DOMAIN Prog(h) = 1..Len(Prog(h)) /\ run[h].cmd \in Command /\ run[h].pc \in 1..Len(Prog(h))
      /\ Prog(h) = Program[run[h].cmd] /\ Step(h) = Prog(h)[run[h].pc]
  BY OfProgram DEF Advances
<1>2. disk'[Tokens] = (disk[Tokens] \ Step(h).del) \cup Step(h).add
  BY TokensWritten
<1>3. Step(h).op \in WriteOps /\ Tokens \in FilesOf(Step(h))
  BY DEF Advances, Moved
<1>4. ASSUME Step(h).add \cap TokensOf(u) # {}
      PROVE  \E l \in 1..Len(Prog(h)) : run[h].pc = l + 3 /\ Exchanges(Prog(h), l, u) /\ \E t : Step(h).add = {t}
  <2>1. PICK l \in 1..Len(Prog(h)) : run[h].pc = l + 3 /\ Exchanges(Prog(h), l, u)
    BY <1>1, <1>3, <1>4 DEF Exchanged
  <2> QED
    BY <1>1, <2>1 DEF Exchanges
<1> QED
  BY <1>2, <1>4

\* Who is about to take the token of u has it in its copy.
LEMMA TakingKept ==
  ASSUME SInv, NEW h \in Helpers, Advances(h), NEW u, NEW g \in Helpers, Tokens \in Files, Taking(g, u)
  PROVE  Taking(g, u)'
<1> SUFFICES ASSUME Running(g)', NEW l \in 1..Len(Prog(g)'), Exchanges(Prog(g)', l, u), run'[g].pc = l + 1
             PROVE  Tokens \in DOMAIN run'[g].mem /\ Prog(g)'[l].need \subseteq run'[g].mem[Tokens].val
  BY DEF Taking
<1>1. CASE g = h
  <2>1. Prog(h)' = Prog(h)
    BY <1>1, SameProgram DEF Advances
  <2>2. /\ Running(h) /\ Len(Prog(h)) \in Nat /\ DOMAIN Prog(h) = 1..Len(Prog(h)) /\ l \in 1..Len(Prog(h)) /\ l \in Nat
        /\ Step(h) = Prog(h)[run[h].pc] /\ run[h].pc \in Nat
    BY <1>1, <2>1, OfProgram DEF Advances
  <2>3. \/ run'[h].pc = run[h].pc /\ Opens(h)
        \/ /\ run[h].pc = l /\ Acceptable(h)
           /\ Tokens \in DOMAIN run'[h].mem /\ run'[h].mem[Tokens].val = Seen[Tokens]
    <3>1. run'[h].pc \in l + 1..l + 3 /\ Exchanges(Prog(h), l, u)
      BY <1>1, <2>1, <2>2
    <3> QED
      BY <1>1, <2>2, <3>1, ExchangeGoesOn
  <2>4. CASE run'[h].pc = run[h].pc /\ Opens(h)
    BY <1>1, <2>1, <2>2, <2>4 DEF Taking, Opens
  <2>5. CASE run[h].pc = l /\ Acceptable(h) /\ run'[h].mem[Tokens].val = Seen[Tokens]
    <3>1. Step(h).f = Tokens
      BY <2>1, <2>2, <2>5, <1>1 DEF Exchanges
    <3> QED
      BY <1>1, <2>1, <2>2, <2>3, <2>5, <3>1 DEF Acceptable, Opens
  <2> QED
    BY <2>3, <2>4, <2>5
<1>2. CASE g # h
  <2>1. Running(g)
    BY <1>2, Stays DEF Advances
  <2>2. /\ Prog(g)' = Prog(g) /\ run'[g].pc = run[g].pc /\ DOMAIN run'[g].mem = DOMAIN run[g].mem
        /\ \A f \in DOMAIN run[g].mem : run'[g].mem[f].val = run[g].mem[f].val
    BY <1>2, <2>1, Stays DEF Advances
  <2> QED
    BY <2>1, <2>2 DEF Taking
<1> QED
  BY <1>1, <1>2

\* The step that takes a token of u off the file finds it there, and leaves none.
LEMMA TakesIt ==
  ASSUME SInv, TokenInv, NEW h \in Helpers, Running(h), WriteFile(h), Tokens \in Files, Tokens \notin excused \cup excused',
         NEW u \in Exchanged, NEW l \in 1..Len(Prog(h)), Exchanges(Prog(h), l, u), run[h].pc = l + 1
  PROVE  TokensOf(u) \cap disk[Tokens] # {} /\ TokensOf(u) \cap disk'[Tokens] = {}
<1>1. Step(h) = Prog(h)[l + 1]
  BY OfProgram
<1>2. /\ Step(h).op = "save" /\ Step(h).f = Tokens /\ WritesBack(Step(h)) /\ Step(h).add = {}
      /\ Prog(h)[l].need \cap Step(h).del \cap TokensOf(u) # {}
  BY <1>1 DEF Exchanges
<1>3. NewValue(h) = disk[Tokens] \ Step(h).del
  BY <1>2, Rewritten
<1>4. disk'[Tokens] = NewValue(h)
  BY <1>2 DEF WriteFile, SInv, DiskInv
<1>5. run[h].mem[Tokens].val = disk[Tokens]
  <2>1. Tokens \notin Recorded(h)
    BY DEF WriteFile, Onward, Continue
  <2>2. ~Kept(h, Step(h)).old
    BY <1>2, <2>1 DEF Recorded
  <2> QED
    BY <1>2, <2>2, HoldsCopy
<1>6. Prog(h)[l].need \subseteq disk[Tokens]
  BY <1>5 DEF TokenInv, Taking
<1>7. PICK y \in Prog(h)[l].need \cap Step(h).del \cap TokensOf(u) : TRUE
  BY <1>2
<1>8. \A t \in TokensOf(u) \cap disk[Tokens] : t = y
  BY <1>6, <1>7 DEF TokenInv
<1> QED
  BY <1>3, <1>4, <1>6, <1>7, <1>8

\* What a step makes of the tokens of u.
LEMMA TokensAfter ==
  ASSUME SInv, TokenInv, NEW h \in Helpers, Advances(h), Tokens \in Files, Tokens \notin excused \cup excused',
         NEW u \in Exchanged
  PROVE  \/ TokensOf(u) \cap disk'[Tokens] \subseteq disk[Tokens]
         \/ /\ Issuing(h, u) /\ ~Issuing(h, u)' /\ \E t : TokensOf(u) \cap disk'[Tokens] = {t}
<1> SUFFICES ASSUME ~(TokensOf(u) \cap disk'[Tokens] \subseteq disk[Tokens])
             PROVE  Issuing(h, u) /\ ~Issuing(h, u)' /\ \E t : TokensOf(u) \cap disk'[Tokens] = {t}
  OBVIOUS
<1>1. /\ disk'[Tokens] = (disk[Tokens] \ Step(h).del) \cup Step(h).add
      /\ \E l \in 1..Len(Prog(h)) :
           run[h].pc = l + 3 /\ Exchanges(Prog(h), l, u) /\ \E t : Step(h).add = {t}
  BY TokenAdded
<1>2. PICK l \in 1..Len(Prog(h)) : run[h].pc = l + 3 /\ Exchanges(Prog(h), l, u) /\ \E t : Step(h).add = {t}
  BY <1>1
<1>3. PICK t : Step(h).add = {t}
  BY <1>2
<1>4. Issuing(h, u)
  BY <1>2 DEF Issuing, Advances
<1>5. TokensOf(u) \cap disk[Tokens] = {}
  BY <1>4 DEF TokenInv
<1>6. TokensOf(u) \cap disk'[Tokens] = {t}
  BY <1>1, <1>3, <1>5
<1>7. ASSUME Issuing(h, u)' PROVE FALSE
  <2>1. Prog(h)' = Prog(h) /\ Running(h)'
    BY <1>7, SameProgram DEF Advances, Issuing
  <2>2. PICK k \in 1..Len(Prog(h)) : Exchanges(Prog(h), k, u) /\ run'[h].pc \in {k + 2, k + 3}
    BY <1>7, <2>1 DEF Issuing
  <2>3. Len(Prog(h)) \in Nat /\ k \in Nat /\ l \in Nat /\ Step(h) = Prog(h)[run[h].pc]
    BY OfProgram DEF Advances
  <2>4. run'[h].pc \in k + 1..k + 3
    BY <2>2, <2>3
  <2>5. Step(h).add # {} /\ Step(h).op = "save"
    BY <1>2, <1>3, <2>3 DEF Exchanges, Edits
  <2>6. ~(run[h].pc = k + 1) /\ ~(run[h].pc = k + 2)
    BY <2>2, <2>3, <2>5 DEF Exchanges, Edits
  <2>7. disk' # disk
    BY <1>5, <1>6
  <2> QED
    BY <2>1, <2>2, <2>3, <2>4, <2>6, <2>7, ExchangeGoesOn DEF Opens
<1> QED
  BY <1>4, <1>6, <1>7

\* Who comes to be about to write a token of u was so, or has just taken the one
\* there was.
LEMMA IssuingKept ==
  ASSUME SInv, TokenInv, NEW h \in Helpers, Advances(h), Tokens \in Files, Tokens \notin excused \cup excused',
         NEW u \in Exchanged, NEW g \in Helpers, Issuing(g, u)'
  PROVE  \/ Issuing(g, u)
         \/ g = h /\ TokensOf(u) \cap disk[Tokens] # {} /\ TokensOf(u) \cap disk'[Tokens] = {}
<1>1. CASE g # h
  BY <1>1, Stays DEF Issuing, Advances
<1>2. CASE g = h
  <2>1. Prog(h)' = Prog(h) /\ Running(h)' /\ Running(h)
    BY <1>2, SameProgram DEF Advances, Issuing
  <2>2. PICK l \in 1..Len(Prog(h)) : Exchanges(Prog(h), l, u) /\ run'[h].pc \in {l + 2, l + 3}
    BY <1>2, <2>1 DEF Issuing
  <2>3. Len(Prog(h)) \in Nat /\ l \in Nat /\ run[h].pc \in Nat
    BY <2>1, OfProgram
  <2>4. run'[h].pc \in l + 1..l + 3
    BY <2>2, <2>3
  <2>5. \/ run[h].pc \in {l + 2, l + 3}
        \/ run[h].pc = l + 1 /\ WriteFile(h)
    BY <2>1, <2>2, <2>3, <2>4, ExchangeGoesOn
  <2>6. CASE run[h].pc \in {l + 2, l + 3}
    BY <1>2, <2>1, <2>2, <2>6 DEF Issuing
  <2>7. CASE run[h].pc = l + 1 /\ WriteFile(h)
    BY <1>2, <2>1, <2>2, <2>7, TakesIt
  <2> QED
    BY <2>5, <2>6, <2>7
<1> QED
  BY <1>1, <1>2

\* There is one token of a user, none while it is being exchanged.
LEMMA TokensKept ==
  ASSUME SInv, TokenInv, Next
  PROVE  TokenInv'
<1> SUFFICES ASSUME Tokens \in Files, NEW u \in Exchanged
             PROVE  /\ \A g \in Helpers : Taking(g, u)'
                    /\ Tokens \notin excused' =>
                         /\ \A t, v \in TokensOf(u) \cap disk'[Tokens] : t = v
                         /\ \A g \in Helpers : Issuing(g, u)' =>
                              /\ TokensOf(u) \cap disk'[Tokens] = {}
                              /\ \A k \in Helpers \ {g} : ~Issuing(k, u)'
  BY DEF TokenInv
<1>1. PICK h \in Helpers : (\E c \in Command : Start(h, c)) \/ Advances(h)
  BY EachStep
<1>2. Tokens \notin excused' => Tokens \notin excused
  BY TokensExcused
<1>3. CASE \E c \in Command : Start(h, c)
  <2>1. disk' = disk /\ ~Running(h) /\ run'[h].pc = 1
        /\ \A g \in Helpers \ {h} : run'[g] = run[g] /\ (Running(g)' <=> Running(g)) /\ Prog(g)' = Prog(g)
    BY <1>3, Started
  <2>2. ASSUME NEW l \in 1..Len(Prog(h)') PROVE run'[h].pc \notin {l + 1, l + 2, l + 3}
    BY <2>1
  <2>3. Taking(h, u)' /\ ~Issuing(h, u)'
    BY <2>2 DEF Taking, Issuing
  <2>4. ASSUME NEW g \in Helpers \ {h} PROVE (Taking(g, u)' <=> Taking(g, u)) /\ (Issuing(g, u)' <=> Issuing(g, u))
    BY <2>1, <2>4 DEF Taking, Issuing
  <2> QED
    BY <1>2, <2>1, <2>3, <2>4 DEF TokenInv
<1>4. CASE Advances(h)
  <2>1. \A g \in Helpers : Taking(g, u)'
    BY <1>4, TakingKept DEF TokenInv
  <2> SUFFICES ASSUME Tokens \notin excused'
               PROVE  /\ \A t, v \in TokensOf(u) \cap disk'[Tokens] : t = v
                      /\ \A g \in Helpers : Issuing(g, u)' =>
                           TokensOf(u) \cap disk'[Tokens] = {} /\ \A k \in Helpers \ {g} : ~Issuing(k, u)'
    BY <2>1
  <2>2. Tokens \notin excused \cup excused'
    BY <1>2
  <2>3. /\ \A t, v \in TokensOf(u) \cap disk[Tokens] : t = v
        /\ \A g \in Helpers : Issuing(g, u) =>
             TokensOf(u) \cap disk[Tokens] = {} /\ \A k \in Helpers \ {g} : ~Issuing(k, u)
    BY <2>2 DEF TokenInv
  <2>4. \/ TokensOf(u) \cap disk'[Tokens] \subseteq disk[Tokens]
        \/ Issuing(h, u) /\ ~Issuing(h, u)' /\ \E t : TokensOf(u) \cap disk'[Tokens] = {t}
    BY <1>4, <2>2, TokensAfter
  <2>5. \A t, v \in TokensOf(u) \cap disk'[Tokens] : t = v
    BY <2>3, <2>4
  <2>6. ASSUME NEW g \in Helpers, Issuing(g, u)' PROVE TokensOf(u) \cap disk'[Tokens] = {}
    <3>1. Issuing(g, u) \/ TokensOf(u) \cap disk'[Tokens] = {}
      BY <1>4, <2>2, <2>6, IssuingKept
    <3>2. Issuing(g, u) => TokensOf(u) \cap disk[Tokens] = {} /\ (Issuing(h, u) => g = h)
      BY <2>3
    <3> QED
      BY <2>4, <2>6, <3>1, <3>2
  <2>7. ASSUME NEW g \in Helpers, Issuing(g, u)', NEW k \in Helpers \ {g}, Issuing(k, u)' PROVE FALSE
    <3>1. /\ Issuing(g, u) \/ (g = h /\ TokensOf(u) \cap disk[Tokens] # {})
          /\ Issuing(k, u) \/ (k = h /\ TokensOf(u) \cap disk[Tokens] # {})
      BY <1>4, <2>2, <2>7, IssuingKept
    <3> QED
      BY <2>3, <2>7, <3>1
  <2> QED
    BY <2>5, <2>6, <2>7
<1> QED
  BY <1>1, <1>3, <1>4

\* However many devices present a refresh token, and whatever overlaps and fails,
\* one new token comes for it, as long as the file of the tokens is not left behind:
\* who takes it was the only one to find it, and who writes the next, the only one
\* to have taken it.
THEOREM TokensAreExchangedOnce == Spec => []RefreshTokenOnce
<1>1. Init => SInv /\ TokenInv
  <2>1. ASSUME Init, Tokens \in Files, NEW u \in Items PROVE \A t \in TokensOf(u) \cap disk[Tokens] : t = Token(u, u)
    BY <2>1, FirstTokens DEF TokensOf, Token
  <2>2. ASSUME Init PROVE \A h \in Helpers : ~Running(h)
    BY <2>2 DEF Init, Running
  <2> QED
    BY <2>1, <2>2, InitInv DEF TokenInv, Taking, Issuing, Exchanged
<1>2. SInv /\ TokenInv /\ [Next]_vars => SInv' /\ TokenInv'
  <2>1. ASSUME TokenInv, UNCHANGED vars PROVE TokenInv'
    BY <2>1 DEF vars, TokenInv, Taking, Issuing, Running, Prog
  <2> QED
    BY <2>1, NextKeeps, TokensKept
<1>3. TokenInv => RefreshTokenOnce
  BY AtMostOne DEF TokenInv, RefreshTokenOnce, Whole
<1> QED
  BY <1>1, <1>2, <1>3, PTL DEF Spec

-----------------------------------------------------------------------------
(* The environment follows the license.                                    *)

\* Two files of the license.
LEMMA LicenseFiles == License # EnvFile
<1>1. License[1] = "license.json" /\ EnvFile[1] = ".env.local"
  BY DEF License, EnvFile, Sys
<1> QED
  BY <1>1

\* What the tables say of a step that changes the one or the other.
LEMMA LicenseTables ==
  ASSUME SInv, NEW h \in Helpers, Running(h), Step(h).op \in WriteOps
  PROVE  /\ License \in FilesOf(Step(h)) =>
              \/ Installs(Prog(h), run[h].pc)
              \/ Step(h).op = "save" /\ WritesBack(Step(h)) /\ KeysIn(Step(h).add \cup Step(h).del) = {}
         /\ EnvFile \in FilesOf(Step(h)) =>
              /\ Step(h).op = "save" /\ WritesBack(Step(h))
              /\ \/ FeaturesIn(Step(h).add \cup Step(h).del) = {}
                 \/ \E j \in 1..Len(Prog(h)) : run[h].pc = j + 2 /\ Installs(Prog(h), j)
                 \/ \E j \in 1..Len(Prog(h)) : Refreshes(Prog(h), j, run[h].pc)
<1>1. run[h].cmd \in Command /\ run[h].pc \in DOMAIN Prog(h) /\ DOMAIN Prog(h) = 1..Len(Prog(h))
  BY AtStep, ProgramFacts DEF Prog
<1> QED
  BY <1>1, LicenseAssumption DEF Prog, Step

\* The license and the environment, when they are excused, stay so.
LEMMA LicenseExcused ==
  ASSUME SInv, Next, NEW f \in {License, EnvFile}, f \in excused
  PROVE  f \in excused'
<1>1. f # Served
  <2>1. License[1] = "license.json" /\ EnvFile[1] = ".env.local" /\ Served[1] = "nginx"
    BY DEF License, EnvFile, Served, Sys
  <2> QED
    BY <2>1
<1>2. ASSUME NEW h \in Helpers, Running(h), Step(h).op \in {"save", "swap"}, Step(h).f = f
      PROVE  WritesBack(Step(h)) \/ Step(h).src = {}
  <2>1. Step(h).op \in WriteOps /\ f \in FilesOf(Step(h)) /\ Step(h) = Prog(h)[run[h].pc] /\ Step(h).op # "wipe"
    BY <1>2, OfProgram DEF WriteOps, FilesOf
  <2> QED
    BY <1>2, <2>1, LicenseTables DEF Installs
<1> QED
  BY <1>1, <1>2, StaysExcused

\* A license is put on file, or taken off: the keys are those of the step.
LEMMA Installed ==
  ASSUME SInv, NEW h \in Helpers, Running(h), Proceed(h), License \in Files,
         Installs(Prog(h), run[h].pc)
  PROVE  \/ run'[h].pc = run[h].pc /\ disk' = disk /\ Running(h)' /\ Prog(h)' = Prog(h)
         \/ /\ KeysIn(disk'[License]) = KeysIn(Step(h).add)
            /\ Running(h)' /\ Prog(h)' = Prog(h) /\ run'[h].pc = run[h].pc + 1 /\ run'[h].wrote
<1> DEFINE p == Prog(h)
           k == run[h].pc
           s == Step(h)
<1>1. /\ s.next = 1 /\ k + 1 \in 1..Len(p) /\ Plain(p[k + 1])
      /\ \/ s.op = "save" /\ s.f = License /\ s.src = {}
         \/ s.op = "wipe" /\ License \in s.src /\ s.add = {}
  <2>1. DOMAIN p = 1..Len(p)
    BY AtStep, ProgramFacts DEF Prog
  <2> QED
    BY <2>1 DEF Installs, Edits, Plain, Step
<1>2. Passable(h) /\ s.op \in WriteOps /\ FilesOf(s) # {}
  BY <1>1 DEF Passable, WriteOps, FilesOf
<1>3. Running(h)' /\ Prog(h)' = p /\ (run'[h].pc = k + 1 \/ (Opens(h) /\ run'[h].pc = k)) /\ run'[h].wrote
  BY <1>1, <1>2, Continues DEF Plain
<1>4. CASE Opens(h) /\ run'[h].pc = k
  BY <1>3, <1>4 DEF Opens
<1>5. CASE run'[h].pc = k + 1
  <2>1. k # k + 1
    BY AtStep
  <2>2. CASE s.op = "save" /\ s.f = License /\ s.src = {}
    <3>1. disk'[License] = NewValue(h)
      BY <1>5, <2>1, <2>2, Saves
    <3>2. NewValue(h) = s.add
      BY <2>2 DEF NewValue, Kept, None, Copied
    <3> QED
      BY <1>3, <1>5, <3>1, <3>2
  <2>3. CASE s.op = "wipe" /\ License \in s.src /\ s.add = {}
    <3>1. ChangeInOnePiece(h)
      BY <2>3 DEF Proceed, ResolveDomainUser, UnknownDomain, ReadFile, NotAcceptable, RenderFile, StripConflicts,
                  OpenFile, WriteFile, ReloadService, RunProgram, ExitNonzero, Reads, At
    <3>2. disk' = [f \in Files |-> IF f \in FilesOf(s) THEN After(h, f) ELSE disk[f]]
      BY <3>1 DEF ChangeInOnePiece
    <3>3. License \in FilesOf(s) /\ After(h, License) = {}
      BY <2>3 DEF FilesOf, After
    <3>4. disk'[License] = {}
      BY <3>2, <3>3
    <3> QED
      BY <1>3, <1>5, <2>3, <3>4
  <2> QED
    BY <1>1, <2>2, <2>3
<1> QED
  BY <1>3, <1>4, <1>5

\* The keys on file change when a license is installed or taken off, and then only.
LEMMA KeysChange ==
  ASSUME SInv, NEW h \in Helpers, Advances(h), License \in Files \ excused',
         KeysIn(disk'[License]) # KeysIn(disk[License])
  PROVE  Running(h) /\ Proceed(h) /\ Installs(Prog(h), run[h].pc)
<1>1. Running(h) /\ Step(h).op \in WriteOps /\ License \in FilesOf(Step(h))
  BY DEF Advances, Moved
<1>3. Proceed(h)
  BY <1>1, Either
<1>2. ASSUME Step(h).op = "save", WritesBack(Step(h)), KeysIn(Step(h).add \cup Step(h).del) = {}
      PROVE  FALSE
  <2>1. Step(h).f = License
    BY <1>1, <1>2 DEF FilesOf
  <2>2. WriteFile(h) /\ disk'[License] = NewValue(h)
    BY <1>1, <1>2, <1>3, <2>1, Saves DEF Opens
  <2>3. NewValue(h) = (disk[License] \ Step(h).del) \cup Step(h).add
    BY <1>1, <1>2, <2>1, <2>2, Rewritten
  <2>4. KeysIn(disk'[License]) = KeysIn(disk[License])
    BY <1>2, <2>2, <2>3 DEF KeysIn
  <2> QED
    BY <2>4
<1> QED
  BY <1>1, <1>2, <1>3, LicenseTables

\* The environment is written: what it held, without what is taken out and with
\* what is added.
LEMMA EnvWritten ==
  ASSUME SInv, NEW h \in Helpers, Advances(h), EnvFile \in Files \ excused',
         disk'[EnvFile] # disk[EnvFile]
  PROVE  /\ Step(h).op = "save" /\ Step(h).f = EnvFile
         /\ disk'[EnvFile] = (disk[EnvFile] \ Step(h).del) \cup Step(h).add
         /\ \/ FeaturesIn(Step(h).add \cup Step(h).del) = {}
            \/ \E j \in 1..Len(Prog(h)) : run[h].pc = j + 2 /\ Installs(Prog(h), j)
            \/ \E j \in 1..Len(Prog(h)) : Refreshes(Prog(h), j, run[h].pc)
<1>1. Running(h) /\ Step(h).op \in WriteOps /\ EnvFile \in FilesOf(Step(h))
  BY DEF Advances, Moved
<1>6. Proceed(h)
  BY <1>1, Either
<1>2. /\ Step(h).op = "save" /\ WritesBack(Step(h))
      /\ \/ FeaturesIn(Step(h).add \cup Step(h).del) = {}
         \/ \E j \in 1..Len(Prog(h)) : run[h].pc = j + 2 /\ Installs(Prog(h), j)
         \/ \E j \in 1..Len(Prog(h)) : Refreshes(Prog(h), j, run[h].pc)
  BY <1>1, LicenseTables
<1>3. Step(h).f = EnvFile
  BY <1>1, <1>2 DEF FilesOf
<1>4. WriteFile(h) /\ disk'[EnvFile] = NewValue(h)
  BY <1>1, <1>2, <1>3, <1>6, Saves DEF Opens
<1>5. NewValue(h) = (disk[EnvFile] \ Step(h).del) \cup Step(h).add
  BY <1>1, <1>2, <1>3, <1>4, Rewritten
<1> QED
  BY <1>2, <1>3, <1>4, <1>5

\* A process that stays at its step has opened its file.
LEMMA Standing ==
  ASSUME SInv, NEW h \in Helpers, Running(h), Moved(h), Running(h)', run'[h].pc = run[h].pc
  PROVE  Opens(h)
<1> SUFFICES ASSUME ~Opens(h) PROVE FALSE
  OBVIOUS
<1>1. PICK t, mem, n : Goes(h, t, mem) /\ Arrives(h, t, mem, n)
  BY DEF Moved, Running
<1>2. n = run'[h].pc
  BY <1>1 DEF Arrives
<1>3. run[h].pc < t /\ t <= n /\ t \in Nat /\ n \in Nat /\ run[h].pc \in Nat
  BY <1>1, Forward
<1> QED
  BY <1>2, <1>3

\* Who goes on although a step that writes f has failed comes to another that
\* writes it, if f is not excused.
LEMMA NotSkipped ==
  ASSUME SInv, NEW h \in Helpers, Running(h), Undone(h), Running(h)', NEW f, f \notin excused',
         Step(h).op \in WriteOps, f \in FilesOf(Step(h))
  PROVE  ~Abandons(Prog(h), run[h].pc, f)
<1> DEFINE k == run[h].pc
           i == k + Step(h).catch
<1>1. /\ k \in Nat \ {0} /\ k \in k..Len(Prog(h)) /\ Step(h) = Prog(h)[k]
      /\ run[h].cmd \in Command /\ Prog(h) = Program[run[h].cmd]
  BY OfProgram
<1>2. f \in Ahead(h, k)
  BY <1>1 DEF Ahead
<1>3. Step(h).catch > 0 /\ GiveUp(h)
  <2>1. ~Stop(h)
    BY DEF Stop, Running, SInv, RunInv
  <2> QED
    BY <2>1 DEF Undone, GiveUp
<1>4. Continue(h, i, run[h].mem, {}, excused \cup (Ahead(h, k) \ Certain[run[h].cmd][i]))
  BY <1>3 DEF GiveUp
<1>5. f \in Certain[run[h].cmd][i]
  BY <1>2, <1>4 DEF Continue
<1>6. ASSUME i \in 1..Len(Prog(h)) + 1 PROVE f \in Surely(Prog(h), i)
  BY <1>1, <1>5, <1>6 DEF Certain
<1>7. Step(h).catch \in Nat
  BY AtStep
<1> HIDE DEF k
<1> QED
  BY <1>1, <1>3, <1>6, <1>7 DEF Abandons, k

\* Who writes a file and goes on has written.
LEMMA WritingStays ==
  ASSUME SInv, NEW h \in Helpers, Running(h), Running(h)', WriteFile(h)
  PROVE  run'[h].wrote
<1> DEFINE mem == Taken(run[h].mem, Step(h).f, [Kept(h, Step(h)) EXCEPT !.val = NewValue(h)])
           i == run[h].pc + Step(h).next
           j == Landing(Prog(h), i, mem)
           next == [run[h] EXCEPT !.pc = j, !.mem = Remembered(h, j, mem), !.open = "no",
                                  !.wrote = @ \/ {Step(h).f} # {}]
<1>1. run'[h] = Idle \/ run'[h] = next
  BY DEF WriteFile, Onward, Continue
<1>2. DOMAIN run[h] = DOMAIN Idle
  BY DEF SInv, RunInv, RunOK
<1> HIDE DEF mem, j
<1>3. next.wrote
  BY <1>2 DEF Idle
<1> HIDE DEF next
<1> QED
  BY <1>1, <1>3 DEF Running

\* Who is about to bring the environment in line has put the license there.
LEMMA AligningCarried ==
  ASSUME SInv, LicenseInv, {License, EnvFile} \subseteq Files \ (excused \cup excused'), License \notin crossed,
         NEW h \in Helpers, Advances(h), NEW i \in 1..Len(Prog(h)), Aligning(h, i)'
  PROVE  run'[h].wrote /\ KeysIn(disk'[License]) = KeysIn(Prog(h)[i].add)
<1> DEFINE p == Prog(h)
           k == run[h].pc
           m == run'[h].pc
<1>1. Running(h)' /\ p' = p /\ Installs(p, i) /\ m \in {i + 1, i + 2}
  BY SameProgram DEF Aligning, Advances
<1>2. /\ Running(h) /\ Moved(h) /\ i \in Nat /\ k \in Nat /\ m \in Nat
      /\ DOMAIN p = 1..Len(p) /\ Len(p) \in Nat /\ Step(h) = p[k] /\ k \in 1..Len(p)
  BY <1>1, OfProgram DEF Advances
<1>3. k \in {i + 1, i + 2} => run[h].wrote /\ KeysIn(disk[License]) = KeysIn(p[i].add)
  BY <1>1, <1>2 DEF Aligning, LicenseInv
<1>4. k \in i..i + 2
  <2>1. OnlyThrough(p, i, i + 2) /\ Plain(p[i]) /\ m \in i + 1..i + 2 /\ i + 2 \in Nat
    BY <1>1, <1>2 DEF Installs
  <2>2. m # k => k \in i..m - 1
    BY <1>1, <1>2, <2>1, ComesFrom
  <2> QED
    BY <1>1, <1>2, <2>2
<1>5. CASE k = i
  <2>1. License \in FilesOf(p[k]) /\ p[k].op \in WriteOps /\ Abandons(p, k, License) /\ k \in k..Len(p)
    BY <1>1, <1>2, <1>5 DEF Installs, FilesOf, WriteOps
  <2>2. Proceed(h)
    BY <1>1, <1>2, <2>1, NotSkipped, Either
  <2>3. m # k
    BY <1>1, <1>2, <1>5
  <2> QED
    BY <1>1, <1>2, <1>5, <2>2, <2>3, Installed
<1>6. CASE k \in {i + 1, i + 2}
  <2>1. Step(h).op = "read" \/ (Step(h).op = "save" /\ Step(h).f = EnvFile)
    BY <1>1, <1>2, <1>6 DEF Installs, Edits
  <2>2. disk'[License] = disk[License]
    BY <1>2, <2>1, LicenseFiles DEF Moved, WriteOps, FilesOf
  <2>3. i + 1 \in Nat /\ i + 1 + 1 = i + 2 /\ Edits(p, i + 1, EnvFile)
    BY <1>1, <1>2 DEF Installs
  <2>4. run'[h].wrote \/ WriteFile(h)
    BY <1>1, <1>2, <1>3, <1>6, <2>3, EditGoesOn
  <2>5. run'[h].wrote
    BY <1>1, <1>2, <2>4, WritingStays
  <2> QED
    BY <1>3, <1>6, <2>2, <2>5
<1> QED
  BY <1>1, <1>2, <1>4, <1>5, <1>6

\* Who is about to refresh the features still knows the license.
LEMMA KnowingCarried ==
  ASSUME SInv, LicenseInv, {License, EnvFile} \subseteq Files \ (excused \cup excused'), License \notin crossed,
         NEW h \in Helpers, Advances(h), NEW i \in 1..Len(Prog(h)), Knowing(h, i)'
  PROVE  License \in DOMAIN run'[h].mem /\ run'[h].mem[License].val = disk'[License]
<1> DEFINE p == Prog(h)
           k == run[h].pc
           m == run'[h].pc
<1>1. Running(h)' /\ p' = p /\ Running(h) /\ Moved(h)
  BY SameProgram DEF Knowing, Advances
<1>2. PICK j \in 1..Len(p) : Refreshes(p, j, i) /\ m \in j + 1..i
  BY <1>1 DEF Knowing
<1>3. /\ i \in Nat /\ j \in Nat /\ k \in Nat \ {0} /\ m \in Nat /\ k \in 1..Len(p) /\ Len(p) \in Nat
      /\ run[h].cmd \in Command
  BY <1>1, <1>2, AtStep, ProgramFacts DEF Prog
<1>4. k \in j + 1..i => License \in DOMAIN run[h].mem /\ run[h].mem[License].val = disk[License]
  BY <1>1, <1>2 DEF Knowing, LicenseInv
<1>5. CASE m = k
  BY <1>1, <1>2, <1>4, <1>5, Standing DEF Opens
<1>6. CASE m # k
  <2>1. OnlyThrough(p, j, i) /\ Plain(p[j])
    BY <1>2 DEF Refreshes
  <2>2. k \in j..m - 1
    BY <1>1, <1>2, <1>3, <1>6, <2>1, ComesFrom
  <2>3. PICK t, mem, n : Goes(h, t, mem) /\ Arrives(h, t, mem, n)
    BY <1>1, <1>6 DEF Moved, Running, Opens
  <2>4. n = m /\ run'[h].mem = Remembered(h, m, mem)
    BY <2>3 DEF Arrives
  <2>5. License \in Wanted[run[h].cmd][m]
    <3>1. License \in AskedOf(p[i])
      BY <1>2 DEF Refreshes, AskedOf
    <3>2. m \in 1..Len(p) /\ i \in m..Len(p)
      BY <1>2, <1>3
    <3> QED
      BY <1>3, <3>1, <3>2, Wants DEF Prog
  <2>6. CASE k = j
    <3>1. Step(h).op = "save" /\ Step(h).f = License /\ (Step(h).catch = 0 \/ Step(h).catch > i - j)
      BY <1>2, <2>6 DEF Refreshes, Step
    <3>7. Proceed(h)
      <4>1. ASSUME Undone(h) PROVE FALSE
        <5>1. Step(h).catch > 0 /\ m >= k + Step(h).catch /\ Step(h).catch \in Nat
          BY <1>1, <4>1, Skips, AtStep
        <5>2. m <= i /\ Step(h).catch > i - j
          BY <1>2, <1>3, <3>1, <5>1
        <5> HIDE DEF m
        <5> QED
          BY <1>3, <2>6, <5>1, <5>2
      <4> QED
        BY <1>1, <3>1, <4>1, Either DEF WriteOps
    <3>2. WriteFile(h) /\ disk'[License] = NewValue(h)
      BY <1>1, <1>6, <3>1, <3>7, Saves
    <3> DEFINE c == [Kept(h, Step(h)) EXCEPT !.val = NewValue(h)]
               cp == Taken(run[h].mem, License, c)
    <3>3. c.val = disk'[License]
      <4>1. DOMAIN Kept(h, Step(h)) = DOMAIN None(Step(h).f)
        BY <1>1, NewFinite
      <4> QED
        BY <3>2, <4>1 DEF None, Copied
    <3>4. License \in DOMAIN cp /\ cp[License] = c
      BY DEF Taken
    <3>5. PICK w, x : Continue(h, k + Step(h).next, cp, w, x)
      BY <3>1, <3>2 DEF WriteFile, Onward
    <3> HIDE DEF c, cp
    <3>6. run'[h].mem = Remembered(h, m, cp)
      <4>1. DOMAIN run[h] = DOMAIN Idle
        BY DEF SInv, RunInv, RunOK
      <4>2. k + Step(h).next \in Nat \ {0}
        <5>1. Step(h).next \in Nat \ {0}
          BY <1>1, AtStep
        <5> QED
          BY <1>3, <5>1
      <4>3. run'[h] # Idle
        BY <1>1 DEF Running
      <4> QED
        BY <1>3, <3>5, <4>1, <4>2, <4>3, GoesOn
    <3> QED
      BY <2>5, <3>3, <3>4, <3>6 DEF Remembered
  <2>7. CASE k # j
    <3>1. k \in j + 1..i - 1 /\ k \in j + 1..i
      BY <1>2, <1>3, <2>2, <2>7
    <3>2. License \notin FilesOf(Step(h))
      BY <1>2, <3>1 DEF Refreshes, Step
    <3>3. Step(h).f # License \/ Step(h).op \notin Copying
      BY <3>2 DEF FilesOf, Copying, Reading
    <3>4. License \in DOMAIN mem /\ mem[License] = run[h].mem[License]
      BY <1>4, <2>3, <3>1, <3>3 DEF Goes
    <3>5. disk'[License] = disk[License]
      BY <1>1, <3>2 DEF Moved
    <3> QED
      BY <1>4, <2>4, <2>5, <3>1, <3>4, <3>5 DEF Remembered
  <2> QED
    BY <2>6, <2>7
<1> QED
  BY <1>5, <1>6

\* Who is about to bring the environment in line does so.
LEMMA AligningGoesOn ==
  ASSUME SInv, LicenseInv, {License, EnvFile} \subseteq Files \ (excused \cup excused'), License \notin crossed,
         NEW h \in Helpers, Advances(h), NEW i \in 1..Len(Prog(h)), Aligning(h, i)
  PROVE  \/ Aligning(h, i)' /\ Prog(h)' = Prog(h)
         \/ KeysIn(disk'[License]) = FeaturesIn(disk'[EnvFile])
<1> DEFINE p == Prog(h)
           k == run[h].pc
<1>1. /\ Installs(p, i) /\ k \in {i + 1, i + 2} /\ KeysIn(disk[License]) = KeysIn(p[i].add)
      /\ run[h].wrote /\ Running(h) /\ Moved(h)
  BY DEF LicenseInv, Aligning, Advances
<1>2. i \in Nat /\ i + 1 \in Nat /\ i + 1 + 1 = i + 2
  OBVIOUS
<1>3. Edits(p, i + 1, EnvFile)
  BY <1>1 DEF Installs
<1>4. ASSUME Running(h)', Prog(h)' = p, run'[h].pc = i + 2
      PROVE  Aligning(h, i)'
  BY <1>1, <1>4 DEF Aligning
<1>5. CASE k = i + 1
  BY <1>1, <1>2, <1>3, <1>4, <1>5, EditGoesOn
<1>6. CASE k = i + 2
  <2>1. CASE Running(h)' /\ Prog(h)' = p /\ run'[h].pc = i + 2
    BY <1>4, <2>1
  <2>2. CASE WriteFile(h) /\ disk'[EnvFile] = NewValue(h)
    <3>1. Step(h) = p[i + 2] /\ Step(h).op = "save" /\ Step(h).f = EnvFile /\ WritesBack(Step(h))
      BY <1>2, <1>3, <1>6 DEF Edits, Step
    <3>2. disk'[EnvFile] = (disk[EnvFile] \ Step(h).del) \cup Step(h).add
      BY <1>1, <2>2, <3>1, Rewritten
    <3>3. disk'[License] = disk[License]
      BY <1>1, <3>1, LicenseFiles DEF Moved, FilesOf
    <3>4. /\ FeaturesIn(Step(h).add) = KeysIn(p[i].add)
          /\ Items \subseteq FeaturesIn(Step(h).del) \cup KeysIn(p[i].add)
      BY <1>1, <3>1 DEF Installs
    <3>5. FeaturesIn(disk'[EnvFile]) = KeysIn(p[i].add)
      BY <3>2, <3>4 DEF FeaturesIn, KeysIn
    <3> QED
      BY <1>1, <3>3, <3>5
  <2> QED
    BY <1>1, <1>2, <1>3, <1>6, <2>1, <2>2, EditGoesOn
<1> QED
  BY <1>1, <1>5, <1>6

\* The environment is in line and stays so, or the license is changed by who is
\* about to bring it in line again.
LEMMA EnvKept ==
  ASSUME SInv, LicenseInv, {License, EnvFile} \subseteq Files \ (excused \cup excused'), License \notin crossed,
         NEW h \in Helpers, Advances(h),
         KeysIn(disk[License]) = FeaturesIn(disk[EnvFile])
  PROVE  \/ KeysIn(disk'[License]) = FeaturesIn(disk'[EnvFile])
         \/ \E i \in 1..Len(Prog(h)) : Aligning(h, i)' /\ Prog(h)' = Prog(h)
<1> DEFINE p == Prog(h)
           k == run[h].pc
<1>1. k \in 1..Len(p) /\ k \in Nat /\ Running(h)
  BY AtStep DEF Advances
<1>2. CASE KeysIn(disk'[License]) # KeysIn(disk[License])
  <2>1. PICK i \in 1..Len(p) : i = k
    BY <1>1
  <2>2. Installs(p, i) /\ Proceed(h)
    BY <1>2, <2>1, KeysChange
  <2>3. Running(h)' /\ Prog(h)' = p /\ run'[h].pc = i + 1
    BY <1>1, <1>2, <2>1, <2>2, Installed
  <2>4. Aligning(h, i)'
    BY <2>2, <2>3 DEF Aligning
  <2> QED
    BY <2>3, <2>4
<1>3. CASE KeysIn(disk'[License]) = KeysIn(disk[License]) /\ disk'[EnvFile] = disk[EnvFile]
  BY <1>3
<1>4. CASE KeysIn(disk'[License]) = KeysIn(disk[License]) /\ disk'[EnvFile] # disk[EnvFile]
  <2>1. /\ disk'[EnvFile] = (disk[EnvFile] \ Step(h).del) \cup Step(h).add
        /\ \/ FeaturesIn(Step(h).add \cup Step(h).del) = {}
           \/ \E j \in 1..Len(p) : k = j + 2 /\ Installs(p, j)
           \/ \E j \in 1..Len(p) : Refreshes(p, j, k)
    BY <1>4, EnvWritten
  <2>2. CASE FeaturesIn(Step(h).add \cup Step(h).del) = {}
    <3>1. FeaturesIn(disk'[EnvFile]) = FeaturesIn(disk[EnvFile])
      BY <2>1, <2>2 DEF FeaturesIn
    <3> QED
      BY <1>4, <3>1
  <2>3. CASE \E j \in 1..Len(p) : k = j + 2 /\ Installs(p, j)
    <3>1. PICK j \in 1..Len(p) : k = j + 2 /\ Installs(p, j)
      BY <2>3
    <3>2. Aligning(h, j)
      BY <1>1, <3>1 DEF Aligning
    <3> QED
      BY <3>2, AligningGoesOn
  <2>4. CASE \E j \in 1..Len(p) : Refreshes(p, j, k)
    <3>1. PICK j \in 1..Len(p) : Refreshes(p, j, k)
      BY <2>4
    <3>2. PICK x \in Items : FeaturesIn(Step(h).add) = {x} /\ <<License, KeyHint(x)>> \in Step(h).has
      BY <3>1 DEF Refreshes, Step
    <3>3. k \in j + 1..k
      BY <1>1, <3>1 DEF Refreshes
    <3>4. Knowing(h, k)
      BY <1>1, <3>1, <3>3 DEF Knowing
    <3>5. License \in DOMAIN run[h].mem /\ run[h].mem[License].val = disk[License]
      BY <1>1, <3>4 DEF LicenseInv
    <3>6. Performed(Step(h), run[h].mem)
      BY <1>1 DEF SInv, RunInv, RunOK
    <3>7. x \in KeysIn(disk[License])
      BY <3>2, <3>5, <3>6 DEF Performed, Holds, KeysIn
    <3>8. KeysIn(disk[License]) = {x}
      BY <3>7 DEF LicenseInv
    <3>9. FeaturesIn(disk'[EnvFile]) = {x}
      <4>1. x \in FeaturesIn(disk'[EnvFile])
        BY <2>1, <3>2 DEF FeaturesIn
      <4>2. ASSUME NEW y \in FeaturesIn(disk'[EnvFile]) PROVE y = x
        <5>1. y \in FeaturesIn(disk[EnvFile]) \/ y \in FeaturesIn(Step(h).add)
          BY <2>1, <4>2 DEF FeaturesIn
        <5> QED
          BY <3>2, <3>8, <5>1
      <4> QED
        BY <4>1, <4>2
    <3> QED
      BY <1>4, <3>8, <3>9
  <2> QED
    BY <2>1, <2>2, <2>3, <2>4
<1> QED
  BY <1>2, <1>3, <1>4

\* Nobody else is at the license of who installs or refreshes it.
LEMMA LicenseAlone ==
  ASSUME SInv, License \in Files \ crossed,
         NEW h \in Helpers, Running(h), Moved(h), NEW g \in Helpers, Running(g), g # h,
         NEW i \in 1..Len(Prog(g))
  PROVE  /\ Installs(Prog(g), i) => disk'[License] = disk[License]
         /\ \A j \in 1..Len(Prog(g)) : Refreshes(Prog(g), j, i) => disk'[License] = disk[License]
<1>1. DOMAIN Prog(g) = 1..Len(Prog(g))
  BY AtStep, ProgramFacts DEF Prog
<1>2. ASSUME License \in Uses(Prog(g)) PROVE disk'[License] = disk[License]
  <2> SUFFICES ASSUME disk'[License] # disk[License] PROVE FALSE
    OBVIOUS
  <2>1. Step(h).op \in WriteOps /\ License \in FilesOf(Step(h))
    BY DEF Moved
  <2> QED
    BY <1>2, <2>1, Sole
<1>3. ASSUME Installs(Prog(g), i) PROVE License \in Uses(Prog(g))
  <2>1. License \in FilesOf(Prog(g)[i])
    BY <1>3 DEF Installs, FilesOf
  <2> QED
    BY <1>1, <2>1, Used
<1>4. ASSUME NEW j \in 1..Len(Prog(g)), Refreshes(Prog(g), j, i) PROVE License \in Uses(Prog(g))
  <2>1. License \in FilesOf(Prog(g)[j])
    BY <1>4 DEF Refreshes, FilesOf
  <2> QED
    BY <1>1, <2>1, Used
<1> QED
  BY <1>2, <1>3, <1>4

\* The keys, the features and who is on the way, after a step of h.
LEMMA LicenseStepKept ==
  ASSUME SInv, LicenseInv, {License, EnvFile} \subseteq Files \ (excused \cup excused'), License \notin crossed,
         NEW h \in Helpers, Advances(h)
  PROVE  /\ \A x, y \in KeysIn(disk'[License]) : x = y
         /\ \/ KeysIn(disk'[License]) = FeaturesIn(disk'[EnvFile])
            \/ \E g \in Helpers : Running(g)' /\ \E i \in 1..Len(Prog(g)') : Aligning(g, i)'
         /\ \A g \in Helpers : Running(g)' =>
              \A i \in 1..Len(Prog(g)') :
                /\ Aligning(g, i)' => run'[g].wrote /\ KeysIn(disk'[License]) = KeysIn(Prog(g)'[i].add)
                /\ Knowing(g, i)' => License \in DOMAIN run'[g].mem /\ run'[g].mem[License].val = disk'[License]
<1>1. /\ \A x, y \in KeysIn(disk[License]) : x = y
      /\ \/ KeysIn(disk[License]) = FeaturesIn(disk[EnvFile])
         \/ \E g \in Helpers : Running(g) /\ \E i \in 1..Len(Prog(g)) : Aligning(g, i)
  BY DEF LicenseInv
<1>2. \A x, y \in KeysIn(disk'[License]) : x = y
  <2>1. CASE KeysIn(disk'[License]) = KeysIn(disk[License])
    BY <1>1, <2>1
  <2>2. CASE KeysIn(disk'[License]) # KeysIn(disk[License])
    <3>1. Running(h) /\ Proceed(h) /\ Installs(Prog(h), run[h].pc)
      BY <2>2, KeysChange
    <3>2. KeysIn(disk'[License]) = KeysIn(Step(h).add)
      BY <2>2, <3>1, Installed
    <3> QED
      BY <3>1, <3>2 DEF Installs, Step
  <2> QED
    BY <2>1, <2>2
<1>3. \/ KeysIn(disk'[License]) = FeaturesIn(disk'[EnvFile])
      \/ \E g \in Helpers : Running(g)' /\ \E i \in 1..Len(Prog(g)') : Aligning(g, i)'
  <2>1. CASE KeysIn(disk[License]) = FeaturesIn(disk[EnvFile])
    BY <2>1, EnvKept DEF Aligning
  <2>2. CASE \E g \in Helpers : Running(g) /\ \E i \in 1..Len(Prog(g)) : Aligning(g, i)
    <3>1. PICK g \in Helpers : Running(g) /\ \E i \in 1..Len(Prog(g)) : Aligning(g, i)
      BY <2>2
    <3>2. PICK i \in 1..Len(Prog(g)) : Aligning(g, i)
      BY <3>1
    <3>3. CASE g = h
      BY <3>2, <3>3, AligningGoesOn DEF Aligning
    <3>4. CASE g # h
      <4>1. Running(g)' /\ Prog(g)' = Prog(g) /\ run'[g].pc = run[g].pc
        BY <3>1, <3>4, Stays DEF Advances
      <4>2. Aligning(g, i)'
        BY <3>2, <4>1 DEF Aligning
      <4> QED
        BY <4>1, <4>2
    <3> QED
      BY <3>3, <3>4
  <2> QED
    BY <1>1, <2>1, <2>2
<1>4. ASSUME NEW g \in Helpers, Running(g)', NEW i \in 1..Len(Prog(g)')
      PROVE  /\ Aligning(g, i)' => run'[g].wrote /\ KeysIn(disk'[License]) = KeysIn(Prog(g)'[i].add)
             /\ Knowing(g, i)' => License \in DOMAIN run'[g].mem /\ run'[g].mem[License].val = disk'[License]
  <2>1. CASE g = h
    <3>1. Prog(h)' = Prog(h)
      BY <1>4, <2>1, SameProgram DEF Advances
    <3> QED
      BY <1>4, <2>1, <3>1, AligningCarried, KnowingCarried
  <2>2. CASE g # h
    <3>1. /\ Running(g) /\ Prog(g)' = Prog(g) /\ run'[g].pc = run[g].pc
          /\ DOMAIN run'[g].mem = DOMAIN run[g].mem /\ run'[g].wrote = run[g].wrote
          /\ \A f \in DOMAIN run[g].mem : run'[g].mem[f].val = run[g].mem[f].val
          /\ Running(h) /\ Moved(h)
      BY <1>4, <2>2, Stays DEF Advances
    <3>2. ASSUME Aligning(g, i)' PROVE run'[g].wrote /\ KeysIn(disk'[License]) = KeysIn(Prog(g)'[i].add)
      <4>1. Aligning(g, i)
        BY <3>1, <3>2 DEF Aligning
      <4>2. run[g].wrote /\ KeysIn(disk[License]) = KeysIn(Prog(g)[i].add)
        BY <1>4, <3>1, <4>1 DEF LicenseInv
      <4>3. disk'[License] = disk[License]
        BY <1>4, <2>2, <3>1, <4>1, LicenseAlone DEF Aligning
      <4> QED
        BY <3>1, <4>2, <4>3
    <3>3. ASSUME Knowing(g, i)'
          PROVE  License \in DOMAIN run'[g].mem /\ run'[g].mem[License].val = disk'[License]
      <4>1. PICK j \in 1..Len(Prog(g)) : Refreshes(Prog(g), j, i) /\ run[g].pc \in j + 1..i
        BY <3>1, <3>3 DEF Knowing
      <4>2. Knowing(g, i)
        BY <3>1, <4>1 DEF Knowing
      <4>3. License \in DOMAIN run[g].mem /\ run[g].mem[License].val = disk[License]
        BY <1>4, <3>1, <4>2 DEF LicenseInv
      <4>4. disk'[License] = disk[License]
        BY <1>4, <2>2, <3>1, <4>1, LicenseAlone
      <4> QED
        BY <3>1, <4>3, <4>4
    <3> QED
      BY <3>2, <3>3
  <2> QED
    BY <2>1, <2>2
<1> QED
  BY <1>2, <1>3, <1>4

\* The license and the environment after any step.
LEMMA LicenseKept ==
  ASSUME SInv, LicenseInv, Next
  PROVE  LicenseInv'
<1> SUFFICES ASSUME {License, EnvFile} \subseteq Files \ excused', License \notin crossed'
             PROVE  /\ \A x, y \in KeysIn(disk'[License]) : x = y
                    /\ \/ KeysIn(disk'[License]) = FeaturesIn(disk'[EnvFile])
                       \/ \E g \in Helpers : Running(g)' /\ \E i \in 1..Len(Prog(g)') : Aligning(g, i)'
                    /\ \A g \in Helpers : Running(g)' =>
                         \A i \in 1..Len(Prog(g)') :
                           /\ Aligning(g, i)' => run'[g].wrote /\ KeysIn(disk'[License]) = KeysIn(Prog(g)'[i].add)
                           /\ Knowing(g, i)' => License \in DOMAIN run'[g].mem /\ run'[g].mem[License].val = disk'[License]
  BY DEF LicenseInv
<1>1. {License, EnvFile} \subseteq Files \ (excused \cup excused') /\ License \notin crossed
  BY LicenseExcused, EachStep
<1>2. PICK h \in Helpers : (\E c \in Command : Start(h, c)) \/ Advances(h)
  BY EachStep
<1>3. CASE \E c \in Command : Start(h, c)
  <2>1. disk' = disk /\ ~Running(h) /\ run'[h].pc = 1
        /\ \A g \in Helpers \ {h} : run'[g] = run[g] /\ (Running(g)' <=> Running(g)) /\ Prog(g)' = Prog(g)
    BY <1>3, Started
  <2>2. \A g \in Helpers, i \in Nat : Aligning(g, i) => g # h /\ Aligning(g, i)'
    BY <2>1 DEF Aligning
  <2>3. \A g \in Helpers \ {h}, i \in Nat : (Aligning(g, i)' => Aligning(g, i)) /\ (Knowing(g, i)' => Knowing(g, i))
    BY <2>1 DEF Aligning, Knowing
  <2>4. \A i \in Nat \ {0} : ~Aligning(h, i)' /\ ~Knowing(h, i)'
    BY <2>1 DEF Aligning, Knowing
  <2>5. \/ KeysIn(disk'[License]) = FeaturesIn(disk'[EnvFile])
        \/ \E g \in Helpers : Running(g)' /\ \E i \in 1..Len(Prog(g)') : Aligning(g, i)'
    <3>1. CASE KeysIn(disk[License]) = FeaturesIn(disk[EnvFile])
      BY <2>1, <3>1
    <3>2. CASE \E g \in Helpers : Running(g) /\ \E i \in 1..Len(Prog(g)) : Aligning(g, i)
      <4>1. PICK g \in Helpers : Running(g) /\ \E i \in 1..Len(Prog(g)) : Aligning(g, i)
        BY <3>2
      <4>2. PICK i \in 1..Len(Prog(g)) : Aligning(g, i)
        BY <4>1
      <4>3. i \in Nat /\ g # h /\ Aligning(g, i)'
        BY <2>2, <4>2
      <4> QED
        BY <2>1, <4>1, <4>2, <4>3
    <3> QED
      BY <1>1, <3>1, <3>2 DEF LicenseInv
  <2>6. ASSUME NEW g \in Helpers, Running(g)', NEW i \in 1..Len(Prog(g)')
        PROVE  /\ Aligning(g, i)' => run'[g].wrote /\ KeysIn(disk'[License]) = KeysIn(Prog(g)'[i].add)
               /\ Knowing(g, i)' => License \in DOMAIN run'[g].mem /\ run'[g].mem[License].val = disk'[License]
    <3>1. CASE g = h
      <4>1. ~Aligning(h, i)' /\ ~Knowing(h, i)'
        BY <2>4, <2>6
      <4> QED
        BY <3>1, <4>1
    <3>2. CASE g # h
      <4>1. Running(g) /\ Prog(g)' = Prog(g) /\ run'[g] = run[g] /\ disk' = disk
        BY <2>1, <2>6, <3>2
      <4>2. (Aligning(g, i)' => Aligning(g, i)) /\ (Knowing(g, i)' => Knowing(g, i))
        BY <2>3, <2>6, <3>2
      <4>3. /\ Aligning(g, i) => run[g].wrote /\ KeysIn(disk[License]) = KeysIn(Prog(g)[i].add)
            /\ Knowing(g, i) => License \in DOMAIN run[g].mem /\ run[g].mem[License].val = disk[License]
        BY <1>1, <2>6, <4>1 DEF LicenseInv
      <4> QED
        BY <4>1, <4>2, <4>3
    <3> QED
      BY <3>1, <3>2
  <2>7. \A x, y \in KeysIn(disk'[License]) : x = y
    BY <1>1, <2>1 DEF LicenseInv
  <2> QED
    BY <2>5, <2>6, <2>7
<1>4. CASE Advances(h)
  BY <1>1, <1>4, LicenseStepKept
<1> QED
  BY <1>2, <1>3, <1>4

\* In the beginning the license on file, if there is one, is the one whose
\* features the environment has.
LEMMA LicenseBegins ==
  ASSUME Init, {License, EnvFile} \subseteq Files
  PROVE  KeysIn(disk[License]) = Items \cap Present /\ FeaturesIn(disk[EnvFile]) = Items \cap Present
<1>1. disk[License] = Source(License) /\ disk[EnvFile] = Source(EnvFile)
  BY Unprocessed
<1>2. License[1] = "license.json" /\ EnvFile[1] = ".env.local"
  BY DEF License, EnvFile, Sys
<1>3. Source(License) = {Stored, Active} \cup {KeyHint(x) : x \in Present}
  <2> DEFINE val == {Stored, Active} \cup {KeyHint(x) : x \in Present}
             f == License
  <2>1. /\ ~(f \in {Registry, Linked}) /\ ~(f = Passwd) /\ ~(f = UsersJson) /\ ~(f = Tokens) /\ ~(f = ApiKeys)
        /\ ~(f = EnvFile) /\ ~(f = PushTokens) /\ ~(f = Docker) /\ ~(f = PlanStore)
        /\ ~(f = Servers) /\ ~(f = JournalFile) /\ ~(f[1] = "update job")
    BY DEF License, Sys, Registry, Linked, Passwd, ApiKeys, EnvFile, PushTokens, Docker, PlanStore,
           Servers, UsersJson, JournalFile, Tokens
  <2> HIDE DEF val
  <2>2. f = License
    OBVIOUS
  <2> HIDE DEF f
  <2>3. Source(f) = val
    BY <2>1, <2>2, Zenon DEF Source, val
  <2> QED
    BY <2>2, <2>3 DEF val
<1>4. Source(EnvFile) = {<<"setting", Host>>} \cup {Features(x) : x \in Present}
  <2> DEFINE val == {<<"setting", Host>>} \cup {Features(x) : x \in Present}
             f == EnvFile
  <2>1. /\ ~(f \in {Registry, Linked}) /\ ~(f = Passwd) /\ ~(f = UsersJson) /\ ~(f = Tokens) /\ ~(f = ApiKeys)
        /\ ~(f = License) /\ ~(f = PushTokens) /\ ~(f = Docker) /\ ~(f = PlanStore)
        /\ ~(f = Servers) /\ ~(f = JournalFile) /\ ~(f[1] = "update job")
    BY DEF License, Sys, Registry, Linked, Passwd, ApiKeys, EnvFile, PushTokens, Docker, PlanStore,
           Servers, UsersJson, JournalFile, Tokens
  <2> HIDE DEF val
  <2>2. f = EnvFile
    OBVIOUS
  <2> HIDE DEF f
  <2>3. Source(f) = val
    BY <2>1, <2>2, Zenon DEF Source, val
  <2> QED
    BY <2>2, <2>3 DEF val
<1>5. \A x \in Items : KeyHint(x) \in {Stored, Active} \cup {KeyHint(y) : y \in Present} <=> x \in Present
  BY DEF KeyHint, Stored, Active
<1>6. \A x \in Items : Features(x) \in {<<"setting", Host>>} \cup {Features(y) : y \in Present} <=> x \in Present
  BY DEF Features
<1> QED
  BY <1>1, <1>3, <1>4, <1>5, <1>6 DEF KeysIn, FeaturesIn

\* When no request is at work the environment has the features of the license on
\* file, whatever failed, as long as no two requests were at the license and the two
\* files are not left behind: who changes the license comes to the step that writes
\* the environment, and who refreshes the environment knows the license.
THEOREM EnvironmentFollows == Spec => []EnvFollowsLicense
<1>1. Init => SInv /\ LicenseInv
  <2>1. ASSUME Init PROVE LicenseInv
    <3> SUFFICES ASSUME {License, EnvFile} \subseteq Files PROVE LicenseInv
      BY DEF LicenseInv
    <3>1. KeysIn(disk[License]) = Items \cap Present /\ FeaturesIn(disk[EnvFile]) = Items \cap Present
      BY <2>1, LicenseBegins
    <3>2. \A h \in Helpers : ~Running(h)
      BY <2>1 DEF Init, Running
    <3> QED
      BY <3>1, <3>2, LicenseAssumption DEF LicenseInv
  <2> QED
    BY <2>1, InitInv
<1>2. SInv /\ LicenseInv /\ [Next]_vars => SInv' /\ LicenseInv'
  <2>1. ASSUME LicenseInv, UNCHANGED vars PROVE LicenseInv'
    BY <2>1 DEF vars, LicenseInv, Aligning, Knowing, Running, Prog
  <2> QED
    BY <2>1, NextKeeps, LicenseKept
<1>3. LicenseInv => EnvFollowsLicense
  <2> SUFFICES ASSUME LicenseInv, Quiet, Whole(License), Whole(EnvFile), License \notin crossed, NEW x \in Items
               PROVE  Features(x) \in disk[EnvFile] <=> KeyHint(x) \in disk[License]
    BY DEF EnvFollowsLicense
  <2>1. KeysIn(disk[License]) = FeaturesIn(disk[EnvFile])
    BY DEF LicenseInv, Quiet, Whole
  <2> QED
    BY <2>1 DEF KeysIn, FeaturesIn
<1> QED
  BY <1>1, <1>2, <1>3, PTL DEF Spec

=============================================================================
