----------------------------- MODULE StepRunProofs -----------------------------
(***************************************************************************)
(* Helpers and requests at work, whatever their programs: every theorem    *)
(* here is about any table of programs that read what they write back      *)
(* (TablesAssumption), any number of processes, commands and failures.     *)
(***************************************************************************)
EXTENDS StepRunInv, FiniteSetTheorems, SequenceTheorems, TLAPS

-----------------------------------------------------------------------------
(* Programs and the files they name.                                       *)

\* A set of numbers has a least one.
LEMMA Least ==
  ASSUME NEW S \in SUBSET Nat, S # {}
  PROVE  \E m \in S : \A n \in S : m <= n
<1> DEFINE less == {ss \in Nat \X Nat : ss[1] < ss[2]}
<1>1. IsWellFoundedOn(less, Nat)
  BY NatLessThanWellFounded DEF OpToRel
<1>2. PICK m \in S : \A n \in S : <<n, m>> \notin less
  <2> HIDE DEF less
  <2> QED
    BY <1>1, WFMin
<1>3. ASSUME NEW n \in S PROVE m <= n
  <2>1. n \in Nat /\ m \in Nat /\ <<n, m>> \in Nat \X Nat
    OBVIOUS
  <2>2. ~(<<n, m>>[1] < <<n, m>>[2])
    BY <1>2, <2>1, Zenon
  <2> QED
    BY <2>1, <2>2
<1> QED
  BY <1>3

\* A program is a sequence of steps; every step goes on later.
LEMMA ProgramFacts ==
  ASSUME NEW c \in Command
  PROVE  /\ Len(Program[c]) \in Nat \ {0} /\ DOMAIN Program[c] = 1..Len(Program[c])
         /\ Program[c][1].has = {} /\ ReadsFirst(Program[c])
         /\ \A i \in 1..Len(Program[c]) :
              /\ Program[c][i].next \in Nat \ {0} /\ Program[c][i].catch \in Nat
              /\ IsFiniteSet(Program[c][i].src) /\ IsFiniteSet(Program[c][i].add)
<1> DEFINE p == Program[c]
           S == {p[i] : i \in DOMAIN p}
<1>1. WellFormed(p) /\ ReadsFirst(p)
  BY TablesAssumption
<1>2. p \in Seq(S) /\ p # <<>> /\ p[1].has = {}
  BY <1>1 DEF WellFormed
<1>3. Len(p) \in Nat /\ DOMAIN p = 1..Len(p) /\ Len(p) # 0
  <2> HIDE DEF S, p
  <2> QED
    BY <1>2, EmptySeq, SMT
<1> QED
  BY <1>1, <1>2, <1>3 DEF WellFormed

\* Where a process lands: the first step that is performed.
LEMMA Lands ==
  ASSUME NEW c \in Command, NEW i \in Nat \ {0}, NEW mem, NEW j, j = Landing(Program[c], i, mem)
  PROVE  /\ j \in Nat \ {0}
         /\ j <= Len(Program[c]) =>
              /\ j \in i..Len(Program[c]) /\ Performed(Program[c][j], mem)
              /\ \A k \in i..j - 1 : ~Performed(Program[c][k], mem)
<1> DEFINE p == Program[c]
           n == Len(p)
           later == {k \in i..n : Performed(p[k], mem)}
<1>1. n \in Nat \ {0}
  BY ProgramFacts
<1>2. CASE later = {}
  BY <1>1, <1>2 DEF Landing
<1>3. CASE later # {}
  <2>1. j = CHOOSE k \in later : \A l \in later : k <= l
    BY <1>3 DEF Landing
  <2>2. later \in SUBSET Nat
    BY <1>1
  <2>3. \E k \in later : \A l \in later : k <= l
    <3> HIDE DEF later
    <3> QED
      BY <1>3, <2>2, Least
  <2>4. j \in later /\ \A l \in later : j <= l
    <3> HIDE DEF later
    <3> QED
      BY <2>1, <2>3
  <2>5. ASSUME NEW k \in i..j - 1 PROVE ~Performed(p[k], mem)
    BY <1>1, <2>4
  <2> QED
    BY <1>1, <2>4, <2>5
<1> QED
  BY <1>2, <1>3

\* The files a step names are files of its program.
LEMMA StepFiles ==
  ASSUME NEW c \in Command, NEW i \in 1..Len(Program[c])
  PROVE  /\ FilesOf(Program[c][i]) \subseteq Uses(Program[c]) /\ Program[c][i].src \subseteq Uses(Program[c])
         /\ Program[c][i].op \in WriteOps => FilesOf(Program[c][i]) \subseteq Writes(Program[c])
         /\ Uses(Program[c]) \subseteq Files /\ Registry \in Files
BY ProgramFacts DEF Uses, Writes, Files

\* A copy that later steps look at is not forgotten.
LEMMA Wants ==
  ASSUME NEW c \in Command, NEW j \in 1..Len(Program[c]), NEW i \in j..Len(Program[c])
  PROVE  /\ AskedOf(Program[c][i]) \subseteq Wanted[c][j]
         /\ Program[c][i].op \in {"save", "swap"} => Program[c][i].f \in Wanted[c][j]
<1>1. Wanted[c][j] = UNION {Needs(Program[c][k]) : k \in j..Len(Program[c])}
  BY DEF Wanted
<1>2. Needs(Program[c][i]) \subseteq Wanted[c][j]
  BY <1>1
<1>3. AskedOf(Program[c][i]) \subseteq Needs(Program[c][i])
  BY DEF AskedOf, Needs
<1>4. Program[c][i].op \in {"save", "swap"} => Program[c][i].f \in Needs(Program[c][i])
  BY DEF Needs
<1> QED
  BY <1>2, <1>3, <1>4

\* What a step asks depends on the copies it asks of.
LEMMA SameAnswer ==
  ASSUME NEW s, NEW mem, NEW other,
         \A f \in AskedOf(s) : /\ f \in DOMAIN mem <=> f \in DOMAIN other
                               /\ f \in DOMAIN mem => mem[f].val = other[f].val
  PROVE  Performed(s, mem) <=> Performed(s, other)
<1>1. \A t \in s.has \cup s.lacks : Holds(mem, t) <=> Holds(other, t)
  BY DEF AskedOf, Holds
<1> QED
  BY <1>1 DEF Performed

-----------------------------------------------------------------------------
(* The processes of a step.                                                *)

\* What the others' steps leave of a process: its copies grow old, and its open
\* file may be crossed.
SameRun(q, r) ==
  /\ DOMAIN r = DOMAIN Idle /\ r.cmd = q.cmd /\ r.pc = q.pc /\ r.wrote = q.wrote /\ r.out = q.out
  /\ DOMAIN r.mem = DOMAIN q.mem
  /\ \A f \in DOMAIN q.mem :
       /\ r.mem[f].val = q.mem[f].val /\ r.mem[f].src = q.mem[f].src /\ DOMAIN r.mem[f] = DOMAIN None(f)

\* A process meets a writer.
LEMMA Ages ==
  ASSUME NEW g, NEW w, NEW r, r \in {run[g], Outdated(g, w), Aged(g, w)},
         DOMAIN run[g] = DOMAIN Idle,
         \A f \in DOMAIN run[g].mem : DOMAIN run[g].mem[f] = DOMAIN None(f)
  PROVE  /\ SameRun(run[g], r)
         /\ r.open # run[g].open => (r.open = "crossed" /\ run[g].open # "no" /\ Step(g).f \in w)
         /\ run[g] = Idle => r = Idle
<1> DEFINE old(t) == run[g].mem[t].old \/ run[g].mem[t].src \cap w # {}
           mem == [t \in DOMAIN run[g].mem |-> [run[g].mem[t] EXCEPT !.old = old(t)]]
           out == [run[g] EXCEPT !.mem = mem]
           opn == IF run[g].open # "no" /\ Step(g).f \in w THEN "crossed" ELSE run[g].open
<1>1. Outdated(g, w) = out /\ Aged(g, w) = [out EXCEPT !.open = opn]
  BY DEF Outdated, Aged
<1>2. DOMAIN mem = DOMAIN run[g].mem
  OBVIOUS
<1>3. ASSUME NEW f \in DOMAIN run[g].mem
      PROVE  /\ mem[f].val = run[g].mem[f].val /\ mem[f].src = run[g].mem[f].src
             /\ DOMAIN mem[f] = DOMAIN None(f) /\ mem[f].old = old(f)
  BY DEF None, Copied
<1>4. run[g] = Idle => mem = <<>>
  BY DEF Idle
<1> HIDE DEF mem
<1>5. /\ DOMAIN out = DOMAIN Idle /\ out.cmd = run[g].cmd /\ out.pc = run[g].pc /\ out.mem = mem
      /\ out.open = run[g].open /\ out.wrote = run[g].wrote /\ out.out = run[g].out
  BY DEF Idle
<1>9. ASSUME run[g] = Idle PROVE out = Idle
  <2>1. out = [run[g] EXCEPT !.mem = <<>>]
    BY <1>4, <1>9
  <2>2. [Idle EXCEPT !.mem = <<>>] = Idle
    BY DEF Idle
  <2> QED
    BY <1>9, <2>1, <2>2
<1> HIDE DEF out, opn
<1>6. /\ DOMAIN [out EXCEPT !.open = opn] = DOMAIN Idle
      /\ [out EXCEPT !.open = opn].cmd = out.cmd
      /\ [out EXCEPT !.open = opn].pc = out.pc
      /\ [out EXCEPT !.open = opn].mem = out.mem
      /\ [out EXCEPT !.open = opn].open = opn
      /\ [out EXCEPT !.open = opn].wrote = out.wrote
      /\ [out EXCEPT !.open = opn].out = out.out
  BY <1>5 DEF Idle
<1>10. opn = "no" /\ out = Idle => [out EXCEPT !.open = opn] = Idle
  BY DEF Idle
<1>7. opn # run[g].open => (opn = "crossed" /\ run[g].open # "no" /\ Step(g).f \in w)
  BY DEF opn
<1>8. run[g] = Idle => opn = "no"
  BY DEF opn, Idle
<1>11. CASE r = run[g]
  BY <1>11 DEF SameRun
<1>12. CASE r = out
  BY <1>2, <1>3, <1>5, <1>9, <1>12 DEF SameRun
<1>13. CASE r = [out EXCEPT !.open = opn]
  <2>1. /\ r.mem = mem /\ r.open = opn /\ r.cmd = run[g].cmd /\ r.pc = run[g].pc
        /\ r.wrote = run[g].wrote /\ r.out = run[g].out /\ DOMAIN r = DOMAIN Idle
    BY <1>5, <1>6, <1>13
  <2>2. run[g] = Idle => r = Idle
    BY <1>8, <1>9, <1>10, <1>13
  <2> QED
    BY <1>2, <1>3, <1>7, <2>1, <2>2 DEF SameRun
<1> QED
  BY <1>1, <1>11, <1>12, <1>13

\* A copy of a process that meets a writer is old once what it came from is written.
LEMMA Older ==
  ASSUME NEW g, NEW w, NEW r, r \in {Outdated(g, w), Aged(g, w)}, DOMAIN run[g] = DOMAIN Idle,
         \A f \in DOMAIN run[g].mem : DOMAIN run[g].mem[f] = DOMAIN None(f), NEW f \in DOMAIN run[g].mem
  PROVE  r.mem[f].old <=> (run[g].mem[f].old \/ run[g].mem[f].src \cap w # {})
<1> DEFINE old(t) == run[g].mem[t].old \/ run[g].mem[t].src \cap w # {}
           mem == [t \in DOMAIN run[g].mem |-> [run[g].mem[t] EXCEPT !.old = old(t)]]
           out == [run[g] EXCEPT !.mem = mem]
           opn == IF run[g].open # "no" /\ Step(g).f \in w THEN "crossed" ELSE run[g].open
<1>1. Outdated(g, w) = out /\ Aged(g, w) = [out EXCEPT !.open = opn]
  BY DEF Outdated, Aged
<1>2. mem[f].old <=> old(f)
  BY DEF None, Copied
<1> HIDE DEF mem, old
<1>3. out.mem = mem /\ DOMAIN out = DOMAIN Idle
  BY DEF Idle
<1> HIDE DEF out, opn
<1>4. [out EXCEPT !.open = opn].mem = mem
  BY <1>3 DEF Idle
<1>5. r.mem = mem
  BY <1>1, <1>3, <1>4
<1> QED
  BY <1>2, <1>5 DEF old

\* A process is told of a write to w, or there is none.
Told(g, w) == run'[g] \in {Outdated(g, w), Aged(g, w)} \/ (w = {} /\ run'[g] = run[g])

\* What a process has heard of a write, its copies know.
LEMMA Hears ==
  ASSUME NEW g, NEW w, Told(g, w), DOMAIN run[g] = DOMAIN Idle,
         \A f \in DOMAIN run[g].mem : DOMAIN run[g].mem[f] = DOMAIN None(f)
  PROVE  /\ SameRun(run[g], run'[g])
         /\ run'[g].open # run[g].open => (run'[g].open = "crossed" /\ run[g].open # "no" /\ Step(g).f \in w)
         /\ run[g] = Idle => run'[g] = Idle
         /\ \A f \in DOMAIN run[g].mem : ~run'[g].mem[f].old => ~run[g].mem[f].old /\ run[g].mem[f].src \cap w = {}
<1>1. run'[g] \in {run[g], Outdated(g, w), Aged(g, w)}
  BY DEF Told
<1>3. /\ SameRun(run[g], run'[g])
      /\ run'[g].open # run[g].open => (run'[g].open = "crossed" /\ run[g].open # "no" /\ Step(g).f \in w)
      /\ run[g] = Idle => run'[g] = Idle
  BY <1>1, Ages
<1>2. \A f \in DOMAIN run[g].mem : ~run'[g].mem[f].old => ~run[g].mem[f].old /\ run[g].mem[f].src \cap w = {}
  BY Older DEF Told
<1> QED
  BY <1>2, <1>3

\* Where the process itself goes on.
LEMMA GoesOn ==
  ASSUME NEW h \in Helpers, NEW i \in Nat \ {0}, NEW mem, NEW w, NEW x,
         DOMAIN run[h] = DOMAIN Idle, run[h].cmd \in Command, Continue(h, i, mem, w, x)
  PROVE  \/ run'[h] = Idle
         \/ \E j \in i..Len(Prog(h)) :
              /\ Performed(Prog(h)[j], mem) /\ \A k \in i..j - 1 : ~Performed(Prog(h)[k], mem)
              /\ DOMAIN run'[h] = DOMAIN Idle /\ run'[h].cmd = run[h].cmd /\ run'[h].pc = j
              /\ run'[h].mem = Remembered(h, j, mem) /\ run'[h].open = "no" /\ run'[h].out = run[h].out
<1> DEFINE p == Prog(h)
           j == Landing(p, i, mem)
           next == [run[h] EXCEPT !.pc = j, !.mem = Remembered(h, j, mem), !.open = "no",
                                  !.wrote = @ \/ w # {}]
<1>1. run'[h] = IF j > Len(p) THEN Idle ELSE next
  BY DEF Continue
<1>2. Len(p) \in Nat \ {0}
  BY ProgramFacts DEF Prog
<1>3. /\ j \in Nat \ {0}
      /\ j <= Len(p) => /\ j \in i..Len(p) /\ Performed(p[j], mem)
                        /\ \A k \in i..j - 1 : ~Performed(p[k], mem)
  BY Lands DEF Prog
<1>4. /\ DOMAIN next = DOMAIN Idle /\ next.cmd = run[h].cmd /\ next.pc = j
      /\ next.mem = Remembered(h, j, mem) /\ next.open = "no" /\ next.out = run[h].out
  <2> HIDE DEF j, p
  <2> QED
    BY DEF Idle
<1> HIDE DEF next, j, p
<1>5. CASE j > Len(p)
  BY <1>1, <1>5
<1>6. CASE ~(j > Len(p))
  <2>1. j <= Len(p)
    BY <1>2, <1>3, <1>6
  <2>2. run'[h] = next
    BY <1>1, <1>6
  <2> QED
    BY <1>3, <1>4, <2>1, <2>2 DEF p
<1> QED
  BY <1>5, <1>6

\* What the process excuses are files.
LEMMA ExcusesFiles ==
  ASSUME NEW h \in Helpers, NEW i, NEW mem, NEW w, NEW x \in SUBSET Files, Continue(h, i, mem, w, x)
  PROVE  excused' \subseteq Files
BY DEF Continue

\* The files ahead are files.
LEMMA AheadFiles ==
  ASSUME NEW h \in Helpers, NEW i \in Nat \ {0}, run[h].cmd \in Command
  PROVE  Ahead(h, i) \subseteq Files
<1>1. ASSUME NEW j \in i..Len(Prog(h)) PROVE FilesOf(Prog(h)[j]) \subseteq Files
  <2>1. j \in 1..Len(Program[run[h].cmd])
    BY ProgramFacts DEF Prog
  <2> QED
    BY <2>1, StepFiles DEF Prog
<1> QED
  BY <1>1 DEF Ahead

\* What is in doubt of a copy after a step.
Later(s) == IF s.op = "read" THEN trouble' ELSE 0

\* What every step of h does to the files and counters: only files it writes
\* change.
OwnFiles(h) ==
  /\ DOMAIN disk' = Files /\ \A f \in Files : IsFiniteSet(disk'[f])
  /\ torn' \subseteq Files /\ excused' \subseteq Files /\ crossed' = crossed
  /\ started' = started /\ trouble' \in 0..MaxTrouble /\ (trouble' = 0 => trouble = 0)
  /\ \A f \in Files : disk'[f] # disk[f] => Step(h).op \in WriteOps /\ f \in FilesOf(Step(h))

\* Files outside w are as they were.
OnlyIn(w) == \A f \in Files \ w : disk'[f] = disk[f]

\* What a step of h leaves of another process: it is where it was, and as far
\* as its files are not crossed its copies are what they were.
LEMMA OthersStay ==
  ASSUME SInv, NEW h \in Helpers, Running(h), NEW g \in Helpers, g # h, OwnFiles(h), NEW w,
         w \subseteq FilesOf(Step(h)), w # {} => Step(h).op \in WriteOps, OnlyIn(w), Told(g, w)
  PROVE  /\ RunOK(g)' /\ (Running(g)' => CopiesOfFiles(run'[g].mem)) /\ OpenOK(g)' /\ (Running(g)' => CopyOK(g)')
         /\ Running(g)' => Running(g) /\ run'[g].cmd = run[g].cmd
         /\ Running(g) /\ run[g].open # "no" =>
              Running(g)' /\ run'[g].open # "no" /\ Step(g)' = Step(g)
<1>1. CASE ~Running(g)
  <2>1. run'[g] = Idle
    <3>1. DOMAIN run[g] = DOMAIN Idle
      BY DEF SInv, RunInv, RunOK
    <3>2. \A f \in DOMAIN run[g].mem : DOMAIN run[g].mem[f] = DOMAIN None(f)
      BY <1>1 DEF Running, Idle
    <3> QED
      BY <1>1, <3>1, <3>2, Hears DEF Running
  <2> QED
    BY <1>1, <2>1 DEF RunOK, Running, OpenOK
<1>2. CASE Running(g)
  <2> DEFINE p == Prog(g)
             k == run[g].pc
  <2>1. /\ DOMAIN run[g] = DOMAIN Idle /\ run[g].cmd \in Command /\ k \in 1..Len(p)
        /\ Performed(Step(g), run[g].mem) /\ run[g].open \in {"no", "mine", "crossed"}
        /\ run[g].open # "no" => Step(g).op = "save"
    BY <1>2 DEF SInv, RunInv, RunOK
  <2>2. CopiesOfFiles(run[g].mem) /\ OpenOK(g) /\ CopyOK(g)
    BY <1>2 DEF SInv, MemInv, OpenInv, CopyInv
  <2>3. /\ SameRun(run[g], run'[g])
        /\ run'[g].open # run[g].open => (run'[g].open = "crossed" /\ run[g].open # "no" /\ Step(g).f \in w)
        /\ \A f \in DOMAIN run[g].mem : ~run'[g].mem[f].old => ~run[g].mem[f].old /\ run[g].mem[f].src \cap w = {}
    BY <2>1, <2>2, Hears DEF CopiesOfFiles
  <2>4. DOMAIN run'[g] = DOMAIN Idle /\ run'[g].cmd = run[g].cmd /\ run'[g].pc = k
    BY <2>3 DEF SameRun
  <2>5. Len(p) \in Nat /\ k # 0
    BY <2>1, ProgramFacts DEF Prog
  <2>6. run'[g] # Idle
    BY <2>4, <2>5 DEF Idle
  <2>7. Prog(g)' = p /\ Step(g)' = Step(g)
    BY <2>4 DEF Prog, Step
  <2>8. ASSUME NEW s PROVE Performed(s, run'[g].mem) <=> Performed(s, run[g].mem)
    BY <2>3, SameAnswer DEF SameRun
  <2>9. CopiesOfFiles(run'[g].mem)
    BY <2>2, <2>3 DEF SameRun, CopiesOfFiles
  <2>10. Uses(p) \cap FilesOf(Step(h)) \subseteq crossed \/ Step(h).op \notin WriteOps
    <3>1. run[h].cmd \in Command /\ run[h].pc \in 1..Len(Prog(h))
      BY DEF SInv, RunInv, RunOK
    <3>2. Step(h).op \in WriteOps => FilesOf(Step(h)) \subseteq Writes(Prog(h))
      BY <3>1, StepFiles DEF Prog, Step
    <3>3. Uses(p) \cap Writes(Prog(h)) \subseteq crossed
      BY <1>2 DEF SInv, CrossedInv
    <3> QED
      BY <3>2, <3>3
  <2>11. RunOK(g)'
    <3>1. run'[g].open \in {"no", "mine", "crossed"} /\ (run'[g].open # "no" => Step(g).op = "save")
      BY <2>1, <2>3
    <3> QED
      BY <2>1, <2>4, <2>7, <2>8, <3>1 DEF RunOK, Running
  <2>12. OpenOK(g)'
    <3>1. ASSUME run'[g].open = "crossed" PROVE Step(g).f \in crossed
      <4>1. CASE run[g].open = "crossed"
        BY <1>2, <2>2, <4>1 DEF OpenOK
      <4>2. CASE run[g].open # "crossed"
        <5>1. Step(g).f \in w /\ run[g].open # "no"
          BY <2>3, <3>1, <4>2
        <5>2. Step(g).f \in Uses(p)
          <6>1. FilesOf(Step(g)) \subseteq Uses(p)
            BY <2>1, StepFiles DEF Prog, Step
          <6>2. FilesOf(Step(g)) = {Step(g).f}
            BY <2>1, <5>1 DEF FilesOf
          <6> QED
            BY <6>1, <6>2
        <5> QED
          BY <2>10, <5>1, <5>2
      <4> QED
        BY <4>1, <4>2
    <3>2. crossed' = crossed
      BY DEF OwnFiles
    <3> QED
      BY <2>7, <3>1, <3>2 DEF OpenOK
  <2>13. CopyOK(g)'
    <3> SUFFICES ASSUME NEW i \in 1..Len(p), NEW j \in 1..Len(p), Pair(p, j, i), j < k, k <= i,
                        Performed(p[j], run[g].mem)
                 PROVE  CopyOf(run'[g].mem, p[i].f, disk'[p[i].f], Later(p[j]))
      <4>1. crossed' = crossed
        BY DEF OwnFiles
      <4> QED
        BY <2>4, <2>7, <2>8, <4>1 DEF CopyOK, CopyOf, Doubt, Later
    <3> DEFINE f == p[i].f
    <3>1. CopyOf(run[g].mem, f, disk[f], Doubt(p[j]))
      BY <2>2 DEF CopyOK
    <3>2. f \in Uses(p) /\ f \in Files
      <4>1. FilesOf(p[i]) = {f}
        BY DEF Pair, WritesBack, FilesOf
      <4> QED
        BY <2>1, <4>1, StepFiles DEF Prog
    <3>4. f \notin crossed => disk'[f] = disk[f]
      BY <2>10, <3>2 DEF OwnFiles
    <3>5. ~run'[g].mem[f].old => ~run[g].mem[f].old /\ disk'[f] = disk[f]
      BY <2>3, <3>1, <3>2 DEF CopyOf, OnlyIn
    <3>3. Later(p[j]) = 0 => Doubt(p[j]) = 0
      BY DEF OwnFiles, Later, Doubt
    <3> QED
      BY <2>3, <3>1, <3>3, <3>4, <3>5 DEF CopyOf, SameRun
  <2> QED
    BY <1>2, <2>4, <2>3, <2>6, <2>7, <2>9, <2>11, <2>12, <2>13 DEF Running
<1> QED
  BY <1>1, <1>2

\* A step of h takes the copies from run[h].mem to mem and goes on at t: only
\* the copy of its own file changes, and a copy that is the file stays so.
CopiesKept(h, t, mem) ==
  /\ \A f : (f # Step(h).f \/ Step(h).op \notin Copying) =>
       /\ f \in DOMAIN mem <=> f \in DOMAIN run[h].mem
       /\ f \in DOMAIN run[h].mem => mem[f] = run[h].mem[f]
  /\ Step(h).op \in Reading =>
       \/ CopyOf(mem, Step(h).f, disk'[Step(h).f], Later(Step(h)))
       \/ /\ t = run[h].pc + Step(h).catch /\ Step(h).catch > 0
          /\ ~(Step(h).op = "read" /\ Step(h).need = {} /\ Step(h).bar = {})
  /\ \A f \in Files, n \in {0, trouble} :
       /\ Step(h).op \in Blind => f \notin FilesOf(Step(h))
       /\ Step(h).op = "read" /\ Step(h).f = f => n = trouble
       /\ CopyOf(run[h].mem, f, disk[f], n)
       => CopyOf(mem, f, disk'[f], n)

\* A step goes on at a later one.
LEMMA JumpsAhead ==
  ASSUME NEW k \in Nat, NEW a \in Nat \ {0}, NEW b \in Nat, NEW t,
         t = k + a \/ (b > 0 /\ t = k + b) \/ t = k + 1 \/ t = k + 2
  PROVE  t \in Nat /\ k < t
<1>1. CASE t = k + a
  BY <1>1
<1>2. CASE b > 0 /\ t = k + b
  BY <1>2
<1>3. CASE t = k + 1
  BY <1>3
<1>4. CASE t = k + 2
  BY <1>4
<1> QED
  BY <1>1, <1>2, <1>3, <1>4

\* The copy h is to write back is still the file when h has gone on to step m.
LEMMA CopyCarried ==
  ASSUME NEW h \in Helpers, Running(h), RunOK(h), CopyOK(h), NEW t \in Jumps(Prog(h), run[h].pc), NEW mem,
         CopiesKept(h, t, mem), NEW m \in t..Len(Prog(h)), \A k \in t..m - 1 : ~Performed(Prog(h)[k], mem),
         NEW i \in 1..Len(Prog(h)), NEW j \in 1..Len(Prog(h)), Pair(Prog(h), j, i), j < m, m <= i,
         Performed(Prog(h)[j], mem), trouble' = 0 => trouble = 0
  PROVE  CopyOf(mem, Prog(h)[i].f, disk'[Prog(h)[i].f], Later(Prog(h)[j]))
<1> DEFINE p == Prog(h)
           k == run[h].pc
           f == p[i].f
<1>1. /\ run[h].cmd \in Command /\ k \in 1..Len(p) /\ Performed(p[k], run[h].mem)
  BY DEF RunOK, Step
<1>2. Len(p) \in Nat /\ \A n \in 1..Len(p) : p[n].next \in Nat \ {0} /\ p[n].catch \in Nat
  BY <1>1, ProgramFacts DEF Prog
<1>3. t \in Nat /\ k < t
  <2>1. p[k].next \in Nat \ {0} /\ p[k].catch \in Nat /\ k \in Nat
    BY <1>1, <1>2
  <2>2. \/ t = k + p[k].next
        \/ p[k].catch > 0 /\ t = k + p[k].catch
        \/ t = k + 1
        \/ t = k + 2
    BY DEF Jumps
  <2> HIDE DEF p, k
  <2> QED
    BY <2>1, <2>2, JumpsAhead
<1>4. /\ WritesBack(p[i]) /\ p[j].op \in Reading /\ p[j].f = f /\ Asks(p[j], p[i])
      /\ \A n \in 1..j - 1 : \A u \in Jumps(p, n) : u \notin j + 1..i
      /\ \/ p[j].op = "read" /\ p[j].need = {} /\ p[j].bar = {}
         \/ p[j].catch = 0 \/ j + p[j].catch > i
      /\ \A n \in j + 1..i - 1 :
           /\ p[n].op \in Blind => f \notin FilesOf(p[n])
           /\ p[n].op = "read" /\ p[n].f = f => p[j].op = "read"
           /\ p[n].op \in Copying /\ p[n].f \in AskedOf(p[j]) => Asks(p[j], p[n])
  BY DEF Pair, ReadFor
<1>5. f \in Files
  <2>1. FilesOf(p[i]) = {f}
    BY <1>4 DEF WritesBack, FilesOf
  <2> QED
    BY <1>1, <2>1, StepFiles DEF Prog
<1>6. CASE j < k
  <2>1. k \in j + 1..i - 1
    BY <1>1, <1>2, <1>3, <1>6
  <2>2. Performed(p[j], run[h].mem)
    <3>1. CASE p[k].op \in Copying /\ p[k].f \in AskedOf(p[j])
      <4>1. Asks(p[j], p[k])
        BY <1>4, <2>1, <3>1
      <4> QED
        BY <1>1, <4>1 DEF Asks, Performed
    <3>2. CASE ~(p[k].op \in Copying /\ p[k].f \in AskedOf(p[j]))
      <4>1. ASSUME NEW g \in AskedOf(p[j])
            PROVE  /\ g \in DOMAIN mem <=> g \in DOMAIN run[h].mem
                   /\ g \in DOMAIN mem => mem[g].val = run[h].mem[g].val
        BY <3>2 DEF CopiesKept, Step
      <4> QED
        BY <4>1, SameAnswer
    <3> QED
      BY <3>1, <3>2
  <2>3. CopyOf(run[h].mem, f, disk[f], Doubt(p[j]))
    BY <1>1, <1>2, <1>3, <1>6, <2>1, <2>2 DEF CopyOK
  <2>4. /\ p[k].op \in Blind => f \notin FilesOf(p[k])
        /\ p[k].op = "read" /\ p[k].f = f => Doubt(p[j]) = trouble
    BY <1>4, <2>1 DEF Doubt
  <2>5. Doubt(p[j]) \in {0, trouble} /\ (Later(p[j]) = 0 => Doubt(p[j]) = 0)
    BY DEF Doubt, Later
  <2>6. CopyOf(mem, f, disk'[f], Doubt(p[j]))
    BY <1>5, <2>3, <2>4, <2>5 DEF CopiesKept, Step
  <2> QED
    BY <2>5, <2>6 DEF CopyOf
<1>7. CASE j = k
  <2>1. Step(h) = p[j] /\ Step(h).f = f
    BY <1>4, <1>7 DEF Step
  <2>2. CASE CopyOf(mem, f, disk'[f], Later(p[j]))
    BY <2>2
  <2>3. CASE /\ t = k + p[j].catch /\ p[j].catch > 0
             /\ ~(p[j].op = "read" /\ p[j].need = {} /\ p[j].bar = {})
    <3>1. j + p[j].catch > i
      BY <1>2, <1>4, <2>3
    <3>2. t > i
      BY <1>7, <2>3, <3>1
    <3> QED
      BY <1>2, <1>3, <3>2
  <2> QED
    BY <1>4, <1>7, <2>1, <2>2, <2>3 DEF CopiesKept
<1>8. CASE k < j
  <2>1. CASE t <= j
    <3>1. j \in t..m - 1
      BY <1>2, <1>3, <2>1
    <3> QED
      BY <3>1
  <2>2. CASE t > j
    <3>1. t \notin j + 1..i
      <4>1. k \in 1..j - 1
        BY <1>1, <1>2, <1>8
      <4> QED
        BY <1>4, <4>1
    <3>2. t > i
      BY <1>2, <1>3, <2>2, <3>1
    <3> QED
      BY <1>2, <1>3, <3>2
  <2> QED
    BY <1>2, <1>3, <2>1, <2>2
<1> QED
  BY <1>1, <1>2, <1>6, <1>7, <1>8

\* h after a step that goes on at t with the copies mem.
LEMMA CarriesOn ==
  ASSUME SInv, NEW h \in Helpers, Running(h), OwnFiles(h), NEW t \in Jumps(Prog(h), run[h].pc), NEW mem,
         NEW w, NEW x, Continue(h, t, mem, w, x), CopiesOfFiles(mem), CopiesKept(h, t, mem)
  PROVE  /\ RunOK(h)' /\ (Running(h)' => CopiesOfFiles(run'[h].mem)) /\ OpenOK(h)' /\ (Running(h)' => CopyOK(h)')
         /\ Running(h)' => run'[h].cmd = run[h].cmd
<1> DEFINE p == Prog(h)
           k == run[h].pc
<1>1. RunOK(h) /\ CopyOK(h)
  BY DEF SInv, RunInv, CopyInv
<1>2. DOMAIN run[h] = DOMAIN Idle /\ run[h].cmd \in Command /\ k \in 1..Len(p)
  BY <1>1 DEF RunOK
<1>3. Len(p) \in Nat /\ \A n \in 1..Len(p) : p[n].next \in Nat \ {0} /\ p[n].catch \in Nat
  BY <1>2, ProgramFacts DEF Prog
<1>4. t \in Nat \ {0} /\ k < t
  <2>1. p[k].next \in Nat \ {0} /\ p[k].catch \in Nat /\ k \in Nat
    BY <1>2, <1>3
  <2>2. \/ t = k + p[k].next
        \/ p[k].catch > 0 /\ t = k + p[k].catch
        \/ t = k + 1
        \/ t = k + 2
    BY DEF Jumps
  <2> QED
    BY <2>1, <2>2
<1>5. CASE run'[h] = Idle
  BY <1>5 DEF RunOK, OpenOK, Running
<1>6. CASE \E m \in t..Len(p) :
              /\ Performed(p[m], mem) /\ \A n \in t..m - 1 : ~Performed(p[n], mem)
              /\ DOMAIN run'[h] = DOMAIN Idle /\ run'[h].cmd = run[h].cmd /\ run'[h].pc = m
              /\ run'[h].mem = Remembered(h, m, mem) /\ run'[h].open = "no"
  <2>1. PICK m \in t..Len(p) :
              /\ Performed(p[m], mem) /\ \A n \in t..m - 1 : ~Performed(p[n], mem)
              /\ DOMAIN run'[h] = DOMAIN Idle /\ run'[h].cmd = run[h].cmd /\ run'[h].pc = m
              /\ run'[h].mem = Remembered(h, m, mem) /\ run'[h].open = "no"
    BY <1>6
  <2> DEFINE kept == run'[h].mem
  <2>2. m \in 1..Len(p) /\ m \in Nat
    BY <1>3, <1>4
  <2>3. Prog(h)' = p /\ Step(h)' = p[m]
    BY <2>1 DEF Prog, Step
  <2>4. /\ DOMAIN kept = DOMAIN mem \cap Wanted[run[h].cmd][m]
        /\ \A f \in DOMAIN kept : kept[f] = mem[f]
    BY <2>1 DEF Remembered
  <2>5. ASSUME NEW i \in m..Len(p) PROVE AskedOf(p[i]) \subseteq Wanted[run[h].cmd][m]
    BY <1>2, <2>2, Wants DEF Prog
  <2>6. ASSUME NEW s, AskedOf(s) \subseteq Wanted[run[h].cmd][m]
        PROVE  Performed(s, kept) <=> Performed(s, mem)
    <3>1. ASSUME NEW f \in AskedOf(s)
          PROVE  /\ f \in DOMAIN kept <=> f \in DOMAIN mem
                 /\ f \in DOMAIN kept => kept[f].val = mem[f].val
      BY <2>4, <2>6
    <3> QED
      BY <3>1, SameAnswer
  <2>7. Performed(p[m], kept)
    BY <1>3, <2>1, <2>2, <2>5, <2>6
  <2>8. RunOK(h)'
    BY <1>2, <2>1, <2>2, <2>3, <2>7 DEF RunOK, Running
  <2>9. CopiesOfFiles(kept)
    BY <2>4 DEF CopiesOfFiles
  <2>10. OpenOK(h)'
    BY <2>1 DEF OpenOK
  <2>11. CopyOK(h)'
    <3> SUFFICES ASSUME NEW i \in 1..Len(p), NEW j \in 1..Len(p), Pair(p, j, i), j < m, m <= i,
                        Performed(p[j], kept)
                 PROVE  CopyOf(kept, p[i].f, disk'[p[i].f], Later(p[j]))
      <4>1. crossed' = crossed
        BY DEF OwnFiles
      <4> QED
        BY <2>1, <2>3, <4>1 DEF CopyOK, CopyOf, Doubt, Later
    <3>1. i \in m..Len(p)
      BY <1>3, <2>2
    <3>2. Asks(p[j], p[i]) /\ WritesBack(p[i])
      BY DEF Pair, ReadFor
    <3>3. AskedOf(p[j]) \subseteq Wanted[run[h].cmd][m]
      <4>1. AskedOf(p[j]) \subseteq AskedOf(p[i])
        BY <3>2 DEF Asks, AskedOf
      <4> QED
        BY <2>5, <3>1, <4>1
    <3>4. Performed(p[j], mem)
      BY <2>6, <3>3
    <3>5. CopyOf(mem, p[i].f, disk'[p[i].f], Later(p[j]))
      <4>1. trouble' = 0 => trouble = 0
        BY DEF OwnFiles
      <4> QED
        BY <1>1, <2>1, <3>4, <4>1, CopyCarried
    <3>6. p[i].f \in Wanted[run[h].cmd][m]
      <4>1. p[i].op \in {"save", "swap"}
        BY <3>2 DEF WritesBack
      <4> QED
        BY <1>2, <2>2, <3>1, <4>1, Wants DEF Prog
    <3> QED
      BY <2>4, <3>5, <3>6 DEF CopyOf
  <2> QED
    BY <2>1, <2>8, <2>9, <2>10, <2>11
<1> QED
  <2>1. Continue(h, t, mem, w, x)
    OBVIOUS
  <2> QED
    BY <1>2, <1>4, <1>5, <1>6, <2>1, GoesOn

\* h has done its step and the others are where they were: the invariant holds
\* again.
LEMMA StepKeeps ==
  ASSUME SInv, NEW h \in Helpers, Running(h), OwnFiles(h), NEW w,
         w \subseteq FilesOf(Step(h)), w # {} => Step(h).op \in WriteOps, OnlyIn(w),
         DOMAIN run' = Helpers, \A g \in Helpers \ {h} : Told(g, w),
         RunOK(h)', Running(h)' => CopiesOfFiles(run'[h].mem), OpenOK(h)', Running(h)' => CopyOK(h)',
         Running(h)' => run'[h].cmd = run[h].cmd,
         trouble' = 0 => \A f \in torn' \ crossed :
                           \/ f \in torn /\ ~(run[h].open # "no" /\ Step(h).f = f)
                           \/ Running(h)' /\ run'[h].open # "no" /\ Step(h)'.f = f
  PROVE  SInv'
<1>1. ASSUME NEW g \in Helpers, g # h
      PROVE  /\ RunOK(g)' /\ (Running(g)' => CopiesOfFiles(run'[g].mem)) /\ OpenOK(g)'
             /\ (Running(g)' => CopyOK(g)')
             /\ Running(g)' => Running(g) /\ run'[g].cmd = run[g].cmd
             /\ Running(g) /\ run[g].open # "no" =>
                  Running(g)' /\ run'[g].open # "no" /\ Step(g)' = Step(g)
  BY <1>1, OthersStay
<1>2. RunInv'
  BY <1>1 DEF RunInv
<1>3. MemInv'
  <2>1. \A g \in Helpers : Running(g)' => CopiesOfFiles(run'[g].mem)
    BY <1>1
  <2> QED
    BY <2>1 DEF MemInv, CopiesOfFiles
<1>4. DiskInv'
  BY DEF OwnFiles, SInv, DiskInv
<1>5. CrossedInv'
  <2>1. \A g \in Helpers : Running(g)' => Running(g) /\ run'[g].cmd = run[g].cmd
    BY <1>1
  <2>2. crossed' = crossed
    BY DEF OwnFiles
  <2>3. \A g \in Helpers : Running(g)' => Prog(g)' = Prog(g)
    BY <2>1 DEF Prog
  <2> QED
    BY <2>1, <2>2, <2>3 DEF SInv, CrossedInv
<1>6. TornInv'
  <2> SUFFICES ASSUME trouble' = 0, NEW f \in torn' \ crossed
               PROVE  \E g \in Helpers : Running(g)' /\ run'[g].open # "no" /\ Step(g)'.f = f
    BY DEF TornInv, OwnFiles
  <2>1. CASE Running(h)' /\ run'[h].open # "no" /\ Step(h)'.f = f
    BY <2>1
  <2>2. CASE f \in torn /\ ~(run[h].open # "no" /\ Step(h).f = f)
    <3>1. trouble = 0
      BY DEF OwnFiles
    <3>2. PICK g \in Helpers : Running(g) /\ run[g].open # "no" /\ Step(g).f = f
      BY <2>2, <3>1 DEF SInv, TornInv
    <3>3. g # h
      BY <2>2, <3>2
    <3> QED
      BY <1>1, <3>2, <3>3
  <2> QED
    BY <2>1, <2>2
<1>7. OpenInv'
  BY <1>1 DEF OpenInv
<1>8. CopyInv'
  BY <1>1 DEF CopyInv
<1> QED
  BY <1>2, <1>3, <1>4, <1>5, <1>6, <1>7, <1>8 DEF SInv

-----------------------------------------------------------------------------
(* The contents of files are finite.                                       *)

\* What a function gives for a finite set, and the union of such a family.
LEMMA FiniteImage ==
  ASSUME NEW S, IsFiniteSet(S), NEW fn, DOMAIN fn = S
  PROVE  IsFiniteSet({fn[x] : x \in S})
<1> DEFINE T == {fn[x] : x \in S}
           gn == [x \in S |-> fn[x]]
<1>1. gn \in Surjection(S, T)
  BY DEF Surjection
<1> QED
  BY <1>1, FS_Surjection

\* The union of a finite family of finite sets.
LEMMA FiniteFamily ==
  ASSUME NEW S, IsFiniteSet(S), NEW fn, \A x \in S : IsFiniteSet(fn[x])
  PROVE  IsFiniteSet(UNION {fn[x] : x \in S})
<1> DEFINE gn == [x \in S |-> fn[x]]
           F == {gn[x] : x \in S}
<1>1. IsFiniteSet(F)
  BY FiniteImage
<1>2. \A T \in F : IsFiniteSet(T)
  OBVIOUS
<1>3. IsFiniteSet(UNION F)
  <2> HIDE DEF F
  <2> QED
    BY <1>1, <1>2, FS_UNION
<1>4. UNION F = UNION {fn[x] : x \in S}
  OBVIOUS
<1> QED
  BY <1>3, <1>4

\* Pairs of things of two finite sets.
LEMMA FinitePairs ==
  ASSUME NEW S, IsFiniteSet(S), NEW T, IsFiniteSet(T), NEW U \in SUBSET (S \X T)
  PROVE  IsFiniteSet(U)
<1>1. IsFiniteSet(S \X T)
  BY FS_Product
<1> QED
  BY <1>1, FS_Subset

\* Things with the name of the file they are from.
LEMMA TaggedFinite ==
  ASSUME NEW from, IsFiniteSet(from), NEW seen, \A g \in from : IsFiniteSet(seen[g])
  PROVE  IsFiniteSet(Tagged(seen, from))
<1> DEFINE V == UNION {seen[g] : g \in from}
           nm == [g \in from |-> g[1]]
           N == {nm[g] : g \in from}
<1>1. IsFiniteSet(V)
  BY FiniteFamily
<1>2. IsFiniteSet(N)
  BY FiniteImage
<1>3. Tagged(seen, from) \in SUBSET (N \X V)
  BY DEF Tagged
<1> HIDE DEF N, V
<1> QED
  BY <1>1, <1>2, <1>3, FinitePairs

\* What nginx loads.
LEMMA LoadedFinite ==
  ASSUME NEW seen, \A d \in Domains : IsFiniteSet(seen[Conf(d)])
  PROVE  IsFiniteSet(Loaded(seen))
<1> DEFINE conf == [d \in Domains |-> seen[Conf(d)]]
           W == UNION {conf[d] : d \in Domains}
<1>1. IsFiniteSet(Domains) /\ \A d \in Domains : IsFiniteSet(conf[d])
  BY DomainsAssumption
<1>2. IsFiniteSet(W)
  <2> HIDE DEF conf
  <2> QED
    BY <1>1, FiniteFamily
<1>3. Loaded(seen) \in SUBSET (Domains \X W)
  BY DEF Loaded
<1> HIDE DEF W
<1> QED
  BY <1>1, <1>2, <1>3, FinitePairs

\* A file computed from finite files is finite.
LEMMA DerivedFinite ==
  ASSUME NEW f \in Files, NEW from, IsFiniteSet(from), NEW seen,
         \A g \in from \cup ComputedFrom(f) : IsFiniteSet(seen[g])
  PROVE  IsFiniteSet(Derived(f, from, seen))
<1>1. IsFiniteSet(Domains) /\ IsFiniteSet(Items) /\ Dest \in [Items -> Items]
  BY DomainsAssumption, DestAssumption
<1> DEFINE V == UNION {seen[g] : g \in from}
<1>2. IsFiniteSet(V)
  BY FiniteFamily
<1>4. IsFiniteSet(Tagged(seen, from))
  BY TaggedFinite
<1>5. IsFiniteSet({Row(d) : d \in MailDomains(seen)}) /\ IsFiniteSet(CronLines(seen))
  <2> HIDE DEF V
  <2>1. {Row(d) : d \in MailDomains(seen)} \in SUBSET ({"row"} \X Domains)
    <3>1. \A d \in MailDomains(seen) : Row(d) \in {"row"} \X Domains
      BY DEF Row, MailDomains
    <3> QED
      BY <3>1
  <2>2. CronLines(seen) \in SUBSET ({"row"} \X Domains)
    <3>1. \A d \in Domains : Row(d) \in {"row"} \X Domains
      BY DEF Row
    <3> QED
      BY <3>1 DEF CronLines
  <2> QED
    BY <1>1, <2>1, <2>2, FinitePairs, FS_Singleton
<1>6. ASSUME f = Served PROVE IsFiniteSet(Loaded(seen))
  <2>1. ComputedFrom(f) = {Linked} \cup {Conf(e) : e \in Domains}
    BY <1>6, Zenon DEF ComputedFrom, Served, Vmailbox, Sys
  <2> QED
    BY <2>1, LoadedFinite
<1>7. ASSUME f = AliasMap PROVE IsFiniteSet(AliasEntries(seen))
  <2> DEFINE al == [d \in Domains |-> seen[Aliases(d)]]
             W == UNION {al[d] : d \in Domains}
             X == Domains \cup {"catch-all"}
             Y == W \cup Domains
  <2>1. ASSUME NEW d \in Domains PROVE IsFiniteSet(al[d])
    <3>1. Aliases(d) \in ComputedFrom(f)
      BY <1>7 DEF ComputedFrom, Basis, AliasMap, DomainMap, Served, Vmailbox, BackupCron, Sys, AliasSources
    <3> QED
      BY <3>1
  <2>2. IsFiniteSet(W)
    <3> HIDE DEF al
    <3> QED
      BY <1>1, <2>1, FiniteFamily
  <2>3. AliasEntries(seen) \in SUBSET (X \X Y)
    BY DEF AliasEntries, Addr, CatchAll, MailDomains
  <2> HIDE DEF W
  <2>4. IsFiniteSet(X) /\ IsFiniteSet(Y)
    BY <1>1, <2>2, FS_Union, FS_AddElement
  <2> HIDE DEF X, Y
  <2> QED
    BY <2>3, <2>4, FinitePairs
<1>8. ASSUME f = Vmailbox PROVE IsFiniteSet(VmailboxEntries(seen))
  <2> DEFINE hm == [d \in Domains |-> seen[Homes(d)]]
             W == UNION {hm[d] : d \in Domains}
             Y == W \cup Items
  <2>1. ASSUME NEW d \in Domains PROVE IsFiniteSet(hm[d])
    <3>1. Homes(d) \in ComputedFrom(f)
      BY <1>8 DEF ComputedFrom, Served, Vmailbox, Sys, MailboxSources
    <3> QED
      BY <3>1
  <2>2. IsFiniteSet(W)
    <3> HIDE DEF hm
    <3> QED
      BY <1>1, <2>1, FiniteFamily
  <2>3. ASSUME NEW d \in Domains PROVE Mailboxes(d, seen) \subseteq Y
    <3>1. seen[Homes(d)] \subseteq W
      OBVIOUS
    <3>2. {Dest[x] : x \in {y \in Items : Addr(d, y) \in seen[AliasMap]}} \subseteq Items
      BY <1>1
    <3> HIDE DEF W
    <3> QED
      BY <3>1, <3>2 DEF Mailboxes
  <2>4. VmailboxEntries(seen) \in SUBSET (Domains \X Y)
    <3> HIDE DEF Y
    <3> QED
      BY <2>3 DEF VmailboxEntries, Addr, MailDomains
  <2> HIDE DEF W
  <2>5. IsFiniteSet(Y)
    BY <1>1, <2>2, FS_Union
  <2> HIDE DEF Y
  <2> QED
    BY <1>1, <2>4, <2>5, FinitePairs
<1>9. IsFiniteSet({x \in V : x \in {Default(v) : v \in Items}})
  <2>1. {x \in V : x \in {Default(v) : v \in Items}} \in SUBSET V
    OBVIOUS
  <2> HIDE DEF V
  <2> QED
    BY <1>2, <2>1, FS_Subset
<1> HIDE DEF V
<1>10. \/ Derived(f, from, seen) = {x \in V : x \in {Default(v) : v \in Items}}
       \/ Derived(f, from, seen) = {Row(d) : d \in MailDomains(seen)}
       \/ f = AliasMap /\ Derived(f, from, seen) = AliasEntries(seen)
       \/ f = Vmailbox /\ Derived(f, from, seen) = VmailboxEntries(seen)
       \/ Derived(f, from, seen) = CronLines(seen)
       \/ f = Served /\ Derived(f, from, seen) = Loaded(seen)
       \/ Derived(f, from, seen) = Tagged(seen, from)
  <2> DEFINE a1 == {x \in V : x \in {Default(v) : v \in Items}}
             a2 == {Row(d) : d \in MailDomains(seen)}
             a3 == AliasEntries(seen)
             a4 == VmailboxEntries(seen)
             a5 == CronLines(seen)
             a6 == Loaded(seen)
             a7 == Tagged(seen, from)
  <2>1. Derived(f, from, seen) =
          CASE f[1] = "php-fpm pool" -> a1
            [] f = DomainMap -> a2
            [] f = AliasMap -> a3
            [] f = Vmailbox -> a4
            [] f = BackupCron -> a5
            [] f = Served -> a6
            [] OTHER -> a7
    BY DEF Derived, V
  <2> HIDE DEF a1, a2, a3, a4, a5, a6, a7
  <2>2. \/ Derived(f, from, seen) = a1
        \/ Derived(f, from, seen) = a2
        \/ f = AliasMap /\ Derived(f, from, seen) = a3
        \/ f = Vmailbox /\ Derived(f, from, seen) = a4
        \/ Derived(f, from, seen) = a5
        \/ f = Served /\ Derived(f, from, seen) = a6
        \/ Derived(f, from, seen) = a7
    BY <2>1, Zenon
  <2> QED
    BY <2>2 DEF a1, a2, a3, a4, a5, a6, a7
<1> QED
  BY <1>4, <1>5, <1>6, <1>7, <1>8, <1>9, <1>10

-----------------------------------------------------------------------------
(* One step of one process.                                                *)

\* What is known of a process at its step.
LEMMA AtStep ==
  ASSUME SInv, NEW h \in Helpers, Running(h)
  PROVE  /\ run[h].cmd \in Command /\ run[h].pc \in 1..Len(Prog(h)) /\ run[h].pc \in Nat \ {0}
         /\ Step(h).next \in Nat \ {0} /\ Step(h).catch \in Nat
         /\ IsFiniteSet(Step(h).src) /\ IsFiniteSet(Step(h).add)
         /\ FilesOf(Step(h)) \subseteq Files /\ FilesOf(Step(h)) \subseteq Uses(Prog(h))
         /\ Step(h).src \subseteq Files
         /\ Step(h).op \notin {"wipe", "unpack"} => Step(h).f \in Files /\ FilesOf(Step(h)) = {Step(h).f}
         /\ run[h].pc + Step(h).next \in Jumps(Prog(h), run[h].pc)
         /\ Step(h).catch > 0 => run[h].pc + Step(h).catch \in Jumps(Prog(h), run[h].pc)
         /\ CopiesOfFiles(run[h].mem)
         /\ run[h].open # "no" => Step(h).op = "save"
<1>1. /\ run[h].cmd \in Command /\ run[h].pc \in 1..Len(Prog(h))
      /\ run[h].open # "no" => Step(h).op = "save"
  BY DEF SInv, RunInv, RunOK
<1>2. Len(Prog(h)) \in Nat
  BY <1>1, ProgramFacts DEF Prog
<1>3. run[h].pc \in Nat \ {0}
  BY <1>1, <1>2
<1>4. /\ Step(h).next \in Nat \ {0} /\ Step(h).catch \in Nat
      /\ IsFiniteSet(Step(h).src) /\ IsFiniteSet(Step(h).add)
  BY <1>1, ProgramFacts DEF Prog, Step
<1>5. /\ FilesOf(Step(h)) \subseteq Files /\ FilesOf(Step(h)) \subseteq Uses(Prog(h))
      /\ Step(h).src \subseteq Files
  BY <1>1, StepFiles DEF Prog, Step
<1>6. Step(h).op \notin {"wipe", "unpack"} => Step(h).f \in Files /\ FilesOf(Step(h)) = {Step(h).f}
  BY <1>5 DEF FilesOf
<1>7. /\ run[h].pc + Step(h).next \in Jumps(Prog(h), run[h].pc)
      /\ Step(h).catch > 0 => run[h].pc + Step(h).catch \in Jumps(Prog(h), run[h].pc)
  BY DEF Jumps, Step
<1>8. CopiesOfFiles(run[h].mem)
  BY DEF SInv, MemInv
<1> QED
  BY <1>1, <1>3, <1>4, <1>5, <1>6, <1>7, <1>8

\* What is on file, and what is seen of it, is finite.
LEMMA SeenFinite ==
  ASSUME SInv, NEW f \in Files
  PROVE  Seen[f] \subseteq disk[f] /\ IsFiniteSet(disk[f]) /\ IsFiniteSet(Seen[f])
<1>1. IsFiniteSet(disk[f])
  BY DEF SInv, DiskInv
<1>2. Seen[f] \subseteq disk[f]
  BY DEF Seen
<1>3. Seen[f] \in SUBSET disk[f]
  BY <1>2
<1> QED
  BY <1>1, <1>2, <1>3, FS_Subset

\* A file of a program is whole when nothing failed and nobody else is at it.
LEMMA SeenWhole ==
  ASSUME SInv, NEW h \in Helpers, Running(h), Step(h).op # "save", NEW f \in FilesOf(Step(h)) \ crossed,
         trouble = 0
  PROVE  f \notin torn
<1> SUFFICES ASSUME f \in torn PROVE FALSE
  OBVIOUS
<1>1. PICK g \in Helpers : Running(g) /\ run[g].open # "no" /\ Step(g).f = f
  BY DEF SInv, TornInv
<1>2. g # h
  BY <1>1, AtStep
<1>3. Step(g).op = "save" /\ run[g].cmd \in Command /\ run[g].pc \in 1..Len(Prog(g))
  BY <1>1, AtStep
<1>4. f \in Writes(Prog(g))
  <2>1. FilesOf(Step(g)) = {f} /\ Step(g).op \in WriteOps
    BY <1>1, <1>3 DEF FilesOf, WriteOps
  <2> QED
    BY <1>3, <2>1, StepFiles DEF Prog, Step
<1>5. f \in Uses(Prog(h))
  BY AtStep
<1> QED
  BY <1>1, <1>2, <1>4, <1>5 DEF SInv, CrossedInv

\* One copy added to the copies of a process.
LEMMA Added ==
  ASSUME NEW f, NEW c, NEW old
  PROVE  /\ DOMAIN Taken(old, f, c) = {f} \cup DOMAIN old /\ Taken(old, f, c)[f] = c
         /\ \A g : g # f => /\ g \in DOMAIN Taken(old, f, c) <=> g \in DOMAIN old
                            /\ g \in DOMAIN old => Taken(old, f, c)[g] = old[g]
         /\ (f \in Files /\ CopiesOfFiles(old) /\ DOMAIN c = DOMAIN None(f) /\ IsFiniteSet(c.val))
               => CopiesOfFiles(Taken(old, f, c))
<1> DEFINE mem == Taken(old, f, c)
<1>1. /\ DOMAIN mem = {f} \cup DOMAIN old /\ mem[f] = c
      /\ \A g \in DOMAIN old : g # f => mem[g] = old[g]
  BY DEF Taken
<1> HIDE DEF mem
<1>2. \A g : DOMAIN None(g) = DOMAIN None(f)
  BY DEF None, Copied
<1> QED
  <2>1. CopiesOfFiles(old) /\ f \in Files /\ DOMAIN c = DOMAIN None(f) /\ IsFiniteSet(c.val) => CopiesOfFiles(mem)
    BY <1>1, <1>2 DEF CopiesOfFiles
  <2> QED
    BY <1>1, <2>1 DEF mem

\* A step that goes on keeps the invariant.
LEMMA GoingOnKeeps ==
  ASSUME SInv, NEW h \in Helpers, Running(h), OwnFiles(h), NEW t \in Jumps(Prog(h), run[h].pc), NEW mem,
         NEW w, NEW x, Continue(h, t, mem, w, x), CopiesOfFiles(mem), CopiesKept(h, t, mem),
         w \subseteq FilesOf(Step(h)), w # {} => Step(h).op \in WriteOps, OnlyIn(w),
         trouble' = 0 => \A f \in torn' \ crossed : f \in torn /\ ~(run[h].open # "no" /\ Step(h).f = f)
  PROVE  SInv'
<1>1. /\ RunOK(h)' /\ (Running(h)' => CopiesOfFiles(run'[h].mem)) /\ OpenOK(h)' /\ (Running(h)' => CopyOK(h)')
      /\ Running(h)' => run'[h].cmd = run[h].cmd
  BY CarriesOn
<1>2. DOMAIN run' = Helpers /\ \A g \in Helpers \ {h} : Told(g, w)
  BY DEF Continue, Told
<1> QED
  BY <1>1, <1>2, StepKeeps

\* A process that ends keeps the invariant.
LEMMA EndingKeeps ==
  ASSUME SInv, NEW h \in Helpers, Running(h), Stop(h), UNCHANGED <<disk, torn, crossed, started>>,
         trouble' \in 0..MaxTrouble, trouble' = 0 => trouble = 0 /\ run[h].open = "no"
  PROVE  SInv'
<1>1. run' = [run EXCEPT ![h] = Idle] /\ DOMAIN run = Helpers
  BY DEF Stop, SInv, RunInv
<1>2. run'[h] = Idle /\ DOMAIN run' = Helpers /\ \A g \in Helpers \ {h} : run'[g] = run[g]
  BY <1>1
<1>3. RunOK(h)' /\ ~Running(h)' /\ OpenOK(h)'
  BY <1>2 DEF RunOK, Running, OpenOK
<1>4. OwnFiles(h)
  <2>1. Ahead(h, run[h].pc) \subseteq Files
    BY AheadFiles, AtStep
  <2>2. excused' \subseteq Files
    BY <2>1 DEF Stop, SInv, DiskInv
  <2> QED
    BY <2>2 DEF OwnFiles, SInv, DiskInv
<1>5. trouble' = 0 => \A f \in torn' \ crossed : f \in torn /\ ~(run[h].open # "no" /\ Step(h).f = f)
  OBVIOUS
<1> DEFINE w == {}
<1>6. /\ w \subseteq FilesOf(Step(h)) /\ (w # {} => Step(h).op \in WriteOps)
      /\ OnlyIn(w) /\ \A g \in Helpers \ {h} : Told(g, w)
  BY <1>2 DEF Told, OnlyIn
<1> HIDE DEF w
<1> QED
  BY <1>2, <1>3, <1>4, <1>5, <1>6, StepKeeps

\* What a process holds and would write is finite.
LEMMA NewFinite ==
  ASSUME SInv, NEW h \in Helpers, Running(h)
  PROVE  /\ \A f : DOMAIN Held(h, f) = DOMAIN None(f) /\ IsFiniteSet(Held(h, f).val)
         /\ DOMAIN Kept(h, Step(h)) = DOMAIN None(Step(h).f) /\ IsFiniteSet(NewValue(h))
<1>1. CopiesOfFiles(run[h].mem) /\ IsFiniteSet(Step(h).add)
  BY AtStep
<1>2. \A f : DOMAIN None(f) = {"val", "src", "old"} /\ IsFiniteSet(None(f).val)
  BY FS_EmptySet DEF None, Copied
<1>3. \A f : DOMAIN Held(h, f) = DOMAIN None(f) /\ IsFiniteSet(Held(h, f).val)
  BY <1>1, <1>2 DEF Held, CopiesOfFiles
<1>4. DOMAIN Kept(h, Step(h)) = DOMAIN None(Step(h).f) /\ IsFiniteSet(Kept(h, Step(h)).val)
  BY <1>2, <1>3 DEF Kept
<1>5. IsFiniteSet(Kept(h, Step(h)).val \ Step(h).del)
  BY <1>4, FS_Difference
<1>6. IsFiniteSet(NewValue(h))
  BY <1>1, <1>5, FS_Union DEF NewValue
<1> QED
  BY <1>3, <1>4, <1>6

\* A step that changes no file: it goes on, with another copy of its own file
\* at most.
LEMMA LookingKeeps ==
  ASSUME SInv, NEW h \in Helpers, Running(h), NEW t \in Jumps(Prog(h), run[h].pc), NEW mem,
         NEW x \in SUBSET Files, Continue(h, t, mem, {}, x), UNCHANGED <<disk, torn, crossed, started>>,
         trouble' \in 0..MaxTrouble, trouble' = 0 => trouble = 0 /\ run[h].open = "no",
         CopiesOfFiles(mem), CopiesKept(h, t, mem)
  PROVE  SInv'
<1>1. OwnFiles(h)
  <2>1. excused' \subseteq Files
    BY ExcusesFiles
  <2> QED
    BY <2>1 DEF OwnFiles, SInv, DiskInv
<1>2. trouble' = 0 => \A f \in torn' \ crossed : f \in torn /\ ~(run[h].open # "no" /\ Step(h).f = f)
  OBVIOUS
<1> DEFINE w == {}
<1>3. /\ w \subseteq FilesOf(Step(h)) /\ (w # {} => Step(h).op \in WriteOps) /\ Continue(h, t, mem, w, x)
      /\ OnlyIn(w)
  BY DEF OnlyIn
<1> HIDE DEF w
<1> QED
  BY <1>1, <1>2, <1>3, GoingOnKeeps

\* The same, with the copies as they are.
LEMMA PassingKeeps ==
  ASSUME SInv, NEW h \in Helpers, Running(h), NEW t \in Jumps(Prog(h), run[h].pc),
         NEW x \in SUBSET Files, Continue(h, t, run[h].mem, {}, x), UNCHANGED <<disk, torn, crossed, started>>,
         trouble' \in 0..MaxTrouble, trouble' = 0 => trouble = 0 /\ run[h].open = "no",
         Step(h).op \in Reading =>
           /\ t = run[h].pc + Step(h).catch /\ Step(h).catch > 0
           /\ ~(Step(h).op = "read" /\ Step(h).need = {} /\ Step(h).bar = {})
  PROVE  SInv'
<1>1. CopiesOfFiles(run[h].mem)
  BY AtStep
<1>2. CopiesKept(h, t, run[h].mem)
  BY DEF CopiesKept, CopyOf
<1> QED
  BY <1>1, <1>2, LookingKeeps

\* resolveDomainUser finds the domain; a program is run.
LEMMA ResolveKeeps ==
  ASSUME SInv, NEW h \in Helpers, ResolveDomainUser(h) \/ RunProgram(h)
  PROVE  SInv'
<1>1. Running(h) /\ Step(h).op \in {"resolve", "run"}
  BY DEF ResolveDomainUser, RunProgram, At
<1>2. /\ Continue(h, run[h].pc + Step(h).next, run[h].mem, {}, excused)
      /\ UNCHANGED <<disk, torn, crossed, started, trouble>>
  BY DEF ResolveDomainUser, RunProgram, Onward, history
<1>3. excused \in SUBSET Files /\ trouble \in 0..MaxTrouble
  BY DEF SInv, DiskInv
<1>4. run[h].pc + Step(h).next \in Jumps(Prog(h), run[h].pc) /\ run[h].open = "no"
  BY <1>1, AtStep
<1>5. Step(h).op \notin Reading
  BY <1>1 DEF Reading
<1> QED
  BY <1>1, <1>2, <1>3, <1>4, <1>5, PassingKeeps

\* A step that takes a copy of its file, or computes what it will hold.
LEMMA TakingKeeps ==
  ASSUME SInv, NEW h \in Helpers, Running(h), Step(h).op \in {"read", "parse", "render", "copy", "strip"},
         NEW t \in Jumps(Prog(h), run[h].pc), NEW c,
         Continue(h, t, Taken(run[h].mem, Step(h).f, c), {}, excused),
         UNCHANGED <<disk, torn, crossed, started, trouble>>,
         DOMAIN c = DOMAIN None(Step(h).f), IsFiniteSet(c.val),
         Step(h).op \in Reading =>
           c.val = Seen[Step(h).f] /\ c.src = {Step(h).f} /\ (~c.old => Step(h).f \notin torn),
         Step(h).op = "parse" => Step(h).f \notin torn
  PROVE  SInv'
<1> DEFINE f == Step(h).f
           mem == Taken(run[h].mem, f, c)
<1>1. excused \in SUBSET Files /\ trouble \in 0..MaxTrouble
  BY DEF SInv, DiskInv
<1>2. /\ run[h].open = "no" /\ CopiesOfFiles(run[h].mem) /\ f \in Files /\ FilesOf(Step(h)) = {f}
  BY AtStep
<1>3. IsFiniteSet(Seen[f]) /\ Seen[f] \subseteq disk[f]
  BY <1>2, SeenFinite
<1>4. /\ DOMAIN mem = {f} \cup DOMAIN run[h].mem /\ mem[f] = c
      /\ \A g : g # f => /\ g \in DOMAIN mem <=> g \in DOMAIN run[h].mem
                         /\ g \in DOMAIN run[h].mem => mem[g] = run[h].mem[g]
  BY DEF Taken
<1>5. CopiesOfFiles(mem)
  BY <1>2, Added
<1>6. Continue(h, t, mem, {}, excused)
  OBVIOUS
<1> HIDE DEF mem
<1>7. Step(h).op \in Reading => CopyOf(mem, f, disk[f], Doubt(Step(h)))
  <2>1. ASSUME Doubt(Step(h)) = 0, f \notin crossed, Step(h).op \in Reading PROVE Seen[f] = disk[f]
    <3>1. f \notin torn
      BY <1>2, <2>1, SeenWhole DEF Doubt, Reading
    <3> QED
      BY <1>2, <3>1 DEF Seen
  <2>2. f \notin torn => Seen[f] = disk[f]
    BY <1>2 DEF Seen
  <2> QED
    BY <1>3, <1>4, <2>1, <2>2 DEF CopyOf
<1>8. CopiesKept(h, t, mem)
  <2>1. /\ Step(h).op \in Copying
        /\ Step(h).op \notin Reading => Step(h).op \in Blind
    BY DEF Reading, Copying, Blind
  <2>2. ASSUME NEW g \in Files, NEW n \in {0, trouble}, Step(h).op \in Blind => g \notin FilesOf(Step(h)),
               (Step(h).op = "read" /\ Step(h).f = g) => n = trouble, CopyOf(run[h].mem, g, disk[g], n)
        PROVE  CopyOf(mem, g, disk'[g], n)
    <3>1. CASE g = f
      <4>1. Step(h).op \in Reading
        BY <1>2, <2>1, <2>2, <3>1
      <4>2. Doubt(Step(h)) = n \/ Doubt(Step(h)) = 0
        BY <2>2, <3>1 DEF Doubt
      <4> QED
        BY <1>7, <3>1, <4>1, <4>2 DEF CopyOf
    <3>2. CASE g # f
      BY <1>4, <2>2, <3>2 DEF CopyOf
    <3> QED
      BY <3>1, <3>2
  <2>3. Step(h).op \in Reading => CopyOf(mem, f, disk'[f], Later(Step(h)))
    BY <1>7 DEF Doubt, Later
  <2> QED
    BY <1>4, <2>1, <2>2, <2>3 DEF CopiesKept
<1> QED
  BY <1>1, <1>2, <1>5, <1>6, <1>8, LookingKeeps

\* A file is read.
LEMMA ReadKeeps ==
  ASSUME SInv, NEW h \in Helpers, ReadFile(h)
  PROVE  SInv'
<1> DEFINE f == Step(h).f
           t == run[h].pc + Step(h).next
           c == Copied(Seen[f], {f}, f \in torn)
<1>1. Running(h) /\ Step(h).op \in {"read", "parse", "render", "copy", "strip"}
  BY DEF ReadFile, Reads, At
<1>2. /\ Continue(h, t, Taken(run[h].mem, f, c), {}, excused)
      /\ UNCHANGED <<disk, torn, crossed, started, trouble>>
  BY DEF ReadFile, Onward, history
<1>3. t \in Jumps(Prog(h), run[h].pc) /\ f \in Files
  BY <1>1, AtStep
<1>4. IsFiniteSet(Seen[f])
  BY <1>3, SeenFinite
<1>5. DOMAIN c = DOMAIN None(f) /\ c.val = Seen[f] /\ c.src = {f} /\ (~c.old => f \notin torn)
  BY DEF None, Copied
<1>6. Step(h).op = "parse" => f \notin torn
  BY DEF ReadFile, Acceptable
<1> HIDE DEF c, t
<1> QED
  BY <1>1, <1>2, <1>3, <1>4, <1>5, <1>6, TakingKeeps

\* What a file is computed from is copied or put together.
LEMMA RenderKeeps ==
  ASSUME SInv, NEW h \in Helpers, RenderFile(h)
  PROVE  SInv'
<1> DEFINE s == Step(h)
           t == run[h].pc + s.next
           val == IF s.op = "copy" THEN UNION {Seen[g] : g \in s.src} ELSE Derived(s.f, s.src, Seen)
           c == Copied(val, s.src, s.src \cap torn # {})
<1>1. Running(h) /\ s.op \in {"render", "copy"}
  BY DEF RenderFile, At
<1>2. /\ Continue(h, t, Taken(run[h].mem, s.f, c), {}, excused)
      /\ UNCHANGED <<disk, torn, crossed, started, trouble>>
  BY DEF RenderFile, Onward, history
<1>3. /\ t \in Jumps(Prog(h), run[h].pc) /\ s.f \in Files /\ s.src \subseteq Files /\ IsFiniteSet(s.src)
  BY <1>1, AtStep
<1>4. \A g \in Files : IsFiniteSet(Seen[g])
  BY SeenFinite
<1>5. IsFiniteSet(UNION {Seen[g] : g \in s.src})
  BY <1>3, <1>4, FiniteFamily
<1>6. IsFiniteSet(Derived(s.f, s.src, Seen))
  <2>1. \A g \in s.src \cup ComputedFrom(s.f) : IsFiniteSet(Seen[g])
    BY <1>3, <1>4, FilesAssumption
  <2> QED
    BY <1>3, <2>1, DerivedFinite
<1>7. IsFiniteSet(val)
  BY <1>5, <1>6
<1>8. DOMAIN c = DOMAIN None(s.f) /\ c.val = val
  BY DEF None, Copied
<1>9. s.op \notin Reading /\ s.op # "parse"
  BY <1>1 DEF Reading
<1> HIDE DEF c, t, val
<1> QED
  BY <1>1, <1>2, <1>3, <1>7, <1>8, <1>9, TakingKeeps

\* The alias map is read without what the mailbox map has.
LEMMA StripKeeps ==
  ASSUME SInv, NEW h \in Helpers, StripConflicts(h)
  PROVE  SInv'
<1> DEFINE f == Step(h).f
           kept == Seen[f] \ Held(h, Vmailbox).val
           t == run[h].pc + (IF kept = Seen[f] THEN 2 ELSE 1)
           c == Copied(kept, {f}, f \in torn)
<1>1. Running(h) /\ Step(h).op = "strip"
  BY DEF StripConflicts, At
<1>2. /\ Continue(h, t, Taken(run[h].mem, f, c), {}, excused)
      /\ UNCHANGED <<disk, torn, crossed, started, trouble>>
  BY DEF StripConflicts, history
<1>3. t \in Jumps(Prog(h), run[h].pc) /\ f \in Files
  <2>1. {run[h].pc + 1, run[h].pc + 2} \subseteq Jumps(Prog(h), run[h].pc)
    BY <1>1 DEF Jumps, Step
  <2> QED
    BY <1>1, <2>1, AtStep
<1>4. IsFiniteSet(kept)
  <2>1. IsFiniteSet(Seen[f])
    BY <1>3, SeenFinite
  <2> QED
    BY <2>1, FS_Difference
<1>5. DOMAIN c = DOMAIN None(f) /\ c.val = kept
  BY DEF None, Copied
<1>6. Step(h).op \notin Reading /\ Step(h).op # "parse"
  BY <1>1 DEF Reading
<1> HIDE DEF c, t, kept
<1> QED
  BY <1>1, <1>2, <1>3, <1>4, <1>5, <1>6, TakingKeeps

\* A file is truncated.
LEMMA OpenKeeps ==
  ASSUME SInv, NEW h \in Helpers, OpenFile(h)
  PROVE  SInv'
<1> DEFINE f == Step(h).f
           w == {f}
           r == [run[h] EXCEPT !.open = "mine", !.wrote = TRUE]
<1>1. Running(h) /\ Step(h).op = "save" /\ torn' = torn \cup {f}
  BY DEF OpenFile, At
<1>2. DOMAIN run' = Helpers /\ run'[h] = r /\ OnlyIn(w) /\ \A g \in Helpers \ {h} : Told(g, w)
  BY DEF OpenFile, Told, OnlyIn
<1>3. /\ run[h].pc \in Nat \ {0} /\ f \in Files /\ FilesOf(Step(h)) = {f}
  BY <1>1, AtStep
<1>4. OwnFiles(h)
  BY <1>3 DEF OwnFiles, OpenFile, history, SInv, DiskInv
<1>5. w \subseteq FilesOf(Step(h)) /\ Step(h).op \in WriteOps
  BY <1>1, <1>3 DEF WriteOps
<1>6. RunOK(h) /\ CopiesOfFiles(run[h].mem) /\ CopyOK(h)
  BY <1>1 DEF SInv, RunInv, MemInv, CopyInv
<1>7. /\ DOMAIN r = DOMAIN Idle /\ r.cmd = run[h].cmd /\ r.pc = run[h].pc /\ r.mem = run[h].mem
      /\ r.open = "mine"
  BY <1>6 DEF RunOK, Idle
<1> HIDE DEF r
<1>8. r # Idle
  BY <1>3, <1>7 DEF Idle
<1>9. Running(h)' /\ Prog(h)' = Prog(h) /\ Step(h)' = Step(h)
  BY <1>2, <1>7, <1>8 DEF Running, Prog, Step
<1>10. RunOK(h)'
  BY <1>1, <1>2, <1>6, <1>7, <1>9 DEF RunOK
<1>11. CopiesOfFiles(run'[h].mem) /\ OpenOK(h)'
  BY <1>2, <1>6, <1>7 DEF OpenOK
<1>12. CopyOK(h)'
  BY <1>2, <1>6, <1>7, <1>9 DEF CopyOK, CopyOf, Doubt, OpenFile, history
<1>13. trouble' = 0 => \A g \in torn' \ crossed :
                         \/ g \in torn /\ ~(run[h].open # "no" /\ Step(h).f = g)
                         \/ Running(h)' /\ run'[h].open # "no" /\ Step(h)'.f = g
  <2>1. run[h].open = "no"
    BY DEF OpenFile
  <2> QED
    BY <1>1, <1>2, <1>7, <1>9, <2>1
<1> HIDE DEF w
<1> QED
  BY <1>1, <1>2, <1>4, <1>5, <1>7, <1>10, <1>11, <1>12, <1>13, StepKeeps

\* What is excused after a write is files.
LEMMA RecordedFiles ==
  ASSUME SInv, NEW h \in Helpers, Running(h), Step(h).f \in Files
  PROVE  Recorded(h) \in SUBSET Files
BY DEF Recorded, SInv, DiskInv

\* The text is written.
LEMMA WriteKeeps ==
  ASSUME SInv, NEW h \in Helpers, WriteFile(h)
  PROVE  SInv'
<1> DEFINE f == Step(h).f
           w == {f}
           t == run[h].pc + Step(h).next
           value == NewValue(h)
           c == [Kept(h, Step(h)) EXCEPT !.val = value]
           mem == Taken(run[h].mem, f, c)
           x == Recorded(h)
<1>1. Running(h) /\ Step(h).op = "save" /\ run[h].open # "no"
  BY DEF WriteFile, At
<1>2. /\ Continue(h, t, mem, w, x) /\ disk' = [disk EXCEPT ![f] = value]
      /\ torn' = torn \ {f} \/ (run[h].open = "crossed" /\ torn' = torn \cup {f})
      /\ UNCHANGED <<crossed, started, trouble>>
  BY DEF WriteFile, Onward, history
<1>3. /\ t \in Jumps(Prog(h), run[h].pc) /\ f \in Files /\ FilesOf(Step(h)) = {f}
      /\ CopiesOfFiles(run[h].mem)
  BY <1>1, AtStep
<1>4. DOMAIN Kept(h, Step(h)) = DOMAIN None(f) /\ IsFiniteSet(value)
  BY <1>1, NewFinite
<1>5. DOMAIN c = DOMAIN None(f) /\ c.val = value
  BY <1>4 DEF None, Copied
<1>6. DiskInv /\ DOMAIN disk = Files
  BY DEF SInv, DiskInv
<1>7. disk'[f] = value /\ \A g \in Files : g # f => disk'[g] = disk[g]
  BY <1>2, <1>3, <1>6
<1>8. OwnFiles(h)
  <2>1. excused' \subseteq Files
    BY <1>1, <1>2, <1>3, ExcusesFiles, RecordedFiles
  <2>2. DOMAIN disk' = Files /\ \A g \in Files : IsFiniteSet(disk'[g])
    BY <1>2, <1>4, <1>6, <1>7 DEF DiskInv
  <2>3. torn' \subseteq Files
    BY <1>2, <1>3, <1>6 DEF DiskInv
  <2>4. Step(h).op \in WriteOps
    BY <1>1 DEF WriteOps
  <2> QED
    BY <1>2, <1>3, <1>6, <1>7, <2>1, <2>2, <2>3, <2>4 DEF OwnFiles, DiskInv
<1> HIDE DEF c
<1>9. CopiesOfFiles(mem)
  BY <1>3, <1>4, <1>5, Added
<1>10. /\ DOMAIN mem = {f} \cup DOMAIN run[h].mem /\ mem[f] = c
       /\ \A g : g # f => /\ g \in DOMAIN mem <=> g \in DOMAIN run[h].mem
                          /\ g \in DOMAIN run[h].mem => mem[g] = run[h].mem[g]
  BY DEF Taken
<1> HIDE DEF mem, value
<1>11. CopiesKept(h, t, mem)
  <2>1. Step(h).op \in Copying /\ Step(h).op \notin Reading
    BY <1>1 DEF Reading, Copying
  <2>2. ASSUME NEW g \in Files, NEW n, CopyOf(run[h].mem, g, disk[g], n)
        PROVE  CopyOf(mem, g, disk'[g], n)
    <3>1. CASE g = f
      <4>1. Kept(h, Step(h)).src = {f}
        BY <2>2, <3>1 DEF CopyOf, Kept, Held, None, Copied
      <4>2. c.src = {f}
        BY <1>4, <4>1 DEF c, None, Copied
      <4> QED
        BY <1>5, <1>7, <1>10, <3>1, <4>2 DEF CopyOf
    <3>2. CASE g # f
      BY <1>2, <1>7, <1>10, <2>2, <3>2 DEF CopyOf
    <3> QED
      BY <3>1, <3>2
  <2> QED
    BY <1>10, <2>1, <2>2 DEF CopiesKept
<1>12. trouble' = 0 => \A g \in torn' \ crossed : g \in torn /\ ~(run[h].open # "no" /\ Step(h).f = g)
  <2>1. run[h].open = "crossed" => f \in crossed
    BY <1>1 DEF SInv, OpenInv, OpenOK
  <2> QED
    BY <1>2, <2>1
<1>13. w \subseteq FilesOf(Step(h)) /\ Step(h).op \in WriteOps /\ OnlyIn(w)
  BY <1>1, <1>3, <1>7 DEF WriteOps, OnlyIn
<1> HIDE DEF w, x, t
<1> QED
  BY <1>1, <1>2, <1>3, <1>8, <1>9, <1>11, <1>12, <1>13, GoingOnKeeps

\* A file, table or directory changes in one piece.
LEMMA ChangeKeeps ==
  ASSUME SInv, NEW h \in Helpers, ChangeInOnePiece(h)
  PROVE  SInv'
<1> DEFINE w == FilesOf(Step(h))
           t == run[h].pc + Step(h).next
           mem == run[h].mem
           x == IF At(h, "swap") THEN Recorded(h) ELSE excused
<1>1. Running(h) /\ Step(h).op \in {"put", "swap", "unpack", "wipe"}
  BY DEF ChangeInOnePiece, At
<1>2. /\ Continue(h, t, mem, w, x) /\ torn' = torn \ w
      /\ disk' = [f \in Files |-> IF f \in w THEN After(h, f) ELSE disk[f]]
      /\ UNCHANGED <<crossed, started, trouble>>
  BY DEF ChangeInOnePiece, Onward, history
<1>3. /\ t \in Jumps(Prog(h), run[h].pc) /\ w \subseteq Files /\ IsFiniteSet(Step(h).add)
      /\ CopiesOfFiles(mem) /\ run[h].open = "no"
  BY <1>1, AtStep
<1>4. ASSUME NEW f \in Files PROVE IsFiniteSet(After(h, f))
  <2> DEFINE held == Held(h, Step(h).f).val
             part == {y \in held : y[1] = f[1]}
             fn == [y \in part |-> y[2]]
  <2>1. IsFiniteSet(held) /\ IsFiniteSet(NewValue(h)) /\ IsFiniteSet(disk[f])
    BY <1>1, NewFinite, SeenFinite
  <2>2. IsFiniteSet((disk[f] \ Step(h).del) \cup Step(h).add)
    BY <1>3, <2>1, FS_Difference, FS_Union
  <2>3. IsFiniteSet({y[2] : y \in part})
    <3>1. part \in SUBSET held
      OBVIOUS
    <3>2. IsFiniteSet(part)
      <4> HIDE DEF part, held
      <4> QED
        BY <2>1, <3>1, FS_Subset
    <3>3. IsFiniteSet({fn[y] : y \in part})
      <4> HIDE DEF part
      <4> QED
        BY <3>2, FiniteImage
    <3> QED
      BY <3>3
  <2>4. IsFiniteSet({})
    BY FS_EmptySet
  <2> DEFINE a1 == (disk[f] \ Step(h).del) \cup Step(h).add
             a2 == NewValue(h)
             a3 == {y[2] : y \in part} \cup (disk[f] \cap Step(h).add)
  <2>5. After(h, f) = CASE Step(h).op = "put" -> a1
                        [] Step(h).op = "swap" -> a2
                        [] Step(h).op = "unpack" -> a3
                        [] OTHER -> {}
    BY DEF After
  <2>6. IsFiniteSet(a1) /\ IsFiniteSet(a2) /\ IsFiniteSet(a3)
    <3>1. IsFiniteSet(disk[f] \cap Step(h).add)
      BY <2>1, FS_Subset
    <3> QED
      BY <2>1, <2>2, <2>3, <3>1, FS_Union
  <2> HIDE DEF a1, a2, a3
  <2>7. After(h, f) \in {a1, a2, a3, {}}
    BY <2>5
  <2> QED
    BY <2>4, <2>6, <2>7
<1>5. DiskInv
  BY DEF SInv
<1>6. x \in SUBSET Files
  <2>1. At(h, "swap") => Step(h).f \in Files
    BY <1>1, AtStep DEF At
  <2> QED
    BY <1>1, <1>5, <2>1, RecordedFiles DEF DiskInv
<1>7. Step(h).op \in WriteOps /\ Step(h).op \in Blind /\ Step(h).op \notin Reading \cup Copying
  BY <1>1 DEF WriteOps, Blind, Reading, Copying
<1> HIDE DEF x
<1>8. OwnFiles(h)
  <2>1. excused' \subseteq Files
    BY <1>2, <1>6, ExcusesFiles
  <2>2. DOMAIN disk' = Files /\ \A f \in Files : IsFiniteSet(disk'[f])
    BY <1>2, <1>4, <1>5 DEF DiskInv
  <2> QED
    BY <1>2, <1>5, <1>7, <2>1, <2>2 DEF OwnFiles, DiskInv
<1>9. CopiesKept(h, t, mem)
  <2>1. ASSUME NEW f \in Files, f \notin FilesOf(Step(h)) PROVE disk'[f] = disk[f]
    BY <1>2, <2>1
  <2> QED
    BY <1>2, <1>7, <2>1 DEF CopiesKept
<1>10. trouble' = 0 => \A f \in torn' \ crossed : f \in torn /\ ~(run[h].open # "no" /\ Step(h).f = f)
  BY <1>2, <1>3
<1> HIDE DEF t, mem
<1>11. w \subseteq FilesOf(Step(h)) /\ OnlyIn(w)
  BY <1>2 DEF OnlyIn
<1> HIDE DEF w
<1> QED
  BY <1>1, <1>2, <1>3, <1>7, <1>8, <1>9, <1>10, <1>11, GoingOnKeeps

\* nginx and postfix read their files again.
LEMMA ReloadKeeps ==
  ASSUME SInv, NEW h \in Helpers, ReloadService(h)
  PROVE  SInv'
<1> DEFINE s == Step(h)
           f == s.f
           w == {f}
           t == run[h].pc + s.next
           mem == run[h].mem
           kept == IF f = Served THEN {} ELSE {y \in disk[f] : y[1] \notin {g[1] : g \in s.src}}
           value == kept \cup Derived(f, s.src, Seen)
           x == IF f = Served THEN excused \ {f} ELSE excused
<1>1. Running(h) /\ s.op = "reload"
  BY DEF ReloadService, At
<1>2. /\ Continue(h, t, mem, w, x) /\ disk' = [disk EXCEPT ![f] = value]
      /\ UNCHANGED <<torn, crossed, started, trouble>>
  BY DEF ReloadService, Onward, history
<1>3. /\ t \in Jumps(Prog(h), run[h].pc) /\ f \in Files /\ FilesOf(s) = {f} /\ s.src \subseteq Files
      /\ IsFiniteSet(s.src) /\ CopiesOfFiles(mem) /\ run[h].open = "no"
  BY <1>1, AtStep
<1>4. DiskInv
  BY DEF SInv
<1>5. IsFiniteSet(value)
  <2>1. \A g \in Files : IsFiniteSet(Seen[g]) /\ IsFiniteSet(disk[g])
    BY SeenFinite
  <2>2. \A g \in s.src \cup ComputedFrom(f) : IsFiniteSet(Seen[g])
    BY <1>3, <2>1, FilesAssumption
  <2>3. IsFiniteSet(Derived(f, s.src, Seen))
    BY <1>3, <2>2, DerivedFinite
  <2>4. kept \in SUBSET disk[f] /\ IsFiniteSet(disk[f])
    BY <1>3, <2>1
  <2>5. IsFiniteSet(kept)
    <3> HIDE DEF kept
    <3> QED
      BY <2>4, FS_Subset
  <2> QED
    BY <2>3, <2>5, FS_Union
<1>6. x \in SUBSET Files
  BY <1>4 DEF DiskInv
<1>7. s.op \in WriteOps /\ s.op \in Blind /\ s.op \notin Reading \cup Copying
  BY <1>1 DEF WriteOps, Blind, Reading, Copying
<1> HIDE DEF x, value
<1>8. disk'[f] = value /\ \A g \in Files : g # f => disk'[g] = disk[g]
  BY <1>2, <1>3, <1>4 DEF DiskInv
<1>9. OwnFiles(h)
  <2>1. excused' \subseteq Files
    BY <1>2, <1>6, ExcusesFiles
  <2>2. DOMAIN disk' = Files /\ \A g \in Files : IsFiniteSet(disk'[g])
    BY <1>2, <1>4, <1>5, <1>8 DEF DiskInv
  <2> QED
    BY <1>2, <1>3, <1>4, <1>7, <1>8, <2>1, <2>2 DEF OwnFiles, DiskInv
<1>10. CopiesKept(h, t, mem)
  BY <1>2, <1>3, <1>7, <1>8 DEF CopiesKept
<1>11. trouble' = 0 => \A g \in torn' \ crossed : g \in torn /\ ~(run[h].open # "no" /\ Step(h).f = g)
  BY <1>2, <1>3
<1>12. w \subseteq FilesOf(Step(h)) /\ OnlyIn(w)
  BY <1>3, <1>8 DEF OnlyIn
<1> HIDE DEF t, mem, w
<1> QED
  BY <1>1, <1>2, <1>3, <1>7, <1>9, <1>10, <1>11, <1>12, GoingOnKeeps

\* A failure skips the block or ends the command.
LEMMA GiveUpKeeps ==
  ASSUME SInv, NEW h \in Helpers, Running(h), GiveUp(h), UNCHANGED <<disk, torn, crossed, started>>,
         trouble' \in 0..MaxTrouble, trouble' = 0 => trouble = 0 /\ run[h].open = "no",
         Step(h).op \in Reading => ~(Step(h).op = "read" /\ Step(h).need = {} /\ Step(h).bar = {})
  PROVE  SInv'
<1> DEFINE t == run[h].pc + Step(h).catch
           x == excused \cup (Ahead(h, run[h].pc) \ Certain[run[h].cmd][t])
<1>1. CASE Step(h).catch > 0
  <2>1. Continue(h, t, run[h].mem, {}, x)
    BY <1>1 DEF GiveUp
  <2>2. t \in Jumps(Prog(h), run[h].pc) /\ run[h].pc \in Nat \ {0} /\ run[h].cmd \in Command
    BY <1>1, AtStep
  <2>3. x \in SUBSET Files
    BY <2>2, AheadFiles DEF SInv, DiskInv
  <2> HIDE DEF x
  <2> QED
    BY <1>1, <2>1, <2>2, <2>3, PassingKeeps
<1>2. CASE ~(Step(h).catch > 0)
  BY <1>2, EndingKeeps DEF GiveUp
<1> QED
  BY <1>1, <1>2

\* A step fails, a script exits with an error.
LEMMA FailKeeps ==
  ASSUME SInv, NEW h \in Helpers, FailStep(h) \/ ExitNonzero(h)
  PROVE  SInv'
<1>1. trouble \in 0..MaxTrouble /\ MaxTrouble \in Nat
  BY InstanceAssumption DEF SInv, DiskInv
<1>2. Running(h) /\ GiveUp(h) /\ UNCHANGED <<disk, torn, crossed, started>>
  BY DEF FailStep, ExitNonzero, Troubled, Reads, At, history
<1>3. CASE FailStep(h)
  <2>1. trouble' = trouble + 1 /\ trouble < MaxTrouble /\ Step(h).op \in WriteOps \cup {"run", "render", "copy"}
    BY <1>3 DEF FailStep, Troubled
  <2>2. trouble' \in 0..MaxTrouble /\ trouble' # 0
    BY <1>1, <2>1
  <2>3. Step(h).op \notin Reading
    BY <2>1 DEF WriteOps, Reading
  <2> QED
    BY <1>2, <2>2, <2>3, GiveUpKeeps
<1>4. CASE ExitNonzero(h)
  <2>1. trouble' = trouble
    BY <1>4 DEF ExitNonzero
  <2>2. \/ Step(h).op \in {"read", "parse"} /\ ~Acceptable(h)
        \/ Step(h).op \in {"resolve", "throw"}
    BY <1>4 DEF ExitNonzero, Reads, At
  <2>3. run[h].open = "no"
    BY <1>2, <2>2, AtStep
  <2>4. ~(Step(h).op = "read" /\ Step(h).need = {} /\ Step(h).bar = {})
    BY <2>2 DEF Acceptable
  <2> QED
    BY <1>1, <1>2, <2>1, <2>3, <2>4, GiveUpKeeps
<1> QED
  BY <1>3, <1>4

\* A command refuses, or its process is killed.
LEMMA RefusalKeeps ==
  ASSUME SInv, NEW h \in Helpers, UnknownDomain(h) \/ NotAcceptable(h) \/ Kill(h)
  PROVE  SInv'
<1>1. trouble \in 0..MaxTrouble /\ MaxTrouble \in Nat
  BY InstanceAssumption DEF SInv, DiskInv
<1>2. Running(h) /\ Stop(h) /\ UNCHANGED <<disk, torn, crossed, started>>
  BY DEF UnknownDomain, NotAcceptable, Refuse, Kill, Troubled, Reads, At, history
<1>3. CASE Kill(h)
  <2>1. trouble' \in 0..MaxTrouble /\ trouble' # 0
    BY <1>1, <1>3 DEF Kill, Troubled
  <2> QED
    BY <1>2, <2>1, EndingKeeps
<1>4. CASE UnknownDomain(h) \/ NotAcceptable(h)
  <2>1. trouble' = trouble /\ Step(h).op # "save"
    BY <1>4 DEF UnknownDomain, NotAcceptable, Refuse, Reads, At
  <2>2. run[h].open = "no"
    BY <1>2, <2>1, AtStep
  <2> QED
    BY <1>1, <1>2, <2>1, <2>2, EndingKeeps
<1> QED
  BY <1>3, <1>4

\* A command begins with its first step.
LEMMA LandsFirst ==
  ASSUME NEW c \in Command
  PROVE  Landing(Program[c], 1, <<>>) = 1
<1> DEFINE p == Program[c]
           later == {k \in 1..Len(p) : Performed(p[k], <<>>)}
<1>1. Len(p) \in Nat \ {0} /\ p[1].has = {}
  BY ProgramFacts
<1>2. Performed(p[1], <<>>)
  BY <1>1 DEF Performed, Holds
<1>3. 1 \in later /\ \A k \in later : 1 <= k
  BY <1>1, <1>2
<1>4. \A j \in later : (\A k \in later : j <= k) => j = 1
  BY <1>1, <1>3
<1>5. Landing(p, 1, <<>>) = CHOOSE j \in later : \A k \in later : j <= k
  BY <1>3 DEF Landing
<1> HIDE DEF later
<1> QED
  BY <1>3, <1>4, <1>5

\* The panel starts a command.
LEMMA StartKeeps ==
  ASSUME SInv, NEW h \in Helpers, NEW c \in Command, Start(h, c)
  PROVE  SInv'
<1> DEFINE p == Program[c]
           others == {Program[run[g].cmd] : g \in {k \in Helpers : Running(k)}}
           new == UNION {(Uses(p) \cap Writes(q)) \cup (Writes(p) \cap Uses(q)) : q \in others}
           r == [Idle EXCEPT !.cmd = c, !.nr = started + 1, !.pc = Landing(p, 1, <<>>), !.out = LoggedOutOnFile(c)]
<1>1. /\ ~Running(h) /\ started < MaxCommands /\ started' = started + 1
      /\ crossed' = crossed \cup new /\ run' = [run EXCEPT ![h] = r]
      /\ UNCHANGED <<disk, torn, excused, trouble>>
  BY DEF Start
<1>2. DOMAIN run = Helpers
  BY DEF SInv, RunInv
<1>3. /\ DOMAIN r = DOMAIN Idle /\ r.cmd = c /\ r.pc = 1 /\ r.mem = <<>> /\ r.open = "no"
  BY LandsFirst DEF Idle
<1>4. Len(p) \in Nat \ {0} /\ p[1].has = {}
  BY ProgramFacts
<1>5. ASSUME NEW g \in Helpers, g # h
      PROVE  /\ run'[g] = run[g] /\ (Running(g)' <=> Running(g)) /\ Prog(g)' = Prog(g) /\ Step(g)' = Step(g)
  BY <1>1, <1>2, <1>5 DEF Running, Prog, Step
<1> HIDE DEF r, new
<1>6. run'[h] = r /\ DOMAIN run' = Helpers
  BY <1>1, <1>2
<1>7. Running(h)' /\ Prog(h)' = p /\ Step(h)' = p[1]
  <2>1. r # Idle
    BY <1>3 DEF Idle
  <2> QED
    BY <1>3, <1>6, <2>1 DEF Running, Prog, Step
<1>8. RunOK(h)'
  <2>1. Performed(p[1], <<>>)
    BY <1>4 DEF Performed, Holds
  <2> QED
    BY <1>3, <1>4, <1>6, <1>7, <2>1 DEF RunOK
<1>9. RunInv'
  <2>1. ASSUME NEW g \in Helpers, g # h PROVE RunOK(g)'
    <3>1. RunOK(g)
      BY DEF SInv, RunInv
    <3> QED
      BY <1>5, <2>1, <3>1 DEF RunOK
  <2> QED
    BY <1>6, <1>8, <2>1 DEF RunInv
<1>10. MemInv'
  <2>1. CopiesOfFiles(run'[h].mem)
    BY <1>3, <1>6 DEF CopiesOfFiles
  <2>2. ASSUME NEW g \in Helpers, g # h, Running(g)' PROVE CopiesOfFiles(run'[g].mem)
    BY <1>5, <2>2 DEF SInv, MemInv
  <2>3. \A g \in Helpers : Running(g)' => CopiesOfFiles(run'[g].mem)
    BY <2>1, <2>2
  <2> QED
    BY <2>3 DEF MemInv, CopiesOfFiles
<1>11. crossed' \subseteq Files
  <2>1. Uses(p) \subseteq Files
    BY <1>4, StepFiles
  <2>2. ASSUME NEW g \in Helpers, Running(g) PROVE Uses(Program[run[g].cmd]) \subseteq Files
    <3>1. run[g].cmd \in Command /\ run[g].pc \in 1..Len(Program[run[g].cmd])
      BY <2>2, AtStep DEF Prog
    <3> QED
      BY <3>1, StepFiles
  <2>3. new \subseteq Files
    BY <2>1, <2>2 DEF new
  <2> QED
    BY <1>1, <2>3 DEF SInv, DiskInv
<1>12. DiskInv'
  <2>1. started \in 0..MaxCommands /\ MaxCommands \in Nat
    BY InstanceAssumption DEF SInv, DiskInv
  <2>2. started' \in 0..MaxCommands
    BY <1>1, <2>1
  <2> QED
    BY <1>1, <1>11, <2>2 DEF SInv, DiskInv
<1>13. CrossedInv'
  <2>1. ASSUME NEW g \in Helpers, g # h, Running(g)
        PROVE  Uses(Prog(g)) \cap Writes(p) \subseteq crossed' /\ Uses(p) \cap Writes(Prog(g)) \subseteq crossed'
    BY <1>1, <2>1 DEF new, Prog
  <2>2. ASSUME NEW g \in Helpers, NEW k \in Helpers, g # k, g # h, k # h, Running(g), Running(k)
        PROVE  Uses(Prog(g)) \cap Writes(Prog(k)) \subseteq crossed'
    BY <1>1, <2>2 DEF SInv, CrossedInv
  <2>3. ASSUME NEW g \in Helpers, NEW k \in Helpers, g # k, Running(g)', Running(k)'
        PROVE  Uses(Prog(g)') \cap Writes(Prog(k)') \subseteq crossed'
    <3>1. CASE g = h
      BY <1>5, <1>7, <2>1, <2>3, <3>1
    <3>2. CASE k = h
      BY <1>5, <1>7, <2>1, <2>3, <3>2
    <3>3. CASE g # h /\ k # h
      BY <1>5, <2>2, <2>3, <3>3
    <3> QED
      BY <3>1, <3>2, <3>3
  <2> QED
    BY <2>3 DEF CrossedInv
<1>14. TornInv'
  <2> SUFFICES ASSUME trouble = 0, NEW f \in torn \ crossed
               PROVE  \E g \in Helpers : Running(g)' /\ run'[g].open # "no" /\ Step(g)'.f = f
    BY <1>1 DEF TornInv
  <2>1. PICK g \in Helpers : Running(g) /\ run[g].open # "no" /\ Step(g).f = f
    BY DEF SInv, TornInv
  <2>2. g # h
    BY <1>1, <2>1
  <2> QED
    BY <1>5, <2>1, <2>2
<1>15. OpenInv'
  <2>1. OpenOK(h)'
    BY <1>3, <1>6 DEF OpenOK
  <2>2. ASSUME NEW g \in Helpers, g # h PROVE OpenOK(g)'
    <3>1. OpenOK(g)
      BY DEF SInv, OpenInv
    <3> QED
      BY <1>1, <1>5, <2>2, <3>1 DEF OpenOK
  <2> QED
    BY <2>1, <2>2 DEF OpenInv
<1>16. CopyInv'
  <2>1. CopyOK(h)'
    <3>1. run'[h].pc = 1 /\ Prog(h)' = p
      BY <1>3, <1>6, <1>7
    <3> QED
      BY <1>4, <3>1 DEF CopyOK
  <2>2. ASSUME NEW g \in Helpers, g # h, Running(g)' PROVE CopyOK(g)'
    <3>1. CopyOK(g)
      BY <1>5, <2>2 DEF SInv, CopyInv
    <3>2. disk' = disk /\ trouble' = trouble /\ crossed \subseteq crossed'
      BY <1>1
    <3> QED
      BY <1>5, <2>2, <3>1, <3>2 DEF CopyOK, CopyOf, Doubt
  <2> QED
    BY <2>1, <2>2 DEF CopyInv
<1> QED
  BY <1>9, <1>10, <1>12, <1>13, <1>14, <1>15, <1>16 DEF SInv

-----------------------------------------------------------------------------
(* The server when the instance begins.                                    *)

\* Sets written out.
LEMMA Few ==
  ASSUME NEW a, NEW b, NEW c
  PROVE  IsFiniteSet({a}) /\ IsFiniteSet({a, b}) /\ IsFiniteSet({a, b, c})
<1>1. IsFiniteSet({a}) /\ IsFiniteSet({b}) /\ IsFiniteSet({c})
  BY FS_Singleton
<1>2. IsFiniteSet({a} \cup {b}) /\ IsFiniteSet({a} \cup {b} \cup {c})
  BY <1>1, FS_Union
<1>3. {a, b} = {a} \cup {b} /\ {a, b, c} = {a} \cup {b} \cup {c}
  OBVIOUS
<1> QED
  BY <1>1, <1>2, <1>3

\* Marks on the members of a finite set.
LEMMA Marks ==
  ASSUME NEW S, IsFiniteSet(S), NEW a
  PROVE  /\ IsFiniteSet({<<a, x>> : x \in S}) /\ IsFiniteSet({<<x, a>> : x \in S})
         /\ IsFiniteSet({<<a, x, x>> : x \in S})
<1> DEFINE f1 == [x \in S |-> <<a, x>>]
           f2 == [x \in S |-> <<x, a>>]
           f3 == [x \in S |-> <<a, x, x>>]
<1>1. IsFiniteSet({f1[x] : x \in S}) /\ IsFiniteSet({f2[x] : x \in S}) /\ IsFiniteSet({f3[x] : x \in S})
  <2> HIDE DEF f1, f2, f3
  <2>1. DOMAIN f1 = S /\ DOMAIN f2 = S /\ DOMAIN f3 = S
    BY DEF f1, f2, f3
  <2> QED
    BY <2>1, FiniteImage
<1>2. /\ {f1[x] : x \in S} = {<<a, x>> : x \in S} /\ {f2[x] : x \in S} = {<<x, a>> : x \in S}
      /\ {f3[x] : x \in S} = {<<a, x, x>> : x \in S}
  OBVIOUS
<1> QED
  BY <1>1, <1>2

\* The names of the files that hold items from the start.
LEMMA StockedFinite == IsFiniteSet(Stocked)
<1> DEFINE a == {"redirects.json", "proxies.json", "php.json"}
           b == {"protected.json", ".htaccess", ".htpasswd"}
           c == {"scripts.json", "public_html", "aliases.json"}
           d == {"crontab", ".user.ini", "git-deploy.json"}
           e == {"newsletter-campaigns.json", "newsletter-subscribers.json", "mailbox-autoreply.json"}
           f == {"authorized_keys", "support-tickets.json", "billing-invoices.json"}
<1>1. /\ IsFiniteSet(a) /\ IsFiniteSet(b) /\ IsFiniteSet(c)
      /\ IsFiniteSet(d) /\ IsFiniteSet(e) /\ IsFiniteSet(f)
  BY Few
<1>2. Stocked = a \cup b \cup c \cup d \cup e \cup f
  BY DEF Stocked
<1> HIDE DEF a, b, c, d, e, f
<1> QED
  BY <1>1, <1>2, FS_Union

\* What the stores of the panel hold.
LEMMA StoresFinite ==
  /\ IsFiniteSet({Account(x) : x \in Items}) /\ IsFiniteSet({Admin(x) : x \in Administrators})
  /\ IsFiniteSet(ClientDomains) /\ IsFiniteSet({Totp(UserOf[s]) : s \in Clients})
  /\ IsFiniteSet({Token(x, x) : x \in Items}) /\ IsFiniteSet({Key(x) : x \in Items})
  /\ IsFiniteSet({KeyHint(x) : x \in Present}) /\ IsFiniteSet({Features(x) : x \in Present})
  /\ IsFiniteSet({Device(x) : x \in Items}) /\ IsFiniteSet({Project(x) : x \in Present})
  /\ IsFiniteSet({Plan(x) : x \in Present}) /\ IsFiniteSet({<<"done", s>> : s \in Sessions})
<1>1. /\ IsFiniteSet(Domains) /\ IsFiniteSet(Items) /\ IsFiniteSet(Hosted) /\ IsFiniteSet(Present)
      /\ IsFiniteSet(Sessions) /\ UserOf \in [Sessions -> Items] /\ Claims \in [Sessions -> SUBSET Domains]
      /\ Admins \subseteq Sessions
  BY DomainsAssumption, InstanceAssumption, SessionsAssumption
<1>2. Administrators \in SUBSET Items
  BY <1>1 DEF Administrators
<1>3. IsFiniteSet(Administrators)
  BY <1>1, <1>2, FS_Subset
<1> DEFINE users == {UserOf[s] : s \in Clients}
<1>4. IsFiniteSet(users)
  <2>1. users \in SUBSET Items
    BY <1>1 DEF Clients
  <2> HIDE DEF users
  <2> QED
    BY <1>1, <2>1, FS_Subset
<1>5. IsFiniteSet({Totp(u) : u \in users})
  <2> HIDE DEF users
  <2> QED
    BY <1>4, Marks DEF Totp
<1>6. {Totp(u) : u \in users} = {Totp(UserOf[s]) : s \in Clients}
  OBVIOUS
<1>7. IsFiniteSet(ClientDomains)
  <2>1. CASE Sessions = {}
    <3>1. ClientDomains = Present \X Hosted
      BY <2>1 DEF ClientDomains
    <3> QED
      BY <1>1, <3>1, FS_Product
  <2>2. CASE Sessions # {}
    <3> DEFINE own == UNION {{UserOf[s]} \X Claims[s] : s \in Clients}
    <3>1. own \in SUBSET (Items \X Domains)
      BY <1>1 DEF Clients
    <3>2. IsFiniteSet({Client(u) : u \in users})
      <4> HIDE DEF users
      <4> QED
        BY <1>4, Marks DEF Client
    <3>3. ClientDomains = {Client(u) : u \in users} \cup own
      BY <2>2 DEF ClientDomains
    <3> HIDE DEF own, users
    <3>4. IsFiniteSet(own)
      BY <1>1, <3>1, FinitePairs
    <3> QED
      BY <3>2, <3>3, <3>4, FS_Union
  <2> QED
    BY <2>1, <2>2
<1> HIDE DEF users
<1>8. /\ IsFiniteSet({Account(x) : x \in Items}) /\ IsFiniteSet({Admin(x) : x \in Administrators})
      /\ IsFiniteSet({Token(x, x) : x \in Items}) /\ IsFiniteSet({Key(x) : x \in Items})
  BY <1>1, <1>3, Marks DEF Account, Admin, Token, Key
<1>9. /\ IsFiniteSet({KeyHint(x) : x \in Present}) /\ IsFiniteSet({Features(x) : x \in Present})
      /\ IsFiniteSet({Device(x) : x \in Items}) /\ IsFiniteSet({Project(x) : x \in Present})
  BY <1>1, Marks DEF KeyHint, Features, Device, Project
<1>10. IsFiniteSet({Plan(x) : x \in Present}) /\ IsFiniteSet({<<"done", s>> : s \in Sessions})
  BY <1>1, Marks DEF Plan
<1> QED
  BY <1>5, <1>6, <1>7, <1>8, <1>9, <1>10

\* A file computed from others: what it is computed from.
LEMMA BasisFacts ==
  ASSUME NEW f, Basis(f) # {}
  PROVE  Basis(f) = ComputedFrom(f) /\ IsFiniteSet(Basis(f))
<1>1. f # Served /\ f # Vmailbox
  <2>1. Basis(Served) = {} /\ Basis(Vmailbox) = {}
    BY DEF Basis, Served, Vmailbox, AliasMap, DomainMap, BackupCron, Sys
  <2> QED
    BY <2>1
<1>2. Basis(f) = ComputedFrom(f)
  BY <1>1 DEF ComputedFrom
<1>3. IsFiniteSet(Domains)
  BY DomainsAssumption
<1>4. IsFiniteSet(VhostSources(f[2]))
  <2> DEFINE r == Redirects(f[2])
             p == Proxies(f[2])
             w == Website(f[2])
             m == Modsecurity(f[2])
             c == Cert(f[2])
  <2>1. VhostSources(f[2]) = {r, p, w} \cup {m, c}
    BY DEF VhostSources
  <2> HIDE DEF r, p, w, m, c
  <2>2. IsFiniteSet({r, p, w}) /\ IsFiniteSet({m, c})
    BY Few
  <2> QED
    BY <2>1, <2>2, FS_Union
<1>5. IsFiniteSet({Php(f[2])}) /\ IsFiniteSet({Registry})
  BY FS_Singleton
<1>6. IsFiniteSet(CronSources)
  <2>1. IsFiniteSet({Schedule(d) : d \in Domains})
    BY <1>3, Marks DEF Schedule, Cfg
  <2> QED
    BY <1>5, <2>1, FS_Union DEF CronSources
<1>7. IsFiniteSet(AliasSources)
  <2>1. IsFiniteSet({Aliases(d) : d \in Domains}) /\ IsFiniteSet({MailSettings(d) : d \in Domains})
    BY <1>3, Marks DEF Aliases, MailSettings, Cfg
  <2>2. AliasSources = {Registry} \cup {Aliases(d) : d \in Domains} \cup {MailSettings(d) : d \in Domains}
    BY DEF AliasSources
  <2> QED
    BY <1>5, <2>1, <2>2, FS_Union
<1>8. Basis(f) \in {VhostSources(f[2]), {Php(f[2])}, AliasSources, {Registry}, CronSources}
  BY Zenon DEF Basis
<1> QED
  BY <1>2, <1>4, <1>5, <1>6, <1>7, <1>8

\* What a file holds at the beginning is finite.
LEMMA SourceFinite ==
  ASSUME NEW f
  PROVE  IsFiniteSet(Source(f))
<1> DEFINE own == IF f[2] \in Hosted THEN SourceOf(f) ELSE {}
           a1 == {Row(d) : d \in Hosted}
           a2 == {User(d) : d \in Hosted} \cup Present
           a3 == {Account(x) : x \in Items} \cup {Admin(x) : x \in Administrators} \cup ClientDomains
                   \cup {Totp(UserOf[s]) : s \in Clients}
           a4 == {Token(x, x) : x \in Items}
           a5 == {Key(x) : x \in Items}
           a6 == {Stored, Active} \cup {KeyHint(x) : x \in Present}
           a7 == {<<"setting", Host>>} \cup {Features(x) : x \in Present}
           a8 == {Device(x) : x \in Items}
           a9 == {Project(x) : x \in Present}
           b1 == {Plan(x) : x \in Present}
           b2 == IF f[2] \in Present THEN {JobMeta, JobEnded} ELSE {}
           b3 == {<<"done", s>> : s \in Sessions}
           b4 == IF Sessions = {} THEN {} ELSE {Row(d) : d \in {e \in Hosted : Owner[e] = f[2]}}
           b5 == IF Sessions = {} THEN {} ELSE {Full} \cup (Stocked \X Present)
           b6 == {<<"app", "wordpress">>}
           b7 == {<<"enabled", "true">>, <<"listId", "default">>}
           b8 == Present \cup {Default(x) : x \in Present}
           b9 == IF Owned(f[2]) THEN Present ELSE {}
           c1 == Present \cup {Soa, Mx(f[2]), MailA(f[2])}
           c2 == {Row(f[2])}
           c3 == IF f[1] \in Stocked \/ (f[1] \in {"homes", "maildir"} /\ Sessions # {}) THEN Present ELSE {}
<1>1. IsFiniteSet(Hosted) /\ IsFiniteSet(Present) /\ IsFiniteSet({})
  BY InstanceAssumption, FS_EmptySet
<1>2. IsFiniteSet(a1)
  BY <1>1, Marks DEF Row
<1>3. IsFiniteSet(a2)
  <2> DEFINE user == [d \in Hosted |-> User(d)]
             users == {user[d] : d \in Hosted}
  <2>1. IsFiniteSet(users)
    <3> HIDE DEF user
    <3>1. DOMAIN user = Hosted
      BY DEF user
    <3> QED
      BY <1>1, <3>1, FiniteImage
  <2>2. a2 = users \cup Present
    OBVIOUS
  <2> HIDE DEF users, a2
  <2> QED
    BY <1>1, <2>1, <2>2, FS_Union
<1>4. IsFiniteSet(a3)
  BY StoresFinite, FS_Union
<1>5. /\ IsFiniteSet(a4) /\ IsFiniteSet(a5) /\ IsFiniteSet(a8) /\ IsFiniteSet(a9)
      /\ IsFiniteSet(b1) /\ IsFiniteSet(b3)
  BY StoresFinite
<1>6. IsFiniteSet({Stored, Active}) /\ IsFiniteSet({<<"setting", Host>>}) /\ IsFiniteSet({Full})
  BY FS_Singleton, Few
<1>7. IsFiniteSet(a6) /\ IsFiniteSet(a7)
  BY <1>6, StoresFinite, FS_Union
<1>8. IsFiniteSet({JobMeta, JobEnded}) /\ IsFiniteSet({Soa, Mx(f[2]), MailA(f[2])})
  <2> DEFINE mx == Mx(f[2])
             ma == MailA(f[2])
  <2> HIDE DEF mx, ma
  <2>1. IsFiniteSet({Soa, mx, ma})
    BY Few
  <2> QED
    BY <2>1, Few DEF mx, ma
<1>9. IsFiniteSet(b6) /\ IsFiniteSet(b7) /\ IsFiniteSet(c2)
  <2> DEFINE row == Row(f[2])
  <2> HIDE DEF row
  <2>1. IsFiniteSet({row})
    BY Few
  <2> QED
    BY <2>1, Few DEF row
<1>10. IsFiniteSet(b2) /\ IsFiniteSet(b9) /\ IsFiniteSet(c3)
  BY <1>1, <1>8
<1>11. IsFiniteSet(b4)
  <2>1. {Row(d) : d \in {e \in Hosted : Owner[e] = f[2]}} \in SUBSET a1
    OBVIOUS
  <2> HIDE DEF a1
  <2> QED
    BY <1>1, <1>2, <2>1, FS_Subset
<1>12. IsFiniteSet(b5)
  <2>1. IsFiniteSet(Stocked \X Present)
    BY <1>1, StockedFinite, FS_Product
  <2> QED
    BY <1>1, <1>6, <2>1, FS_Union
<1>13. IsFiniteSet(b8)
  <2>1. IsFiniteSet({Default(x) : x \in Present})
    BY <1>1, Marks DEF Default
  <2> QED
    BY <1>1, <2>1, FS_Union
<1>14. IsFiniteSet(c1)
  BY <1>1, <1>8, FS_Union
<1>15. SourceOf(f) =
         CASE f[1] = "backups" -> b4
           [] f[1] = "archive" -> b5
           [] f[1] = "wp-config.php" -> b6
           [] f[1] = "contact-form.json" -> b7
           [] f[1] = "php.json" -> b8
           [] f[1] = "ftp.json" -> b9
           [] f[1] = "zone" -> c1
           [] f[1] \in {".qadbak-domain", "other panel"} -> c2
           [] OTHER -> c3
  BY DEF SourceOf
<1>16. Source(f) =
         CASE f \in {Registry, Linked} -> a1
           [] f = Passwd -> a2
           [] f = UsersJson -> a3
           [] f = Tokens -> a4
           [] f = ApiKeys -> a5
           [] f = License -> a6
           [] f = EnvFile -> a7
           [] f = PushTokens -> a8
           [] f = Docker -> a9
           [] f = PlanStore -> b1
           [] f = Servers -> Present
           [] f[1] = "update job" -> b2
           [] f = JournalFile -> b3
           [] OTHER -> own
  BY DEF Source
<1> HIDE DEF a1, a2, a3, a4, a5, a6, a7, a8, a9, b1, b2, b3, b4, b5, b6, b7, b8, b9, c1, c2, c3
<1>17. \/ SourceOf(f) = b4 \/ SourceOf(f) = b5 \/ SourceOf(f) = b6 \/ SourceOf(f) = b7 \/ SourceOf(f) = b8
       \/ SourceOf(f) = b9 \/ SourceOf(f) = c1 \/ SourceOf(f) = c2 \/ SourceOf(f) = c3
  BY <1>15, Zenon
<1>18. IsFiniteSet(own)
  BY <1>1, <1>9, <1>10, <1>11, <1>12, <1>13, <1>14, <1>17
<1> HIDE DEF own
<1>19. \/ Source(f) = a1 \/ Source(f) = a2 \/ Source(f) = a3 \/ Source(f) = a4 \/ Source(f) = a5
       \/ Source(f) = a6 \/ Source(f) = a7 \/ Source(f) = a8 \/ Source(f) = a9 \/ Source(f) = b1
       \/ Source(f) = b2 \/ Source(f) = b3 \/ Source(f) = Present \/ Source(f) = own
  BY <1>16, Zenon
<1> QED
  BY <1>1, <1>2, <1>3, <1>4, <1>5, <1>7, <1>10, <1>18, <1>19

\* In the beginning.
LEMMA InitInv ==
  ASSUME Init
  PROVE  SInv
<1>1. /\ run = [h \in Helpers |-> Idle] /\ torn = {} /\ excused = {} /\ crossed = {}
      /\ started = 0 /\ trouble = 0 /\ DOMAIN disk = Files
  BY DEF Init
<1>2. \A h \in Helpers : ~Running(h) /\ DOMAIN run[h] = DOMAIN Idle
  BY <1>1 DEF Running
<1>3. ASSUME NEW f \in Files PROVE IsFiniteSet(disk[f])
  <2> DEFINE src == [g \in Files |-> Source(g)]
             computed == [g \in Files |-> IF Basis(g) = {} THEN Source(g)
                                          ELSE Derived(g, Basis(g), src)]
  <2>1. ASSUME NEW g \in Files PROVE IsFiniteSet(computed[g])
    <3>1. CASE Basis(g) = {}
      BY <3>1, SourceFinite
    <3>2. CASE Basis(g) # {}
      <4>1. Basis(g) = ComputedFrom(g) /\ IsFiniteSet(Basis(g))
        BY <3>2, BasisFacts
      <4>2. \A e \in Basis(g) \cup ComputedFrom(g) : IsFiniteSet(src[e])
        BY <4>1, FilesAssumption, SourceFinite
      <4> QED
        BY <3>2, <4>1, <4>2, DerivedFinite
    <3> QED
      BY <3>1, <3>2
  <2> HIDE DEF computed
  <2>2. f = Served => IsFiniteSet(Loaded(computed))
    <3>1. ComputedFrom(Served) = {Linked} \cup {Conf(e) : e \in Domains}
      BY Zenon DEF ComputedFrom, Served, Vmailbox, Sys
    <3>2. f = Served => \A d \in Domains : IsFiniteSet(computed[Conf(d)])
      BY <2>1, <3>1, FilesAssumption
    <3> QED
      BY <3>2, LoadedFinite
  <2>3. f = Postfix => IsFiniteSet(Tagged(computed, Maps \cap Files))
    <3>1. IsFiniteSet({AliasMap, DomainMap, Vmailbox})
      BY Few
    <3>2. Maps \cap Files \in SUBSET Maps /\ IsFiniteSet(Maps)
      BY <3>1 DEF Maps
    <3>3. IsFiniteSet(Maps \cap Files)
      BY <3>2, FS_Subset
    <3> QED
      BY <2>1, <3>3, TaggedFinite
  <2>4. disk[f] = CASE f = Served -> Loaded(computed)
                    [] f = Postfix -> Tagged(computed, Maps \cap Files)
                    [] OTHER -> computed[f]
    BY DEF Init, computed
  <2>5. \/ f = Served /\ disk[f] = Loaded(computed)
        \/ f = Postfix /\ disk[f] = Tagged(computed, Maps \cap Files)
        \/ disk[f] = computed[f]
    BY <2>4, Zenon
  <2> QED
    BY <2>1, <2>2, <2>3, <2>5
<1>4. RunInv /\ MemInv /\ CrossedInv /\ TornInv /\ OpenInv /\ CopyInv
  BY <1>1, <1>2 DEF RunInv, RunOK, MemInv, CrossedInv, TornInv, OpenInv, OpenOK, CopyInv
<1>5. DiskInv
  BY <1>1, <1>3, InstanceAssumption DEF DiskInv
<1> QED
  BY <1>4, <1>5 DEF SInv

-----------------------------------------------------------------------------
(* The theorems.                                                           *)

\* Nothing happens.
LEMMA StutterKeeps ==
  ASSUME SInv, UNCHANGED vars
  PROVE  SInv'
<1>1. /\ disk' = disk /\ torn' = torn /\ run' = run /\ excused' = excused /\ crossed' = crossed
      /\ started' = started /\ trouble' = trouble
  BY DEF vars
<1>2. \A h : /\ Running(h)' <=> Running(h)
             /\ Prog(h)' = Prog(h) /\ Step(h)' = Step(h)
  BY <1>1 DEF Running, Prog, Step
<1>3. \A h : (RunOK(h) => RunOK(h)') /\ (OpenOK(h) => OpenOK(h)') /\ (CopyOK(h) => CopyOK(h)')
  BY <1>1, <1>2 DEF RunOK, OpenOK, CopyOK, CopyOf, Doubt
<1>4. RunInv' /\ OpenInv' /\ CopyInv'
  BY <1>1, <1>2, <1>3 DEF SInv, RunInv, OpenInv, CopyInv
<1>5. MemInv' /\ DiskInv'
  BY <1>1, <1>2 DEF SInv, MemInv, CopiesOfFiles, DiskInv
<1>6. CrossedInv' /\ TornInv'
  BY <1>1, <1>2 DEF SInv, CrossedInv, TornInv
<1> QED
  BY <1>4, <1>5, <1>6 DEF SInv

\* Every step of every process keeps the invariant.
LEMMA NextKeeps ==
  ASSUME SInv, [Next]_vars
  PROVE  SInv'
<1>1. CASE UNCHANGED vars
  BY <1>1, StutterKeeps
<1>2. CASE Next
  <2>1. PICK h \in Helpers : \/ \E c \in Command : Start(h, c)
                             \/ Proceed(h) \/ FailStep(h) \/ Kill(h)
    BY <1>2 DEF Next
  <2>2. CASE \E c \in Command : Start(h, c)
    BY <2>2, StartKeeps
  <2>3. CASE Proceed(h)
    <3>1. CASE ResolveDomainUser(h) \/ RunProgram(h)
      BY <3>1, ResolveKeeps
    <3>2. CASE ReadFile(h)
      BY <3>2, ReadKeeps
    <3>3. CASE RenderFile(h)
      BY <3>3, RenderKeeps
    <3>4. CASE StripConflicts(h)
      BY <3>4, StripKeeps
    <3>5. CASE OpenFile(h)
      BY <3>5, OpenKeeps
    <3>6. CASE WriteFile(h)
      BY <3>6, WriteKeeps
    <3>7. CASE ChangeInOnePiece(h)
      BY <3>7, ChangeKeeps
    <3>8. CASE ReloadService(h)
      BY <3>8, ReloadKeeps
    <3>9. CASE ExitNonzero(h)
      BY <3>9, FailKeeps
    <3>10. CASE UnknownDomain(h) \/ NotAcceptable(h)
      BY <3>10, RefusalKeeps
    <3> QED
      BY <2>3, <3>1, <3>2, <3>3, <3>4, <3>5, <3>6, <3>7, <3>8, <3>9, <3>10 DEF Proceed
  <2>4. CASE FailStep(h)
    BY <2>4, FailKeeps
  <2>5. CASE Kill(h)
    BY <2>5, RefusalKeeps
  <2> QED
    BY <2>1, <2>2, <2>3, <2>4, <2>5
<1> QED
  BY <1>1, <1>2

\* Whatever the processes do, copies between the step that reads and the one
\* that writes back are the files, unless two processes cross or a step fails.
THEOREM CopiesAreCurrent == Spec => []SInv
<1>1. Init => SInv
  BY InitInv
<1>2. SInv /\ [Next]_vars => SInv'
  BY NextKeeps
<1> QED
  BY <1>1, <1>2, PTL DEF Spec

\* The files hold finite sets, every process is at a step of its command, and
\* a file is open only at a step that writes it.
THEOREM TypeCorrect == Spec => []TypeOK
<1>1. SInv => TypeOK
  <2> SUFFICES ASSUME SInv PROVE TypeOK
    OBVIOUS
  <2>1. DiskInv
    BY DEF SInv
  <2>2. ASSUME NEW h \in Helpers, Running(h)
        PROVE  /\ run[h].cmd \in Command /\ run[h].pc \in 1..Len(Prog(h))
               /\ run[h].open \in {"no", "mine", "crossed"}
               /\ run[h].open # "no" => At(h, "save")
    BY <2>2 DEF SInv, RunInv, RunOK, At
  <2> QED
    BY <2>1, <2>2 DEF TypeOK, DiskInv
<1> QED
  BY <1>1, CopiesAreCurrent, PTL

\* A step that writes back what was read has a copy; it is the file, unless it is
\* out of date, or somebody else is at it, or something failed and the program
\* takes a file that is truncated for an empty one.
LEMMA HoldsCopy ==
  ASSUME SInv, NEW h \in Helpers, Running(h), WritesBack(Step(h))
  PROVE  LET f == Step(h).f
             val == run[h].mem[f].val
         IN  /\ f \in DOMAIN run[h].mem /\ Kept(h, Step(h)) = run[h].mem[f] /\ run[h].mem[f].src = {f}
             /\ ~run[h].mem[f].old => val = disk[f]
             /\ f \notin crossed => val \subseteq disk[f]
             /\ /\ f \notin crossed
                /\ trouble = 0 \/ \A i \in 1..Len(Prog(h)) : Prog(h)[i].f = f => Prog(h)[i].op # "read"
                => disk[f] \subseteq val
<1> DEFINE p == Prog(h)
           k == run[h].pc
           f == Step(h).f
           mem == run[h].mem
<1>1. run[h].cmd \in Command /\ k \in 1..Len(p) /\ k \in Nat \ {0}
  BY AtStep
<1>2. Performed(p[k], mem) /\ CopyOK(h)
  BY DEF SInv, RunInv, RunOK, CopyInv, Step
<1>3. Len(p) \in Nat /\ DOMAIN p = 1..Len(p) /\ ReadsFirst(p)
  BY <1>1, ProgramFacts DEF Prog
<1>4. PICK j \in 1..k - 1 : ReadFor(p, j, k)
  BY <1>1, <1>3 DEF ReadsFirst, Step
<1>5. Performed(p[j], mem)
  BY <1>2, <1>4 DEF ReadFor, Asks, Performed
<1>6. Pair(p, j, k) /\ j \in 1..Len(p) /\ j < k /\ k <= k
  BY <1>1, <1>3, <1>4 DEF Pair, Step
<1>7. CopyOf(mem, f, disk[f], Doubt(p[j]))
  BY <1>1, <1>2, <1>5, <1>6 DEF CopyOK, Step
<1>8. trouble = 0 \/ (\A i \in 1..Len(p) : p[i].f = f => p[i].op # "read") => Doubt(p[j]) = 0
  BY <1>4, <1>6 DEF Doubt, ReadFor, Step
<1>9. f \in DOMAIN mem
  BY <1>7 DEF CopyOf
<1>10. Kept(h, Step(h)) = mem[f]
  BY <1>9 DEF Kept, Held, WritesBack
<1> QED
  BY <1>7, <1>8, <1>9, <1>10 DEF CopyOf

\* Such a step loses nothing.
LEMMA WritesAll ==
  ASSUME SInv, NEW h \in Helpers, Running(h), WritesBack(Step(h)), Step(h).f \notin crossed, ~(trouble > 0)
  PROVE  disk[Step(h).f] \ Step(h).del \subseteq NewValue(h)
<1>1. trouble = 0
  BY InstanceAssumption DEF SInv, DiskInv
<1>2. disk[Step(h).f] \subseteq Kept(h, Step(h)).val
  BY <1>1, HoldsCopy
<1> QED
  BY <1>2 DEF NewValue

\* What a step of h does to a file of its own.
LEMMA OwnLosses ==
  ASSUME SInv, NEW h \in Helpers, Running(h), Proceed(h), NEW f \in FilesOf(Step(h)),
         f \notin crossed, ~(trouble > 0), NEW x \in disk[f] \ disk'[f]
  PROVE  Says(h, f, x)
<1>1. DOMAIN disk = Files /\ f \in Files
  BY AtStep DEF SInv, DiskInv
<1>2. CASE WriteFile(h)
  <2>1. Step(h).op = "save" /\ f = Step(h).f /\ disk'[f] = NewValue(h)
    BY <1>1, <1>2 DEF WriteFile, At, FilesOf
  <2>2. CASE Step(h).src # {f}
    BY <2>1, <2>2 DEF Says
  <2>3. CASE Step(h).src = {f}
    BY <2>1, <2>3, WritesAll DEF Says, WritesBack
  <2> QED
    BY <2>2, <2>3
<1>3. CASE ChangeInOnePiece(h)
  <2>1. Step(h).op \in {"put", "swap", "unpack", "wipe"} /\ disk'[f] = After(h, f)
    BY <1>1, <1>3 DEF ChangeInOnePiece, At
  <2>2. CASE Step(h).op = "put"
    <3>1. After(h, f) = (disk[f] \ Step(h).del) \cup Step(h).add
      BY <2>2 DEF After
    <3> QED
      BY <2>1, <3>1 DEF Says
  <2>3. CASE Step(h).op = "swap"
    <3>1. After(h, f) = NewValue(h) /\ f = Step(h).f
      BY <2>3 DEF After, FilesOf
    <3>2. CASE Step(h).src # {f}
      BY <2>3, <3>2 DEF Says
    <3>3. CASE Step(h).src = {f}
      BY <2>1, <2>3, <3>1, <3>3, WritesAll DEF Says, WritesBack
    <3> QED
      BY <3>2, <3>3
  <2>4. CASE Step(h).op \in {"unpack", "wipe"}
    BY <2>4 DEF Says
  <2> QED
    BY <2>1, <2>2, <2>3, <2>4
<1>4. CASE ReloadService(h)
  BY <1>4 DEF ReloadService, At, Says
<1>5. CASE ~(WriteFile(h) \/ ChangeInOnePiece(h) \/ ReloadService(h))
  <2>1. disk' = disk
    BY <1>5 DEF Proceed, ResolveDomainUser, UnknownDomain, ReadFile, NotAcceptable, Refuse, RenderFile,
                StripConflicts, OpenFile, RunProgram, ExitNonzero
  <2> QED
    BY <2>1
<1> QED
  BY <1>2, <1>3, <1>4, <1>5

\* A step changes files its program writes.
LEMMA ChangesOwn ==
  ASSUME SInv, NEW h \in Helpers, Proceed(h), NEW f \in Files, disk'[f] # disk[f]
  PROVE  Running(h) /\ Step(h).op \in WriteOps /\ f \in FilesOf(Step(h)) /\ f \in Writes(Prog(h))
<1>1. DOMAIN disk = Files
  BY DEF SInv, DiskInv
<1>2. WriteFile(h) \/ ChangeInOnePiece(h) \/ ReloadService(h)
  BY DEF Proceed, ResolveDomainUser, UnknownDomain, ReadFile, NotAcceptable, Refuse, RenderFile,
         StripConflicts, OpenFile, RunProgram, ExitNonzero
<1>3. Running(h) /\ Step(h).op \in WriteOps /\ f \in FilesOf(Step(h))
  BY <1>1, <1>2 DEF WriteFile, ChangeInOnePiece, ReloadService, At, WriteOps, FilesOf
<1>4. run[h].cmd \in Command /\ run[h].pc \in 1..Len(Prog(h))
  BY <1>3, AtStep
<1> QED
  BY <1>3, <1>4, StepFiles DEF Prog, Step

\* Whatever the programs: what a step takes out of a file without saying so is
\* lost only to another process that has the file at the same time, or after a
\* failure.
THEOREM NothingIsLostAlone == Spec => NothingLostAlone
<1> DEFINE A == \A h \in Helpers : Running(h) /\ run'[h] # run[h] =>
                  \A f \in FilesOf(Step(h)) :
                    disk[f] \subseteq disk'[f] \/ f \in crossed \/ trouble > 0
                      \/ \A x \in disk[f] \ disk'[f] : Says(h, f, x)
<1>1. SInv /\ [Next]_vars => [A]_vars
  <2> SUFFICES ASSUME SInv, Next, NEW h \in Helpers, Running(h), NEW f \in FilesOf(Step(h)),
                      f \notin crossed, ~(trouble > 0), NEW x \in disk[f] \ disk'[f]
               PROVE  Says(h, f, x)
    OBVIOUS
  <2>1. f \in Files /\ f \in Uses(Prog(h))
    BY AtStep
  <2>2. PICK g \in Helpers : \/ \E c \in Command : Start(g, c)
                             \/ Proceed(g) \/ FailStep(g) \/ Kill(g)
    BY DEF Next
  <2>3. disk' # disk
    OBVIOUS
  <2>4. Proceed(g)
    BY <2>2, <2>3 DEF Start, FailStep, Kill
  <2>5. CASE g = h
    BY <2>4, <2>5, OwnLosses
  <2>6. CASE g # h
    <3>1. Running(g) /\ f \in Writes(Prog(g))
      BY <2>1, <2>4, ChangesOwn
    <3> QED
      BY <2>1, <2>6, <3>1 DEF SInv, CrossedInv
  <2> QED
    BY <2>5, <2>6
<1> QED
  BY <1>1, CopiesAreCurrent, PTL DEF Spec, NothingLostAlone

=============================================================================
