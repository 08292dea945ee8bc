------------------------------ MODULE PanelProofs ------------------------------
(***************************************************************************)
(* What the panel keeps true of its own files, whatever the requests and   *)
(* however they overlap: theorems about any table of programs of which     *)
(* Panel's assumptions hold, any number of processes, sessions, domains,   *)
(* commands and failures.                                                  *)
(***************************************************************************)
EXTENDS PanelInv, StepRunProofs

-----------------------------------------------------------------------------
(* Where a step of a process leads.                                        *)

\* The step is done: h goes on at t with copies mem.  Copies of other files are
\* what they were; a file is read only as it is acceptable.
Goes(h, t, mem) ==
  /\ t \in Jumps(Prog(h), run[h].pc)
  /\ \A f : f # Step(h).f \/ Step(h).op \notin Copying =>
       /\ f \in DOMAIN mem <=> f \in DOMAIN run[h].mem
       /\ f \in DOMAIN run[h].mem => mem[f] = run[h].mem[f]
  /\ Step(h).op \in Reading =>
       \/ Acceptable(h) /\ Step(h).f \in DOMAIN mem /\ mem[Step(h).f].val = Seen[Step(h).f]
       \/ mem = run[h].mem /\ ~Step(h).hard /\ Step(h).catch > 0
  /\ Step(h).op = "save" =>
       \/ mem = run[h].mem
       \/ Step(h).f \in DOMAIN mem /\ mem[Step(h).f].val = disk'[Step(h).f]

\* The first step from t on that is to be performed is m.
Arrives(h, t, mem, m) ==
  /\ m \in t..Len(Prog(h)) /\ \A k \in t..m - 1 : ~Performed(Prog(h)[k], mem)
  /\ DOMAIN run'[h] = DOMAIN Idle /\ run'[h].cmd = run[h].cmd /\ run'[h].out = run[h].out
  /\ run'[h].pc = m /\ run'[h].mem = Remembered(h, m, mem)

\* The file of the step is truncated.
Opens(h) ==
  /\ Step(h).op = "save" /\ disk' = disk
  /\ DOMAIN run'[h] = DOMAIN Idle /\ run'[h].cmd = run[h].cmd /\ run'[h].out = run[h].out
  /\ run'[h].pc = run[h].pc /\ run'[h].mem = run[h].mem

\* A step of h: the others stay where they are.
Moved(h) ==
  /\ DOMAIN run' = Helpers /\ crossed' = crossed
  /\ \A g \in Helpers \ {h} : SameRun(run[g], run'[g]) /\ (run[g] = Idle => run'[g] = Idle)
  /\ \/ run'[h] = Idle
     \/ Opens(h)
     \/ \E t, mem, m : Goes(h, t, mem) /\ Arrives(h, t, mem, m)
  /\ \A f \in Files : disk'[f] # disk[f] => Step(h).op \in WriteOps /\ f \in FilesOf(Step(h))
  /\ \A f \in torn' : f \in torn \/ (Step(h).op = "save" /\ f = Step(h).f)

\* The other processes at a step of h.
LEMMA Bystanders ==
  ASSUME SInv, NEW g \in Helpers, NEW w, run'[g] \in {run[g], Outdated(g, w), Aged(g, w)}
  PROVE  SameRun(run[g], run'[g]) /\ (run[g] = Idle => run'[g] = Idle)
<1>1. DOMAIN run[g] = DOMAIN Idle
  BY DEF SInv, RunInv, RunOK
<1>2. \A f \in DOMAIN run[g].mem : DOMAIN run[g].mem[f] = DOMAIN None(f)
  <2>1. CASE Running(g)
    BY <2>1 DEF SInv, MemInv, CopiesOfFiles
  <2>2. CASE ~Running(g)
    BY <2>2 DEF Running, Idle
  <2> QED
    BY <2>1, <2>2
<1> QED
  BY <1>1, <1>2, Ages

\* h goes on.
LEMMA Going ==
  ASSUME SInv, NEW h \in Helpers, Running(h), NEW t, NEW mem, NEW w, NEW x,
         Continue(h, t, mem, w, x), Goes(h, t, mem)
  PROVE  /\ DOMAIN run' = Helpers
         /\ \A g \in Helpers \ {h} : SameRun(run[g], run'[g]) /\ (run[g] = Idle => run'[g] = Idle)
         /\ run'[h] = Idle \/ \E m : Goes(h, t, mem) /\ Arrives(h, t, mem, m)
<1>1. DOMAIN run' = Helpers
  BY DEF Continue
<1>2. ASSUME NEW g \in Helpers \ {h} PROVE SameRun(run[g], run'[g]) /\ (run[g] = Idle => run'[g] = Idle)
  <2>1. run'[g] \in {run[g], Outdated(g, w), Aged(g, w)}
    BY DEF Continue
  <2> QED
    BY <2>1, Bystanders
<1>3. run[h].cmd \in Command /\ run[h].pc \in 1..Len(Prog(h)) /\ run[h].pc \in Nat \ {0}
  BY AtStep
<1>4. DOMAIN run[h] = DOMAIN Idle
  BY DEF SInv, RunInv, RunOK
<1>5. t \in Nat \ {0}
  <2>1. /\ Prog(h)[run[h].pc].next \in Nat \ {0} /\ Prog(h)[run[h].pc].catch \in Nat
    BY <1>3, ProgramFacts DEF Prog
  <2>2. \/ t = run[h].pc + Prog(h)[run[h].pc].next
        \/ t = run[h].pc + Prog(h)[run[h].pc].catch
        \/ t = run[h].pc + 1
        \/ t = run[h].pc + 2
    BY DEF Goes, Jumps
  <2> QED
    BY <1>3, <2>1, <2>2
<1>6. \/ run'[h] = Idle
      \/ \E m \in t..Len(Prog(h)) :
           /\ Performed(Prog(h)[m], mem) /\ \A k \in t..m - 1 : ~Performed(Prog(h)[k], mem)
           /\ DOMAIN run'[h] = DOMAIN Idle /\ run'[h].cmd = run[h].cmd /\ run'[h].pc = m
           /\ run'[h].mem = Remembered(h, m, mem) /\ run'[h].open = "no" /\ run'[h].out = run[h].out
  BY <1>3, <1>4, <1>5, GoesOn
<1> QED
  BY <1>1, <1>2, <1>6 DEF Arrives

\* h goes on with the copies it has.
LEMMA Passes ==
  ASSUME NEW h, NEW t \in Jumps(Prog(h), run[h].pc),
         Step(h).op \in Reading => ~Step(h).hard /\ Step(h).catch > 0
  PROVE  Goes(h, t, run[h].mem)
BY DEF Goes

\* h goes on with another copy of its file.
LEMMA Takes ==
  ASSUME NEW h, NEW t \in Jumps(Prog(h), run[h].pc), NEW c, Step(h).op \in Copying,
         Step(h).op \in Reading => Acceptable(h) /\ c.val = Seen[Step(h).f],
         Step(h).op = "save" => c.val = disk'[Step(h).f]
  PROVE  Goes(h, t, Taken(run[h].mem, Step(h).f, c))
<1> DEFINE mem == Taken(run[h].mem, Step(h).f, c)
<1>1. /\ DOMAIN mem = {Step(h).f} \cup DOMAIN run[h].mem /\ mem[Step(h).f] = c
      /\ \A g : g # Step(h).f => /\ g \in DOMAIN mem <=> g \in DOMAIN run[h].mem
                                 /\ g \in DOMAIN run[h].mem => mem[g] = run[h].mem[g]
  BY DEF Taken
<1> HIDE DEF mem
<1>2. Goes(h, t, mem)
  BY <1>1 DEF Goes
<1> QED
  BY <1>2 DEF mem

\* h ends.
LEMMA Ending ==
  ASSUME SInv, NEW h \in Helpers, Stop(h), UNCHANGED <<disk, torn, crossed>>
  PROVE  Moved(h)
<1>1. DOMAIN run = Helpers /\ run' = [run EXCEPT ![h] = Idle]
  BY DEF Stop, SInv, RunInv
<1>2. \A g \in Helpers \ {h} : SameRun(run[g], run'[g]) /\ (run[g] = Idle => run'[g] = Idle)
  <2> SUFFICES ASSUME NEW g \in Helpers \ {h}
               PROVE  SameRun(run[g], run'[g]) /\ (run[g] = Idle => run'[g] = Idle)
    OBVIOUS
  <2> DEFINE w == {}
  <2>1. run'[g] \in {run[g], Outdated(g, w), Aged(g, w)}
    BY <1>1
  <2> HIDE DEF w
  <2> QED
    BY <2>1, Bystanders
<1> QED
  BY <1>1, <1>2 DEF Moved

\* h goes on, without touching a file.
LEMMA Looking ==
  ASSUME SInv, NEW h \in Helpers, Running(h), UNCHANGED <<disk, torn, crossed>>,
         NEW t, NEW mem, NEW w, NEW x, Continue(h, t, mem, w, x), Goes(h, t, mem)
  PROVE  Moved(h)
<1>1. /\ DOMAIN run' = Helpers
      /\ \A g \in Helpers \ {h} : SameRun(run[g], run'[g]) /\ (run[g] = Idle => run'[g] = Idle)
      /\ run'[h] = Idle \/ \E m : Goes(h, t, mem) /\ Arrives(h, t, mem, m)
  BY Going
<1> QED
  BY <1>1 DEF Moved

\* A block is skipped, or the command ends with the error.
LEMMA GivingUp ==
  ASSUME SInv, NEW h \in Helpers, Running(h), GiveUp(h), UNCHANGED <<disk, torn, crossed>>,
         Step(h).op \in Reading => ~Step(h).hard
  PROVE  Moved(h)
<1>1. CASE Step(h).catch > 0
  <2> DEFINE t == run[h].pc + Step(h).catch
             x == excused \cup (Ahead(h, run[h].pc) \ Certain[run[h].cmd][t])
             w == {}
  <2>1. Continue(h, t, run[h].mem, w, x)
    BY <1>1 DEF GiveUp
  <2>2. t \in Jumps(Prog(h), run[h].pc)
    BY <1>1, AtStep
  <2>3. Goes(h, t, run[h].mem)
    BY <1>1, <2>2, Passes
  <2> HIDE DEF t, x, w
  <2> QED
    BY <2>1, <2>3, Looking
<1>2. CASE ~(Step(h).catch > 0)
  BY <1>2, Ending DEF GiveUp
<1> QED
  BY <1>1, <1>2

\* A step that looks at files.
LEMMA Looks ==
  ASSUME SInv, NEW h \in Helpers,
         ResolveDomainUser(h) \/ RunProgram(h) \/ ReadFile(h) \/ RenderFile(h) \/ StripConflicts(h)
  PROVE  Moved(h)
<1> DEFINE s == Step(h)
           n == run[h].pc + s.next
<1>1. Running(h) /\ UNCHANGED <<disk, torn, crossed>>
  BY DEF ResolveDomainUser, RunProgram, ReadFile, RenderFile, StripConflicts, Reads, At, history
<1>2. n \in Jumps(Prog(h), run[h].pc)
  BY <1>1, AtStep
<1>3. ASSUME NEW t \in Jumps(Prog(h), run[h].pc), NEW c, NEW w, NEW x,
             Continue(h, t, Taken(run[h].mem, s.f, c), w, x), s.op \in Copying \ {"save"},
             s.op \in Reading => Acceptable(h) /\ c.val = Seen[s.f]
      PROVE  Moved(h)
  <2>1. Goes(h, t, Taken(run[h].mem, s.f, c))
    BY <1>3, Takes
  <2> QED
    BY <1>1, <1>3, <2>1, Looking
<1>4. CASE ResolveDomainUser(h) \/ RunProgram(h)
  <2>1. s.op \in {"resolve", "run"}
    BY <1>4 DEF ResolveDomainUser, RunProgram, At
  <2>2. Goes(h, n, run[h].mem)
    BY <1>2, <2>1, Passes DEF Reading
  <2> DEFINE w == {}
  <2>3. Continue(h, n, run[h].mem, w, excused)
    BY <1>4 DEF ResolveDomainUser, RunProgram, Onward
  <2> HIDE DEF w, n
  <2> QED
    BY <1>1, <2>2, <2>3, Looking
<1>5. CASE ReadFile(h)
  <2> DEFINE c == Copied(Seen[s.f], {s.f}, s.f \in torn)
             w == {}
  <2>1. s.op \in {"read", "parse"} /\ Acceptable(h)
    BY <1>5 DEF ReadFile, Reads, At
  <2>2. Continue(h, n, Taken(run[h].mem, s.f, c), w, excused)
    BY <1>5 DEF ReadFile, Onward
  <2>3. c.val = Seen[s.f] /\ s.op \in Copying \ {"save"}
    BY <2>1 DEF Copied, Copying, Reading
  <2> HIDE DEF w, n, c
  <2> QED
    BY <1>2, <1>3, <2>1, <2>2, <2>3
<1>6. CASE RenderFile(h)
  <2> DEFINE val == IF s.op = "copy" THEN UNION {Seen[g] : g \in s.src} ELSE Derived(s.f, s.src, Seen)
             c == Copied(val, s.src, s.src \cap torn # {})
             w == {}
  <2>1. s.op \in {"render", "copy"}
    BY <1>6 DEF RenderFile, At
  <2>2. Continue(h, n, Taken(run[h].mem, s.f, c), w, excused)
    BY <1>6 DEF RenderFile, Onward
  <2>3. s.op \in Copying \ {"save"} /\ s.op \notin Reading
    BY <2>1 DEF Copying, Reading
  <2> HIDE DEF w, n, c
  <2> QED
    BY <1>2, <1>3, <2>2, <2>3
<1>7. CASE StripConflicts(h)
  <2> DEFINE kept == Seen[s.f] \ Held(h, Vmailbox).val
             t == run[h].pc + (IF kept = Seen[s.f] THEN 2 ELSE 1)
             c == Copied(kept, {s.f}, s.f \in torn)
             w == {}
  <2>1. s.op = "strip"
    BY <1>7 DEF StripConflicts, At
  <2>2. Continue(h, t, Taken(run[h].mem, s.f, c), w, excused)
    BY <1>7 DEF StripConflicts
  <2>3. s.op \in Copying \ {"save"} /\ s.op \notin Reading
    BY <2>1 DEF Copying, Reading
  <2>4. t \in Jumps(Prog(h), run[h].pc)
    <3>1. {run[h].pc + 1, run[h].pc + 2} \subseteq Jumps(Prog(h), run[h].pc)
      BY <2>1 DEF Jumps, Step
    <3> QED
      BY <3>1
  <2> HIDE DEF w, t, c
  <2> QED
    BY <1>3, <2>2, <2>3, <2>4
<1> QED
  BY <1>4, <1>5, <1>6, <1>7

\* A step that changes files.
LEMMA Changes ==
  ASSUME SInv, NEW h \in Helpers, WriteFile(h) \/ ChangeInOnePiece(h) \/ ReloadService(h)
  PROVE  Moved(h)
<1> DEFINE s == Step(h)
           n == run[h].pc + s.next
<1>1. Running(h) /\ crossed' = crossed /\ s.op \in WriteOps \ Reading
  BY DEF WriteFile, ChangeInOnePiece, ReloadService, At, history, WriteOps, Reading
<1>2. n \in Jumps(Prog(h), run[h].pc) /\ DOMAIN disk = Files
  BY <1>1, AtStep DEF SInv, DiskInv
<1>3. /\ \A f \in Files : disk'[f] # disk[f] => f \in FilesOf(s)
      /\ \A f \in torn' : f \in torn \/ (s.op = "save" /\ f = s.f)
  BY <1>2 DEF WriteFile, ChangeInOnePiece, ReloadService, At, WriteOps, FilesOf
<1>4. ASSUME NEW mem, NEW w, NEW x, Continue(h, n, mem, w, x), Goes(h, n, mem)
      PROVE  Moved(h)
  <2>1. /\ DOMAIN run' = Helpers
        /\ \A g \in Helpers \ {h} : SameRun(run[g], run'[g]) /\ (run[g] = Idle => run'[g] = Idle)
        /\ run'[h] = Idle \/ \E m : Goes(h, n, mem) /\ Arrives(h, n, mem, m)
    BY <1>1, <1>4, Going
  <2> QED
    BY <1>1, <1>3, <2>1 DEF Moved
<1>5. CASE WriteFile(h)
  <2> DEFINE value == NewValue(h)
             c == [Kept(h, s) EXCEPT !.val = value]
             w == {s.f}
             x == Recorded(h)
  <2>1. s.op = "save" /\ Continue(h, n, Taken(run[h].mem, s.f, c), w, x) /\ disk' = [disk EXCEPT ![s.f] = value]
    BY <1>5 DEF WriteFile, At, Onward
  <2>2. c.val = disk'[s.f]
    <3>1. s.f \in Files
      BY <1>1, <2>1, AtStep
    <3>2. DOMAIN Kept(h, s) = DOMAIN None(s.f)
      BY <1>1, NewFinite
    <3> QED
      BY <1>2, <2>1, <3>1, <3>2 DEF None, Copied
  <2>3. s.op \in Copying
    BY <2>1 DEF Copying
  <2> HIDE DEF c, w, x, value, n
  <2>4. Goes(h, n, Taken(run[h].mem, s.f, c))
    BY <1>1, <1>2, <2>2, <2>3, Takes
  <2> QED
    BY <1>4, <2>1, <2>4
<1>6. CASE ChangeInOnePiece(h) \/ ReloadService(h)
  <2>1. PICK w, x : Continue(h, n, run[h].mem, w, x)
    BY <1>6 DEF ChangeInOnePiece, ReloadService, Onward
  <2>2. Goes(h, n, run[h].mem)
    BY <1>1, <1>2, Passes
  <2> QED
    BY <1>4, <2>1, <2>2
<1> QED
  BY <1>5, <1>6

\* Every step of h.
LEMMA Moves ==
  ASSUME SInv, NEW h \in Helpers, Proceed(h) \/ FailStep(h) \/ Kill(h)
  PROVE  Running(h) /\ Moved(h)
<1>1. CASE ResolveDomainUser(h) \/ RunProgram(h) \/ ReadFile(h) \/ RenderFile(h) \/ StripConflicts(h)
  <2>1. Running(h)
    BY <1>1 DEF ResolveDomainUser, RunProgram, ReadFile, RenderFile, StripConflicts, Reads, At
  <2> QED
    BY <1>1, <2>1, Looks
<1>2. CASE WriteFile(h) \/ ChangeInOnePiece(h) \/ ReloadService(h)
  <2>1. Running(h)
    BY <1>2 DEF WriteFile, ChangeInOnePiece, ReloadService, At
  <2> QED
    BY <1>2, <2>1, Changes
<1>3. CASE OpenFile(h)
  <2> DEFINE w == {Step(h).f}
  <2>1. /\ Running(h) /\ Step(h).op = "save" /\ disk' = disk /\ crossed' = crossed
        /\ torn' = torn \cup {Step(h).f} /\ DOMAIN run' = Helpers
        /\ run'[h] = [run[h] EXCEPT !.open = "mine", !.wrote = TRUE]
        /\ \A g \in Helpers \ {h} : run'[g] \in {run[g], Outdated(g, w), Aged(g, w)}
    BY <1>3 DEF OpenFile, At, history
  <2>2. DOMAIN run[h] = DOMAIN Idle
    BY DEF SInv, RunInv, RunOK
  <2>3. Opens(h)
    BY <2>1, <2>2 DEF Opens, Idle
  <2> HIDE DEF w
  <2>4. \A g \in Helpers \ {h} : SameRun(run[g], run'[g]) /\ (run[g] = Idle => run'[g] = Idle)
    BY <2>1, Bystanders
  <2> QED
    BY <2>1, <2>3, <2>4 DEF Moved
<1>4. CASE UnknownDomain(h) \/ NotAcceptable(h) \/ Kill(h)
  <2>1. Running(h) /\ Stop(h) /\ UNCHANGED <<disk, torn, crossed>>
    BY <1>4 DEF UnknownDomain, NotAcceptable, Refuse, Kill, Troubled, Reads, At, history
  <2> QED
    BY <2>1, Ending
<1>5. CASE ExitNonzero(h) \/ FailStep(h)
  <2>1. Running(h) /\ GiveUp(h) /\ UNCHANGED <<disk, torn, crossed>>
    BY <1>5 DEF ExitNonzero, FailStep, Troubled, Reads, At, history
  <2>2. Step(h).op \in Reading => ~Step(h).hard
    BY <1>5 DEF ExitNonzero, FailStep, Reads, At, Reading, WriteOps
  <2> QED
    BY <2>1, <2>2, GivingUp
<1> QED
  BY <1>1, <1>2, <1>3, <1>4, <1>5 DEF Proceed

-----------------------------------------------------------------------------
(* A refusal is not passed.                                                *)

\* Where the next step may be.
LEMMA Forward ==
  ASSUME SInv, NEW h \in Helpers, Running(h), NEW t, NEW mem, NEW m, Goes(h, t, mem), Arrives(h, t, mem, m)
  PROVE  /\ run[h].cmd \in Command /\ run[h].pc \in 1..Len(Prog(h)) /\ run[h].pc \in Nat \ {0} /\ Len(Prog(h)) \in Nat
         /\ t \in Nat /\ m \in Nat /\ run[h].pc < t /\ t <= m /\ m \in 1..Len(Prog(h))
<1>1. run[h].cmd \in Command /\ run[h].pc \in 1..Len(Prog(h)) /\ run[h].pc \in Nat \ {0}
  BY AtStep
<1>2. /\ Prog(h)[run[h].pc].next \in Nat \ {0} /\ Prog(h)[run[h].pc].catch \in Nat /\ Len(Prog(h)) \in Nat
  BY <1>1, ProgramFacts DEF Prog
<1>3. \/ t = run[h].pc + Prog(h)[run[h].pc].next
      \/ (Prog(h)[run[h].pc].catch > 0 /\ t = run[h].pc + Prog(h)[run[h].pc].catch)
      \/ t = run[h].pc + 1
      \/ t = run[h].pc + 2
  BY DEF Goes, Jumps
<1>4. t \in Nat /\ run[h].pc < t
  BY <1>1, <1>2, <1>3
<1> QED
  BY <1>1, <1>2, <1>4 DEF Arrives

\* A step that asks for what is nowhere is not done.
LEMMA Refused ==
  ASSUME SInv, NothingInv, NEW h \in Helpers, Running(h), Impassable(Step(h)), NEW t, NEW mem
  PROVE  ~Goes(h, t, mem)
<1> SUFFICES ASSUME Goes(h, t, mem) PROVE FALSE
  OBVIOUS
<1>1. /\ Step(h).op = "read" /\ Step(h).f = Sys("nothing") /\ Step(h).need = {Sys("anything")}
      /\ Step(h).hard \/ Step(h).catch = 0
  BY DEF Impassable
<1>2. Step(h).f \in Files /\ Step(h).catch \in Nat
  BY <1>1, AtStep
<1>3. Seen[Step(h).f] = {}
  BY <1>1, <1>2, SeenFinite DEF NothingInv
<1>4. ~Acceptable(h)
  BY <1>1, <1>3 DEF Acceptable
<1>5. ~Step(h).hard /\ Step(h).catch > 0
  BY <1>1, <1>4 DEF Goes, Reading
<1> QED
  BY <1>1, <1>2, <1>5

\* Past a refusal, h still has the copies it passed it with.
LEMMA GuardCarried ==
  ASSUME SInv, NothingInv, NEW h \in Helpers, Running(h), GuardOK(h), NEW t, NEW mem, NEW m,
         Goes(h, t, mem), Arrives(h, t, mem, m), NEW i \in 1..Len(Prog(h)), NEW k \in 1..Len(Prog(h)),
         k < m, m <= i, Bars(Prog(h), k, i)
  PROVE  ~Performed(Prog(h)[k], run'[h].mem)
<1> DEFINE p == Prog(h)
           n == run[h].pc
<1>1. /\ run[h].cmd \in Command /\ n \in 1..Len(p) /\ n \in Nat \ {0} /\ Len(p) \in Nat
      /\ t \in Nat /\ m \in Nat /\ n < t /\ t <= m /\ m \in 1..Len(p)
  BY Forward
<1>2. /\ Impassable(p[k])
      /\ AskedOf(p[k]) \subseteq IF p[i].op \in {"save", "swap"} THEN {p[i].f} ELSE {}
      /\ \A j \in 1..k - 1 : \A u \in Jumps(p, j) : u \notin k + 1..i
      /\ \A j \in k + 1..i - 1 : p[j].op \in Copying => p[j].f \notin AskedOf(p[k])
  BY DEF Bars
<1>3. ~Performed(p[k], mem)
  <2>1. CASE k < n
    <3>1. ~Performed(p[k], run[h].mem)
      BY <1>1, <2>1 DEF GuardOK
    <3>2. n \in k + 1..i - 1
      BY <1>1, <2>1
    <3>3. ASSUME NEW f \in AskedOf(p[k])
          PROVE  /\ f \in DOMAIN mem <=> f \in DOMAIN run[h].mem
                 /\ f \in DOMAIN mem => mem[f].val = run[h].mem[f].val
      BY <1>2, <3>2 DEF Goes, Step
    <3> QED
      BY <3>1, <3>3, SameAnswer
  <2>2. CASE k = n
    BY <1>2, <2>2, Refused DEF Step
  <2>3. CASE n < k
    <3>1. n \in 1..k - 1 /\ t \in Jumps(p, n)
      BY <1>1, <2>3 DEF Goes
    <3>2. t \notin k + 1..i
      BY <1>2, <3>1
    <3>3. k \in t..m - 1
      BY <1>1, <3>2
    <3> QED
      BY <3>3 DEF Arrives
  <2> QED
    BY <1>1, <2>1, <2>2, <2>3
<1>4. AskedOf(p[k]) \subseteq Wanted[run[h].cmd][m]
  <2>1. i \in m..Len(p)
    BY <1>1
  <2>2. p[i].op \in {"save", "swap"} => p[i].f \in Wanted[run[h].cmd][m]
    BY <1>1, <2>1, Wants DEF Prog
  <2> QED
    BY <1>2, <2>2
<1>5. run'[h].mem = [f \in DOMAIN mem \cap Wanted[run[h].cmd][m] |-> mem[f]]
  BY DEF Arrives, Remembered
<1>6. ASSUME NEW f \in AskedOf(p[k])
      PROVE  /\ f \in DOMAIN run'[h].mem <=> f \in DOMAIN mem
             /\ f \in DOMAIN run'[h].mem => run'[h].mem[f].val = mem[f].val
  BY <1>4, <1>5
<1> QED
  BY <1>3, <1>6, SameAnswer

\* A process another one leaves where it is keeps its refusals.
LEMMA GuardSame ==
  ASSUME NEW g, SameRun(run[g], run'[g]), GuardOK(g)
  PROVE  GuardOK(g)'
<1>1. Prog(g)' = Prog(g) /\ run'[g].pc = run[g].pc
  BY DEF SameRun, Prog
<1>2. \A s : Performed(s, run'[g].mem) <=> Performed(s, run[g].mem)
  BY SameAnswer DEF SameRun
<1> QED
  BY <1>1, <1>2 DEF GuardOK

\* So is one whose file is truncated by itself.
LEMMA GuardOpens ==
  ASSUME NEW h, Opens(h), GuardOK(h)
  PROVE  GuardOK(h)'
BY DEF Opens, GuardOK, Prog

\* Who runs after a step of h ran before it.
LEMMA StillThere ==
  ASSUME NEW h \in Helpers, Moved(h), NEW g \in Helpers, g # h
  PROVE  SameRun(run[g], run'[g]) /\ (Running(g)' => Running(g))
BY DEF Moved, Running

\* Refusals stay where they are at a step of h.
LEMMA GuardKept ==
  ASSUME SInv, NothingInv, GuardInv, NEW h \in Helpers, Running(h), Moved(h)
  PROVE  GuardInv'
<1> SUFFICES ASSUME NEW g \in Helpers, Running(g)' PROVE GuardOK(g)'
  BY DEF GuardInv
<1>1. CASE g # h
  <2>1. SameRun(run[g], run'[g]) /\ Running(g)
    BY <1>1, StillThere
  <2> QED
    BY <2>1, GuardSame DEF GuardInv
<1>2. CASE g = h
  <2>1. GuardOK(h)
    BY DEF GuardInv
  <2>2. CASE Opens(h)
    BY <1>2, <2>1, <2>2, GuardOpens
  <2>3. CASE ~Opens(h)
    <3>1. run'[h] # Idle
      BY <1>2 DEF Running
    <3>2. PICK t, mem, m : Goes(h, t, mem) /\ Arrives(h, t, mem, m)
      BY <2>3, <3>1 DEF Moved
    <3>3. Prog(h)' = Prog(h) /\ run'[h].pc = m
      BY <3>2 DEF Arrives, Prog
    <3> QED
      BY <1>2, <2>1, <3>2, <3>3, GuardCarried DEF GuardOK
  <2> QED
    BY <2>2, <2>3
<1> QED
  BY <1>1, <1>2

\* Nothing comes where a refusal looks.
LEMMA NothingKept ==
  ASSUME SInv, NothingInv, NEW h \in Helpers, Running(h), Moved(h)
  PROVE  NothingInv'
<1> SUFFICES ASSUME Sys("nothing") \in Files, disk'[Sys("nothing")] # disk[Sys("nothing")] PROVE FALSE
  BY DEF NothingInv
<1>1. Step(h).op \in WriteOps /\ Sys("nothing") \in FilesOf(Step(h))
  BY DEF Moved
<1>2. run[h].cmd \in Command /\ run[h].pc \in 1..Len(Prog(h))
  BY AtStep
<1>3. Sys("nothing") \in Writes(Prog(h))
  BY <1>1, <1>2, StepFiles DEF Prog, Step
<1> QED
  BY <1>2, <1>3, NothingAssumption DEF Prog

-----------------------------------------------------------------------------
(* An administrator is left.                                               *)

\* What is written over the accounts has an administrator.
LEMMA AdminWritten ==
  ASSUME SInv, GuardInv, AdminInv, NEW h \in Helpers, Running(h), Step(h).op \in WriteOps,
         UsersJson \in FilesOf(Step(h))
  PROVE  Step(h).op = "save" /\ Step(h).f = UsersJson /\ SomeAdmin(NewValue(h))
<1> DEFINE p == Prog(h)
           n == run[h].pc
           s == Step(h)
<1>1. run[h].cmd \in Command /\ n \in 1..Len(p) /\ n \in Nat
  BY AtStep
<1>2. DOMAIN p = 1..Len(p) /\ Len(p) \in Nat
  BY <1>1, ProgramFacts DEF Prog
<1>3. KeepsAdmins(p)
  BY <1>1, AdminsAssumption DEF Prog
<1>4. /\ s.op = "save" /\ s.src = {UsersJson}
      /\ \/ \A u \in Items : Admin(u) \notin s.del
         \/ \E k \in 1..n - 1 :
              /\ Bars(p, k, n) /\ p[k].has = {}
              /\ p[k].lacks \subseteq {<<UsersJson, Admin(u)>> : u \in {v \in Items : Admin(v) \notin s.del}}
  BY <1>1, <1>2, <1>3 DEF KeepsAdmins, Step
<1>5. s.f = UsersJson
  BY <1>4 DEF FilesOf
<1>6. WritesBack(s)
  BY <1>4, <1>5 DEF WritesBack
<1> DEFINE val == run[h].mem[UsersJson].val
<1>7. UsersJson \in DOMAIN run[h].mem /\ Kept(h, s) = run[h].mem[UsersJson]
  BY <1>5, <1>6, HoldsCopy
<1>8. NewValue(h) = (val \ s.del) \cup s.add
  BY <1>7 DEF NewValue
<1>9. SomeAdmin(val)
  BY <1>7 DEF AdminInv
<1>10. CASE \A u \in Items : Admin(u) \notin s.del
  BY <1>4, <1>5, <1>8, <1>9, <1>10 DEF SomeAdmin
<1>11. CASE \E k \in 1..n - 1 :
              /\ Bars(p, k, n) /\ p[k].has = {}
              /\ p[k].lacks \subseteq {<<UsersJson, Admin(u)>> : u \in {v \in Items : Admin(v) \notin s.del}}
  <2>1. PICK k \in 1..n - 1 :
              /\ Bars(p, k, n) /\ p[k].has = {}
              /\ p[k].lacks \subseteq {<<UsersJson, Admin(u)>> : u \in {v \in Items : Admin(v) \notin s.del}}
    BY <1>11
  <2>2. ~Performed(p[k], run[h].mem)
    <3>1. GuardOK(h) /\ k \in 1..Len(p) /\ k < n /\ n <= n
      BY <1>1, <1>2 DEF GuardInv
    <3> QED
      BY <1>1, <2>1, <3>1 DEF GuardOK
  <2>3. PICK e \in p[k].lacks : Holds(run[h].mem, e)
    BY <2>1, <2>2 DEF Performed
  <2>4. PICK u \in Items : Admin(u) \notin s.del /\ e = <<UsersJson, Admin(u)>>
    BY <2>1
  <2>5. Admin(u) \in val
    BY <2>3, <2>4 DEF Holds
  <2> QED
    BY <1>4, <1>5, <1>8, <2>4, <2>5 DEF SomeAdmin
<1> QED
  BY <1>4, <1>5, <1>10, <1>11

\* An administrator is left on file and in the copies.
LEMMA AdminKept ==
  ASSUME SInv, GuardInv, AdminInv, NEW h \in Helpers, Running(h), Moved(h), Proceed(h) \/ FailStep(h) \/ Kill(h)
  PROVE  AdminInv'
<1> DEFINE f == UsersJson
<1>1. f \in Files /\ DOMAIN disk = Files
  BY DEF Files, SInv, DiskInv
<1>2. SomeAdmin(disk'[f])
  <2>1. CASE disk'[f] = disk[f]
    BY <2>1 DEF AdminInv
  <2>2. CASE disk'[f] # disk[f]
    <3>1. Step(h).op \in WriteOps /\ f \in FilesOf(Step(h))
      BY <1>1, <2>2 DEF Moved
    <3>2. Step(h).op = "save" /\ Step(h).f = f /\ SomeAdmin(NewValue(h))
      BY <3>1, AdminWritten
    <3>3. WriteFile(h)
      BY <2>2, <3>2 DEF Proceed, FailStep, Kill, ResolveDomainUser, UnknownDomain, ReadFile, NotAcceptable, Refuse,
                        RenderFile, StripConflicts, OpenFile, ChangeInOnePiece, ReloadService, RunProgram, ExitNonzero,
                        At
    <3>4. disk' = [disk EXCEPT ![f] = NewValue(h)]
      BY <3>2, <3>3 DEF WriteFile
    <3> QED
      BY <1>1, <3>2, <3>4
  <2> QED
    BY <2>1, <2>2
<1>3. ASSUME NEW g \in Helpers, Running(g)', f \in DOMAIN run'[g].mem
      PROVE  SomeAdmin(run'[g].mem[f].val)
  <2>1. CASE g # h
    <3>1. SameRun(run[g], run'[g]) /\ Running(g)
      BY <1>3, <2>1, StillThere
    <3> QED
      BY <1>3, <3>1 DEF SameRun, AdminInv
  <2>2. CASE g = h /\ Opens(h)
    BY <1>3, <2>2 DEF Opens, AdminInv
  <2>3. CASE g = h /\ ~Opens(h)
    <3>1. PICK t, mem, m : Goes(h, t, mem) /\ Arrives(h, t, mem, m)
      BY <1>3, <2>3 DEF Moved, Running
    <3>2. f \in DOMAIN mem /\ run'[h].mem[f] = mem[f]
      BY <1>3, <2>3, <3>1 DEF Arrives, Remembered
    <3>3. CASE Step(h).f # f \/ Step(h).op \notin Copying
      BY <2>3, <3>1, <3>2, <3>3 DEF Goes, AdminInv
    <3>4. CASE Step(h).f = f /\ Step(h).op \in Copying
      <4>1. Step(h).op \in {"parse", "save"}
        <5>1. run[h].cmd \in Command /\ run[h].pc \in 1..Len(Prog(h))
          BY AtStep
        <5>2. run[h].pc \in DOMAIN Prog(h)
          BY <5>1, ProgramFacts DEF Prog
        <5>3. KeepsAdmins(Prog(h))
          BY <5>1, AdminsAssumption DEF Prog
        <5> QED
          BY <3>4, <5>2, <5>3 DEF KeepsAdmins, Step
      <4>2. CASE mem = run[h].mem
        BY <2>3, <3>2, <4>2 DEF AdminInv
      <4>3. CASE mem # run[h].mem /\ Step(h).op = "save"
        BY <1>2, <2>3, <3>1, <3>2, <3>4, <4>3 DEF Goes
      <4>4. CASE mem # run[h].mem /\ Step(h).op = "parse"
        <5>1. Acceptable(h) /\ mem[f].val = Seen[f]
          BY <3>1, <3>4, <4>4 DEF Goes, Reading
        <5>2. f \notin torn
          BY <3>4, <4>4, <5>1 DEF Acceptable
        <5>3. mem[f].val = disk[f]
          BY <1>1, <5>1, <5>2 DEF Seen
        <5> QED
          BY <2>3, <3>2, <5>3 DEF AdminInv
      <4> QED
        BY <4>1, <4>2, <4>3, <4>4
    <3> QED
      BY <3>3, <3>4
  <2> QED
    BY <2>1, <2>2, <2>3
<1> QED
  BY <1>2, <1>3 DEF AdminInv, SomeAdmin

-----------------------------------------------------------------------------
(* A request of a user who is logged out.                                  *)

\* It is held up at the step that asks.
LEMMA HeldUpCarried ==
  ASSUME SInv, NEW h \in Helpers, Running(h), HeldUp(h), NEW t, NEW mem, NEW m,
         Goes(h, t, mem), Arrives(h, t, mem, m), Revocations \in Files, Revocations \notin torn,
         LoggedOut(UserOf[SessionOf(h)]) \in disk[Revocations]
  PROVE  HeldUp(h)'
<1> DEFINE p == Prog(h)
           n == run[h].pc
           u == UserOf[SessionOf(h)]
<1>1. /\ run[h].cmd \in Command /\ n \in 1..Len(p) /\ n \in Nat \ {0} /\ Len(p) \in Nat
      /\ t \in Nat /\ m \in Nat /\ n < t /\ t <= m /\ m \in 1..Len(p)
  BY Forward
<1>2. PICK j \in 1..Len(p) : AsksLogout(p, j, u) /\ n <= j
  BY DEF HeldUp
<1>3. n # j
  <2> SUFFICES ASSUME n = j PROVE FALSE
    OBVIOUS
  <2>1. Step(h).op \in Reading /\ Step(h).f = Revocations /\ LoggedOut(u) \in Step(h).bar /\ Step(h).hard
    BY <1>2 DEF AsksLogout, Step
  <2>2. Seen[Revocations] = disk[Revocations]
    BY DEF Seen
  <2>3. ~Acceptable(h)
    BY <2>1, <2>2 DEF Acceptable
  <2> QED
    BY <2>1, <2>3 DEF Goes
<1>4. t <= j
  <2>1. n \in 1..j - 1 /\ t \in Jumps(p, n)
    BY <1>1, <1>2, <1>3 DEF Goes
  <2> QED
    BY <1>2, <2>1 DEF AsksLogout
<1>5. m <= j
  <2> SUFFICES ASSUME j < m PROVE FALSE
    BY <1>1
  <2>1. j \in t..m - 1
    BY <1>1, <1>4
  <2>2. p[j].has = {} /\ p[j].lacks = {}
    BY <1>2 DEF AsksLogout
  <2>3. Performed(p[j], mem)
    BY <2>2 DEF Performed
  <2> QED
    BY <2>1, <2>3 DEF Arrives
<1>6. Prog(h)' = p /\ SessionOf(h)' = SessionOf(h) /\ run'[h].pc = m
  BY DEF Arrives, Prog, SessionOf
<1> QED
  BY <1>2, <1>5, <1>6 DEF HeldUp

\* While it is held up it changes nothing.
LEMMA HeldUpIdle ==
  ASSUME SInv, NEW h \in Helpers, Running(h), HeldUp(h)
  PROVE  Step(h).op \notin WriteOps
<1>1. PICK j \in 1..Len(Prog(h)) : AsksLogout(Prog(h), j, UserOf[SessionOf(h)]) /\ run[h].pc <= j
  BY DEF HeldUp
<1>2. run[h].pc \in Nat \ {0}
  BY AtStep
<1>3. CASE run[h].pc = j
  BY <1>1, <1>3 DEF AsksLogout, Step, Reading, WriteOps
<1>4. CASE run[h].pc # j
  <2>1. run[h].pc \in 1..j - 1
    BY <1>1, <1>2, <1>4
  <2> QED
    BY <1>1, <2>1 DEF AsksLogout, Step, Reading, WriteOps
<1> QED
  BY <1>3, <1>4

\* Nobody else writes the revocations while it is there, unless they are crossed.
LEMMA LogoutKept ==
  ASSUME SInv, LogoutInv, NEW h \in Helpers, Running(h), Moved(h)
  PROVE  LogoutInv'
<1> DEFINE f == Revocations
<1> SUFFICES ASSUME NEW g \in Helpers, Running(g)', OfSession(g)', run'[g].out, f \notin crossed
             PROVE  /\ LoggedOut(UserOf[SessionOf(g)'])  \in disk'[f] /\ f \notin torn'
                    /\ f \in Files /\ HeldUp(g)'
  BY DEF LogoutInv, Moved
<1>1. Running(g) /\ run'[g].cmd = run[g].cmd /\ run[g].out
  <2>1. CASE g # h
    BY <2>1, StillThere DEF SameRun
  <2>2. CASE g = h
    BY <2>2 DEF Moved, Opens, Arrives, Running
  <2> QED
    BY <2>1, <2>2
<1>2. OfSession(g) /\ SessionOf(g)' = SessionOf(g) /\ Prog(g)' = Prog(g)
  BY <1>1 DEF OfSession, SessionOf, Prog
<1>3. LoggedOut(UserOf[SessionOf(g)]) \in disk[f] /\ f \notin torn /\ f \in Files /\ HeldUp(g)
  BY <1>1, <1>2 DEF LogoutInv
<1>4. ~(Step(h).op \in WriteOps /\ f \in FilesOf(Step(h)))
  <2>1. CASE g = h
    BY <1>3, <2>1, HeldUpIdle
  <2>2. CASE g # h
    <3> SUFFICES ASSUME Step(h).op \in WriteOps, f \in FilesOf(Step(h)) PROVE FALSE
      OBVIOUS
    <3>1. run[h].cmd \in Command /\ run[h].pc \in 1..Len(Prog(h)) /\ run[g].cmd \in Command
      BY <1>1, AtStep
    <3>2. f \in Writes(Prog(h))
      BY <3>1, StepFiles DEF Prog, Step
    <3>3. f \in Uses(Prog(g))
      <4>1. PICK j \in 1..Len(Prog(g)) : AsksLogout(Prog(g), j, UserOf[SessionOf(g)])
        BY <1>3 DEF HeldUp
      <4>2. Prog(g)[j].f = f /\ Prog(g)[j].op \in Reading
        BY <4>1 DEF AsksLogout
      <4>3. FilesOf(Prog(g)[j]) = {f}
        BY <4>2 DEF FilesOf, Reading
      <4> QED
        BY <3>1, <4>3, StepFiles DEF Prog
    <3> QED
      BY <1>1, <2>2, <3>2, <3>3 DEF SInv, CrossedInv
  <2> QED
    BY <2>1, <2>2
<1>5. disk'[f] = disk[f] /\ f \notin torn'
  BY <1>3, <1>4 DEF Moved, WriteOps, FilesOf
<1>6. HeldUp(g)'
  <2>1. CASE g # h
    BY <1>2, <1>3, <2>1, StillThere DEF SameRun, HeldUp
  <2>2. CASE g = h /\ Opens(h)
    BY <1>2, <1>3, <2>2 DEF Opens, HeldUp
  <2>3. CASE g = h /\ ~Opens(h)
    <3>1. PICK t, mem, m : Goes(h, t, mem) /\ Arrives(h, t, mem, m)
      BY <2>3 DEF Moved, Running
    <3> QED
      BY <1>3, <2>3, <3>1, HeldUpCarried
  <2> QED
    BY <2>1, <2>2, <2>3
<1> QED
  BY <1>2, <1>3, <1>5, <1>6

-----------------------------------------------------------------------------
(* The invariant.                                                          *)

\* In the beginning nobody runs, nothing is where refusals look, and the
\* administrators are on file.
LEMMA BeginsWell ==
  ASSUME Init
  PROVE  PInv
<1> DEFINE computed == [f \in Files |-> IF Basis(f) = {} THEN Source(f)
                                        ELSE Derived(f, Basis(f), [g \in Files |-> Source(g)])]
<1>1. \A f \in Files :
        disk[f] = CASE f = Served -> Loaded(computed)
                    [] f = Postfix -> Tagged(computed, Maps \cap Files)
                    [] OTHER -> computed[f]
  BY DEF Init
<1>2. \A h \in Helpers : ~Running(h)
  BY DEF Init, Running
<1>3. ASSUME NEW f \in Files, f \in {UsersJson, Sys("nothing")}
      PROVE  disk[f] = Source(f)
  <2>1. f # Served /\ f # Postfix
    BY <1>3 DEF UsersJson, Served, Postfix, Sys
  <2>2. Basis(f) = {}
    <3>1. f[1] \in {"users.json", "nothing"} /\ f \notin {AliasMap, DomainMap, BackupCron}
      BY <1>3 DEF UsersJson, Sys, AliasMap, DomainMap, BackupCron
    <3>2. ~(f[1] = "vhost") /\ ~(f[1] = "php-fpm pool") /\ ~(f = AliasMap) /\ ~(f = DomainMap) /\ ~(f = BackupCron)
      BY <3>1
    <3> QED
      BY <3>2, Zenon DEF Basis
  <2> HIDE DEF computed
  <2>3. disk[f] = computed[f]
    BY <1>1, <2>1, Zenon
  <2> QED
    BY <2>2, <2>3 DEF computed
<1> HIDE DEF computed
<1> DEFINE hosts == {Registry, Linked, Passwd, Tokens, ApiKeys, License, EnvFile, PushTokens, Docker, PlanStore,
                     Servers, JournalFile}
<1>4. Source(Sys("nothing")) = {}
  <2> DEFINE f == Sys("nothing")
  <2>1. f \notin hosts /\ f # UsersJson /\ f[1] # "update job"
    BY DEF Sys, Registry, Linked, Passwd, Tokens, ApiKeys, License, EnvFile, PushTokens, Docker, PlanStore,
           Servers, JournalFile, UsersJson
  <2>2. f[2] \notin Hosted
    BY DomainsAssumption, InstanceAssumption DEF Sys
  <2> HIDE DEF f
  <2>3. Source(f) = IF f[2] \in Hosted THEN SourceOf(f) ELSE {}
    BY <2>1, Zenon DEF Source
  <2> QED
    BY <2>2, <2>3 DEF f
<1>5. {Admin(x) : x \in Administrators} \subseteq Source(UsersJson)
  <2> DEFINE val == {Account(x) : x \in Items} \cup {Admin(x) : x \in Administrators} \cup ClientDomains
                      \cup {Totp(UserOf[s]) : s \in Clients}
  <2>1. UsersJson \notin hosts /\ UsersJson[1] # "update job"
    BY DEF Sys, Registry, Linked, Passwd, Tokens, ApiKeys, License, EnvFile, PushTokens, Docker, PlanStore,
           Servers, JournalFile, UsersJson
  <2>2. Source(UsersJson) = val
    BY <2>1, Zenon DEF Source
  <2> QED
    BY <2>2
<1>6. NothingInv
  BY <1>3, <1>4 DEF NothingInv
<1>7. SomeAdmin(disk[UsersJson])
  <2>1. UsersJson \in Files
    BY DEF Files
  <2>2. PICK u \in Administrators : TRUE
    BY AdminsAssumption
  <2>3. u \in Items
    <3>1. UserOf \in [Sessions -> Items] /\ Admins \subseteq Sessions
      BY SessionsAssumption
    <3> QED
      BY <2>2, <3>1 DEF Administrators
  <2>4. Admin(u) \in disk[UsersJson]
    BY <1>3, <1>5, <2>1, <2>2
  <2> QED
    BY <2>3, <2>4 DEF SomeAdmin
<1> QED
  BY <1>2, <1>6, <1>7 DEF PInv, GuardInv, AdminInv, LogoutInv

\* A command is started.
LEMMA StartsWell ==
  ASSUME SInv, PInv, NEW h \in Helpers, NEW c \in Command, Start(h, c)
  PROVE  PInv'
<1> DEFINE p == Program[c]
           r == [Idle EXCEPT !.cmd = c, !.nr = started + 1, !.pc = Landing(p, 1, <<>>), !.out = LoggedOutOnFile(c)]
<1>1. /\ ~Running(h) /\ UNCHANGED <<disk, torn>> /\ crossed \subseteq crossed'
      /\ run' = [run EXCEPT ![h] = r] /\ DOMAIN run = Helpers
  BY DEF Start, SInv, RunInv
<1>2. r.cmd = c /\ r.pc = 1 /\ r.mem = <<>> /\ r.out = LoggedOutOnFile(c)
  BY LandsFirst DEF Idle
<1> HIDE DEF r
<1>3. run'[h] = r /\ Prog(h)' = p
  BY <1>1, <1>2 DEF Prog
<1>4. ASSUME NEW g \in Helpers, g # h
      PROVE  run'[g] = run[g] /\ (Running(g)' <=> Running(g)) /\ Prog(g)' = Prog(g)
  BY <1>1, <1>4 DEF Running, Prog
<1>5. NothingInv'
  BY <1>1 DEF PInv, NothingInv
<1>6. GuardInv'
  <2>1. GuardOK(h)'
    <3>1. Len(p) \in Nat
      BY ProgramFacts
    <3> QED
      BY <1>2, <1>3, <3>1 DEF GuardOK
  <2>2. ASSUME NEW g \in Helpers, g # h, Running(g)' PROVE GuardOK(g)'
    BY <1>4, <2>2 DEF PInv, GuardInv, GuardOK
  <2> QED
    BY <2>1, <2>2 DEF GuardInv
<1>7. AdminInv'
  <2>1. UsersJson \notin DOMAIN run'[h].mem
    BY <1>2, <1>3
  <2>2. ASSUME NEW g \in Helpers, Running(g)', UsersJson \in DOMAIN run'[g].mem
        PROVE  SomeAdmin(run'[g].mem[UsersJson].val)
    BY <1>4, <2>1, <2>2 DEF PInv, AdminInv
  <2> QED
    BY <1>1, <2>2 DEF PInv, AdminInv, SomeAdmin
<1>8. LogoutInv'
  <2> SUFFICES ASSUME NEW g \in Helpers, Running(g)', OfSession(g)', run'[g].out, Revocations \notin crossed'
               PROVE  /\ LoggedOut(UserOf[SessionOf(g)']) \in disk'[Revocations] /\ Revocations \notin torn'
                      /\ Revocations \in Files /\ HeldUp(g)'
    BY DEF LogoutInv
  <2>1. CASE g = h
    <3>1. Signed(c) /\ LoggedOutOnFile(c)
      BY <1>2, <1>3, <2>1 DEF OfSession
    <3>2. Revocations \in Files /\ LoggedOut(UserOf[c[3]]) \in Seen[Revocations]
      BY <3>1 DEF LoggedOutOnFile
    <3>3. Revocations \notin torn /\ Seen[Revocations] = disk[Revocations]
      BY <3>2 DEF Seen
    <3>4. PICK j \in DOMAIN p : AsksLogout(p, j, UserOf[c[3]])
      BY <3>1, LogoutAssumption
    <3>5. j \in 1..Len(p) /\ 1 <= j
      BY <3>4, ProgramFacts
    <3>6. SessionOf(h)' = c[3]
      BY <1>2, <1>3 DEF SessionOf
    <3>7. HeldUp(h)'
      BY <1>2, <1>3, <3>4, <3>5, <3>6 DEF HeldUp
    <3> QED
      BY <1>1, <2>1, <3>2, <3>3, <3>6, <3>7
  <2>2. CASE g # h
    <3>1. Running(g) /\ OfSession(g) /\ run[g].out /\ Revocations \notin crossed
      BY <1>1, <1>4, <2>2 DEF OfSession
    <3>2. SessionOf(g)' = SessionOf(g) /\ (HeldUp(g) => HeldUp(g)')
      BY <1>4, <2>2 DEF SessionOf, HeldUp
    <3> QED
      BY <1>1, <3>1, <3>2 DEF PInv, LogoutInv
  <2> QED
    BY <2>1, <2>2
<1> QED
  BY <1>5, <1>6, <1>7, <1>8 DEF PInv

\* Nothing happens.
LEMMA StaysWell ==
  ASSUME PInv, UNCHANGED vars
  PROVE  PInv'
<1>1. disk' = disk /\ torn' = torn /\ run' = run /\ crossed' = crossed
  BY DEF vars
<1>2. \A h : /\ Running(h)' <=> Running(h)
             /\ Prog(h)' = Prog(h) /\ SessionOf(h)' = SessionOf(h) /\ (OfSession(h)' <=> OfSession(h))
  BY <1>1 DEF Running, Prog, SessionOf, OfSession
<1>3. \A h : (GuardOK(h) => GuardOK(h)') /\ (HeldUp(h) => HeldUp(h)')
  BY <1>1, <1>2 DEF GuardOK, HeldUp
<1> QED
  BY <1>1, <1>2, <1>3 DEF PInv, NothingInv, GuardInv, AdminInv, SomeAdmin, LogoutInv

\* Every step keeps the invariant.
LEMMA KeepsWell ==
  ASSUME SInv, PInv, [Next]_vars
  PROVE  PInv'
<1>1. CASE UNCHANGED vars
  BY <1>1, StaysWell
<1>2. CASE Next
  <2>1. PICK h \in Helpers : (\E c \in Command : Start(h, c)) \/ Proceed(h) \/ FailStep(h) \/ Kill(h)
    BY <1>2 DEF Next
  <2>2. CASE \E c \in Command : Start(h, c)
    BY <2>2, StartsWell
  <2>3. CASE Proceed(h) \/ FailStep(h) \/ Kill(h)
    <3>1. Running(h) /\ Moved(h)
      BY <2>3, Moves
    <3> QED
      BY <2>3, <3>1, NothingKept, GuardKept, AdminKept, LogoutKept DEF PInv
  <2> QED
    BY <2>1, <2>2, <2>3
<1> QED
  BY <1>1, <1>2

\* Answers stay right from the step that asks to the step that acts on them.
THEOREM AnswersHold == Spec => [](SInv /\ PInv)
<1>1. Init => SInv /\ PInv
  BY InitInv, BeginsWell
<1>2. SInv /\ PInv /\ [Next]_vars => SInv' /\ PInv'
  BY NextKeeps, KeepsWell
<1> QED
  BY <1>1, <1>2, PTL DEF Spec

\* However many administrators are deleted at a time, by whatever requests, one
\* of them stays on file, even when processes are killed in the middle of a write.
THEOREM OneAdminRemains == Spec => []AnAdminRemains
<1>1. PInv => AnAdminRemains
  BY DEF PInv, AdminInv, SomeAdmin, AnAdminRemains
<1> QED
  BY <1>1, AnswersHold, PTL

-----------------------------------------------------------------------------
(* What a step does to the files of the panel.                             *)

\* A process acts at its own steps only.
LEMMA OwnStep ==
  ASSUME SInv, Next, NEW h \in Helpers, Acts(h)
  PROVE  Running(h) /\ Moved(h) /\ (Proceed(h) \/ FailStep(h) \/ Kill(h))
<1>1. PICK g \in Helpers : (\E c \in Command : Start(g, c)) \/ Proceed(g) \/ FailStep(g) \/ Kill(g)
  BY DEF Next
<1>2. CASE \E c \in Command : Start(g, c)
  <2>1. g # h /\ DOMAIN run = Helpers
    BY <1>2 DEF Start, Acts, SInv, RunInv
  <2>2. run'[h] = run[h]
    BY <1>2, <2>1 DEF Start
  <2> QED
    BY <2>2 DEF Acts
<1>3. CASE Proceed(g) \/ FailStep(g) \/ Kill(g)
  <2>1. Moved(g)
    BY <1>3, Moves
  <2>2. g = h
    BY <2>1, StillThere DEF Acts, SameRun
  <2> QED
    BY <1>3, <2>1, <2>2 DEF Acts
<1> QED
  BY <1>1, <1>2, <1>3

\* What a step writes.
LEMMA Written ==
  ASSUME SInv, NEW h \in Helpers, Proceed(h) \/ FailStep(h) \/ Kill(h), NEW f \in Files, disk'[f] # disk[f]
  PROVE  /\ Step(h).op \in {"save", "swap"} => f = Step(h).f /\ disk'[f] = NewValue(h)
         /\ Step(h).op = "put" => disk'[f] = (disk[f] \ Step(h).del) \cup Step(h).add
<1>1. WriteFile(h) \/ ChangeInOnePiece(h) \/ ReloadService(h)
  BY DEF Proceed, FailStep, Kill, ResolveDomainUser, UnknownDomain, ReadFile, NotAcceptable, Refuse, RenderFile,
         StripConflicts, OpenFile, RunProgram, ExitNonzero
<1>2. DOMAIN disk = Files
  BY DEF SInv, DiskInv
<1>3. CASE WriteFile(h)
  BY <1>2, <1>3 DEF WriteFile, At
<1>4. CASE ChangeInOnePiece(h)
  <2>1. disk'[f] = After(h, f) /\ f \in FilesOf(Step(h))
    BY <1>4 DEF ChangeInOnePiece
  <2>2. Step(h).op = "swap" => After(h, f) = NewValue(h)
    BY DEF After
  <2>3. Step(h).op = "put" => After(h, f) = (disk[f] \ Step(h).del) \cup Step(h).add
    BY DEF After
  <2>4. Step(h).op # "save"
    BY <1>4 DEF ChangeInOnePiece, At
  <2> QED
    BY <2>1, <2>2, <2>3, <2>4 DEF FilesOf
<1>5. CASE ReloadService(h)
  BY <1>5 DEF ReloadService, At
<1> QED
  BY <1>1, <1>3, <1>4, <1>5

\* What a step changes of the accounts it says.
LEMMA AccountsSaid ==
  ASSUME SInv, NEW h \in Helpers, Running(h), Moved(h), Proceed(h) \/ FailStep(h) \/ Kill(h),
         disk'[UsersJson] # disk[UsersJson], UsersJson \notin crossed,
         NEW x \in (disk[UsersJson] \ disk'[UsersJson]) \cup (disk'[UsersJson] \ disk[UsersJson])
  PROVE  x \in Step(h).add \cup Step(h).del
<1> DEFINE p == Prog(h)
           s == Step(h)
           f == UsersJson
<1>1. f \in Files
  BY DEF Files
<1>2. s.op \in WriteOps /\ f \in FilesOf(s)
  BY <1>1 DEF Moved
<1>3. /\ run[h].cmd \in Command /\ run[h].pc \in 1..Len(p) /\ DOMAIN p = 1..Len(p)
  BY AtStep, ProgramFacts DEF Prog
<1>4. KeepsAdmins(p)
  BY <1>3, AdminsAssumption DEF Prog
<1>5. s.op = "save" /\ s.src = {f}
  BY <1>2, <1>3, <1>4 DEF KeepsAdmins, Step
<1>6. s.f = f
  BY <1>2, <1>5 DEF FilesOf
<1>7. \A i \in 1..Len(p) : p[i].f = f => p[i].op # "read"
  BY <1>3, <1>4 DEF KeepsAdmins, Copying, Reading
<1>8. WritesBack(s)
  BY <1>5, <1>6 DEF WritesBack
<1>9. Kept(h, s).val = disk[f]
  BY <1>6, <1>7, <1>8, HoldsCopy
<1>10. disk'[f] = NewValue(h)
  BY <1>1, <1>5, Written
<1> QED
  BY <1>9, <1>10 DEF NewValue

\* A client's request changes what is the client's, whatever the tables, as long
\* as each of its steps is permitted or stands behind a refusal.
THEOREM ClientsStayInside == Spec => EffectsAreGated
<1> DEFINE A == \A h \in Helpers : Acts(h) /\ OfClient(h) =>
                  \A f \in FilesOf(Step(h)) : disk'[f] # disk[f] =>
                     /\ f \notin AdminFiles \ {PushTokens, InstanceId}
                     /\ f[2] \in Domains => f[2] \in Mine(SessionOf(h))
                     /\ f = UsersJson => \A x \in (disk[f] \ disk'[f]) \cup (disk'[f] \ disk[f]) :
                                            x[1] = UserOf[SessionOf(h)] \/ f \in crossed
<1>1. SInv /\ PInv /\ [Next]_vars => [A]_vars
  <2> SUFFICES ASSUME SInv, PInv, Next, NEW h \in Helpers, Acts(h), OfClient(h),
                      NEW f \in FilesOf(Step(h)), disk'[f] # disk[f]
               PROVE  /\ f \notin AdminFiles \ {PushTokens, InstanceId}
                      /\ f[2] \in Domains => f[2] \in Mine(SessionOf(h))
                      /\ f = UsersJson => \A x \in (disk[f] \ disk'[f]) \cup (disk'[f] \ disk[f]) :
                                             x[1] = UserOf[SessionOf(h)] \/ f \in crossed
    OBVIOUS
  <2> DEFINE p == Prog(h)
             n == run[h].pc
  <2>1. Running(h) /\ Moved(h) /\ (Proceed(h) \/ FailStep(h) \/ Kill(h))
    BY OwnStep
  <2>2. /\ run[h].cmd \in Command /\ n \in 1..Len(p) /\ n \in Nat /\ f \in Files
    BY <2>1, AtStep
  <2>3. DOMAIN p = 1..Len(p) /\ Len(p) \in Nat
    BY <2>2, ProgramFacts DEF Prog
  <2>4. Step(h).op \in WriteOps
    BY <2>1, <2>2 DEF Moved
  <2>5. Signed(run[h].cmd) /\ SessionOf(h) \in Clients /\ SessionOf(h) = run[h].cmd[3]
    BY DEF OfClient, OfSession, SessionOf
  <2>6. \/ Permitted(SessionOf(h), Step(h))
        \/ \E k \in 1..n - 1 : Bars(p, k, n) /\ AskedOf(p[k]) = {}
    BY <2>2, <2>3, <2>4, <2>5, GateAssumption DEF Prog, Step
  <2>7. CASE \E k \in 1..n - 1 : Bars(p, k, n) /\ AskedOf(p[k]) = {}
    <3>1. PICK k \in 1..n - 1 : Bars(p, k, n) /\ AskedOf(p[k]) = {}
      BY <2>7
    <3>2. k \in 1..Len(p) /\ k < n /\ n <= n
      BY <2>2, <2>3
    <3>3. ~Performed(p[k], run[h].mem)
      BY <2>1, <2>2, <3>1, <3>2 DEF PInv, GuardInv, GuardOK
    <3> QED
      BY <3>1, <3>3 DEF AskedOf, Performed
  <2>8. CASE Permitted(SessionOf(h), Step(h))
    <3>1. ASSUME f = UsersJson, f \notin crossed, NEW x \in (disk[f] \ disk'[f]) \cup (disk'[f] \ disk[f])
          PROVE  x[1] = UserOf[SessionOf(h)]
      <4>1. x \in Step(h).add \cup Step(h).del
        BY <2>1, <3>1, AccountsSaid
      <4> QED
        BY <2>8, <3>1, <4>1 DEF Permitted
    <3> QED
      BY <2>8, <3>1 DEF Permitted
  <2> QED
    BY <2>6, <2>7, <2>8
<1> QED
  BY <1>1, AnswersHold, PTL DEF Spec, EffectsAreGated

\* A request that starts after its user's logout is on file changes no file,
\* whatever it is and whatever fails, unless the revocations are being changed.
THEOREM LoggedOutChangesNothing == Spec => NoEffectAfterLogout
<1> DEFINE A == \A h \in Helpers : Acts(h) /\ OfSession(h) /\ run[h].out =>
                  disk' = disk \/ Revocations \in crossed
<1>1. SInv /\ SInv' /\ PInv /\ [Next]_vars => [A]_vars
  <2> SUFFICES ASSUME SInv, SInv', PInv, Next, NEW h \in Helpers, Acts(h), OfSession(h), run[h].out,
                      Revocations \notin crossed
               PROVE  disk' = disk
    OBVIOUS
  <2>1. Running(h) /\ Moved(h)
    BY OwnStep
  <2>2. HeldUp(h)
    BY <2>1 DEF PInv, LogoutInv
  <2>3. Step(h).op \notin WriteOps
    BY <2>1, <2>2, HeldUpIdle
  <2>4. \A f \in Files : disk'[f] = disk[f]
    BY <2>1, <2>3 DEF Moved
  <2>5. disk' = disk
    <3>1. WriteFile(h) \/ ChangeInOnePiece(h) \/ ReloadService(h) => Step(h).op \in WriteOps
      BY DEF WriteFile, ChangeInOnePiece, ReloadService, At, WriteOps
    <3>2. Proceed(h) \/ FailStep(h) \/ Kill(h)
      BY OwnStep
    <3> QED
      BY <2>3, <3>1, <3>2 DEF Proceed, FailStep, Kill, ResolveDomainUser, UnknownDomain, ReadFile, NotAcceptable,
                          Refuse, RenderFile, StripConflicts, OpenFile, RunProgram, ExitNonzero
  <2> QED
    BY <2>5
<1> QED
  BY <1>1, AnswersHold, PTL DEF Spec, NoEffectAfterLogout

\* A key that was revoked is on file again only by the request that creates it,
\* unless two processes use the keys at the same time.
THEOREM KeysStayRevoked == Spec => RevokedStaysRevoked
<1> DEFINE A == \A x \in Items, h \in Helpers :
                  Acts(h) /\ Key(x) \notin disk[ApiKeys] /\ Key(x) \in disk'[ApiKeys] =>
                  ApiKeys \in crossed \/ <<run[h].cmd[1], run[h].cmd[2], run[h].cmd[5]>> = <<"apiKeys", "POST", x>>
<1>1. SInv /\ [Next]_vars => [A]_vars
  <2> SUFFICES ASSUME SInv, Next, NEW x \in Items, NEW h \in Helpers, Acts(h),
                      Key(x) \notin disk[ApiKeys], Key(x) \in disk'[ApiKeys], ApiKeys \notin crossed
               PROVE  <<run[h].cmd[1], run[h].cmd[2], run[h].cmd[5]>> = <<"apiKeys", "POST", x>>
    OBVIOUS
  <2> DEFINE p == Prog(h)
             s == Step(h)
             f == ApiKeys
  <2>1. Running(h) /\ Moved(h) /\ (Proceed(h) \/ FailStep(h) \/ Kill(h))
    BY OwnStep
  <2>2. f \in Files /\ disk'[f] # disk[f]
    BY DEF Files
  <2>3. s.op \in WriteOps /\ f \in FilesOf(s)
    BY <2>1, <2>2 DEF Moved
  <2>4. run[h].cmd \in Command /\ run[h].pc \in DOMAIN p
    BY <2>1, AtStep, ProgramFacts DEF Prog
  <2>5. /\ s.op \in {"save", "swap", "put"} /\ s.src \subseteq {f}
        /\ Key(x) \in s.add =>
             <<run[h].cmd[1], run[h].cmd[2], run[h].cmd[5]>> = <<"apiKeys", "POST", x>>
    BY <2>3, <2>4, KeysAssumption DEF Prog, Step
  <2>6. Key(x) \in s.add
    <3>1. CASE s.op = "put"
      <4>1. disk'[f] = (disk[f] \ s.del) \cup s.add
        BY <2>1, <2>2, <3>1, Written
      <4> QED
        BY <4>1
    <3>2. CASE s.op \in {"save", "swap"}
      <4>1. s.f = f /\ disk'[f] = (Kept(h, s).val \ s.del) \cup s.add
        BY <2>1, <2>2, <3>2, Written DEF NewValue
      <4>2. Kept(h, s).val \subseteq disk[f]
        <5>1. CASE s.src = {}
          BY <5>1 DEF Kept, None, Copied
        <5>2. CASE s.src = {f}
          <6>1. WritesBack(s)
            BY <3>2, <4>1, <5>2 DEF WritesBack
          <6> QED
            BY <2>1, <4>1, <6>1, HoldsCopy
        <5> QED
          BY <2>5, <5>1, <5>2
      <4> QED
        BY <4>1, <4>2
    <3> QED
      BY <2>5, <3>1, <3>2
  <2> QED
    BY <2>5, <2>6
<1> QED
  BY <1>1, AnswersHold, PTL DEF Spec, RevokedStaysRevoked

=============================================================================
