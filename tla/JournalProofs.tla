--------------------------- MODULE JournalProofs ---------------------------
(***************************************************************************)
(* TLAPS proofs about Journal, for every set of entries and requests and   *)
(* every bound.                                                            *)
(***************************************************************************)
EXTENDS JournalInv, TLAPS

-----------------------------------------------------------------------------
(* Lemmas about the helpers *)

\* What a finished or crashed request leaves is a well-formed record.
LEMMA BlankType == ASSUME NEW how \in PostPC PROVE Blank(how) \in PostRec
  BY DaysAssumption DEF PostRec, Blank, Days

\* Answering a request changes that request only.
LEMMA AnswerType ==
  ASSUME TypeOK, NEW p \in Posts, NEW how \in PostPC
  PROVE  Answer(p, how) \in [Posts -> PostRec]
  BY BlankType DEF Answer, TypeOK

\* So does going on to the next day file.
LEMMA NextDayType ==
  ASSUME TypeOK, NEW p \in Posts, NEW again \in PostPC, NEW how \in PostPC
  PROVE  NextDay(p, again, how) \in [Posts -> PostRec]
<1>1. post[p] \in PostRec /\ post[p].back + 1 \in Nat
  BY DEF TypeOK, PostRec
<1>2. [post[p] EXCEPT !.back = post[p].back + 1, !.pc = again] \in PostRec
  BY <1>1 DEF PostRec
<1>3. [post EXCEPT ![p] = [post[p] EXCEPT !.back = post[p].back + 1, !.pc = again]]
        \in [Posts -> PostRec]
  BY <1>2 DEF TypeOK
<1>4. Answer(p, how) \in [Posts -> PostRec]
  BY AnswerType
<1> QED BY <1>3, <1>4 DEF NextDay

\* And so does leaving a note of a file that could not be read.
LEMMA MissedType ==
  ASSUME NEW next \in [Posts -> PostRec], NEW p \in Posts, NEW b \in BOOLEAN
  PROVE  [next EXCEPT ![p].missed = b] \in [Posts -> PostRec]
<1>1. [next[p] EXCEPT !.missed = b] \in PostRec
  BY DEF PostRec
<1> QED BY <1>1

\* Failures are counted up to their bound.
LEMMA FaultsType ==
  ASSUME TypeOK, DiskFails PROVE diskFaults' \in 0..MaxDiskFaults
BY BoundAssumption DEF TypeOK, DiskFails

\* An append adds at most the one line to the one file.
LEMMA PersistType ==
  ASSUME TypeOK, NEW day \in Days, NEW line \in Line, persistEntry(day, line)
  PROVE  /\ file' \in [Days -> SUBSET Line]
         /\ appended' \subseteq Ids
         /\ diskFaults' \in 0..MaxDiskFaults
<1>1. line.id \in Ids
  BY DEF Line
<1>2. file' \in [Days -> SUBSET Line]
  <2>1. file \in [Days -> SUBSET Line]
    BY DEF TypeOK
  <2>2. CASE file' = [file EXCEPT ![day] = @ \cup {line}]
    <3>1. file[day] \cup {line} \in SUBSET Line
      BY <2>1
    <3> QED
      BY <2>1, <2>2, <3>1
  <2>3. CASE file' = file
    BY <2>1, <2>3
  <2> QED
    BY <2>2, <2>3 DEF persistEntry
<1>3. appended' \subseteq Ids
  BY <1>1 DEF persistEntry, TypeOK
<1>4. diskFaults' \in 0..MaxDiskFaults
  BY FaultsType DEF persistEntry, TypeOK
<1> QED BY <1>2, <1>3, <1>4

\* The day a scanning request has reached is one with a file, or it is past the
\* first day; either way it is an integer no later than the scan's start.
LEMMA DayOfType ==
  ASSUME TypeOK, NEW p \in Posts
  PROVE  DayOf(p) \in Int /\ DayOf(p) <= post[p].from /\ post[p].from \in Days
  BY DaysAssumption DEF TypeOK, PostRec, DayOf, Days

\* Leaving the critical section shortens one chain and may drop one map entry.
LEMMA ReleaseType ==
  ASSUME TypeOK, NEW p \in Posts, NEW d \in Days, HasFile(p, d), Release(p, d)
  PROVE  /\ chain' \in [Days -> Seq(Posts)]
         /\ fileLocks' \in [Days -> Promise \cup {None}]
<1>1. Tail(chain[d]) \in Seq(Posts)
  BY DEF TypeOK, HasFile
<1> QED BY <1>1 DEF Release, TypeOK

-----------------------------------------------------------------------------
(* Type correctness *)

\* Types survive every step.
LEMMA TypeStep == TypeInv /\ [Next]_vars => TypeOK'
<1> SUFFICES ASSUME TypeOK, PostInv, [Next]_vars PROVE TypeOK'
  BY DEF TypeInv
<1>1. ASSUME NEW e \in Entries, Perform(e) PROVE TypeOK'
  <2>1. /\ [pc |-> "done", day |-> today] \in ActRec
        /\ [pc |-> "failed", day |-> today] \in ActRec
    BY DEF TypeOK, ActRec, ActPC
  <2>2. act' \in [Entries -> ActRec]
    BY <1>1, <2>1 DEF Perform, TypeOK
  <2>3. After(e) \in Nat
    BY DEF After
  <2>4. copies' \in [Entries -> Nat]
    BY <1>1, <2>3 DEF Perform, TypeOK
  <2>5. UNCHANGED <<file, chain, fileLocks, today, lapsed, post, acked, appended,
                    ran, crashes, diskFaults>>
    BY <1>1 DEF Perform
  <2> QED BY <2>2, <2>4, <2>5 DEF TypeOK
<1>2. ASSUME NEW e \in Entries, FinishAction(e) PROVE TypeOK'
  <2>1. act[e].day \in Days /\ [act[e] EXCEPT !.pc = "logged"] \in ActRec
    BY DEF TypeOK, ActRec, ActPC
  <2>2. act' = [act EXCEPT ![e] = [act[e] EXCEPT !.pc = "logged"]]
    BY <1>2 DEF FinishAction
  <2>3. act' \in [Entries -> ActRec]
    BY <2>1, <2>2 DEF TypeOK
  <2>4. [id |-> e, undoable |-> act[e].pc = "done", undone |-> None] \in Line
    BY DEF Line, Ids
  <2>5. persistEntry(act[e].day,
          [id |-> e, undoable |-> act[e].pc = "done", undone |-> None])
    BY <1>2 DEF FinishAction
  <2>6. /\ file' \in [Days -> SUBSET Line]
        /\ appended' \subseteq Ids
        /\ diskFaults' \in 0..MaxDiskFaults
    BY <2>1, <2>4, <2>5, PersistType
  <2>7. UNCHANGED <<chain, fileLocks, today, lapsed, copies, post, acked, ran,
                    crashes>>
    BY <1>2 DEF FinishAction
  <2> QED BY <2>3, <2>6, <2>7 DEF TypeOK
<1>3. ASSUME NEW e \in Entries, Lapse(e) PROVE TypeOK'
  <2>1. lapsed' \subseteq Entries
    BY <1>3 DEF Lapse, TypeOK
  <2>2. UNCHANGED <<file, chain, fileLocks, today, copies, act, post, acked,
                    appended, ran, crashes, diskFaults>>
    BY <1>3 DEF Lapse
  <2> QED BY <2>1, <2>2 DEF TypeOK
<1>4. ASSUME NEW p \in Posts, NEW e \in Entries, Arrive(p, e) PROVE TypeOK'
  <2>1. [pc |-> "lookup", target |-> e, from |-> today, back |-> 0, day |-> 0,
         snap |-> {}, missed |-> FALSE, late |-> e \in acked] \in PostRec
    BY DaysAssumption DEF TypeOK, PostRec, PostPC, Days
  <2>2. post' \in [Posts -> PostRec]
    BY <1>4, <2>1 DEF Arrive, TypeOK
  <2>3. UNCHANGED <<file, chain, fileLocks, today, lapsed, copies, act, acked,
                    appended, ran, crashes, diskFaults>>
    BY <1>4 DEF Arrive
  <2> QED BY <2>2, <2>3 DEF TypeOK
<1>5. ASSUME NEW p \in Posts, Lookup(p) PROVE TypeOK'
  <2>1. "lookup" \in PostPC /\ "notFound" \in PostPC /\ "conflict" \in PostPC
    BY DEF PostPC
  <2>2. [post[p] EXCEPT !.pc = "run", !.day = today] \in PostRec
    BY DEF TypeOK, PostRec, PostPC
  <2>3. [post EXCEPT ![p].pc = "run", ![p].day = today] \in [Posts -> PostRec]
    BY <2>2 DEF TypeOK
  <2>4. /\ NextDay(p, "lookup", "notFound") \in [Posts -> PostRec]
        /\ Answer(p, "conflict") \in [Posts -> PostRec]
    BY <2>1, NextDayType, AnswerType
  <2>6. post' \in [Posts -> PostRec]
    BY <1>5, <2>3, <2>4 DEF Lookup
  <2>7. diskFaults' \in 0..MaxDiskFaults
    BY <1>5, FaultsType DEF Lookup, TypeOK
  <2>5. UNCHANGED <<file, chain, fileLocks, today, lapsed, copies, act, acked,
                    appended, ran, crashes>>
    BY <1>5 DEF Lookup
  <2> QED BY <2>6, <2>7, <2>5 DEF TypeOK
<1>6. ASSUME NEW p \in Posts, runUndo(p) PROVE TypeOK'
  <2> DEFINE e == post[p].target
  <2>1. /\ [post[p] EXCEPT !.pc = "record"] \in PostRec
        /\ [post[p] EXCEPT !.pc = "recordFailed"] \in PostRec
    BY DEF TypeOK, PostRec, PostPC
  <2>2. post' \in [Posts -> PostRec]
    BY <1>6, <2>1 DEF runUndo, TypeOK
  <2>3. e \in Entries /\ Reversed(e) \in Nat
    <3>1. e \in Entries
      BY <1>6 DEF runUndo, PostInv, Active, PostPC, Final
    <3>2. copies[e] \in Nat
      BY <3>1 DEF TypeOK
    <3> QED BY <3>1, <3>2 DEF Reversed
  <2>4. copies' \in [Entries -> Nat]
    <3>1. [copies EXCEPT ![e] = Reversed(e)] \in [Entries -> Nat]
      BY <2>3 DEF TypeOK
    <3>2. Reversal(e) \in [Entries -> Nat]
      BY <3>1 DEF Reversal, TypeOK
    <3>3. copies' = Reversal(e) \/ copies' = copies
      BY <1>6 DEF runUndo
    <3> QED BY <3>2, <3>3 DEF TypeOK
  <2>5. ran' \in [Entries -> SUBSET Posts]
    <3>1. ran' = [ran EXCEPT ![e] = @ \cup {p}] \/ ran' = ran
      BY <1>6 DEF runUndo
    <3> QED BY <2>3, <3>1 DEF TypeOK
  <2>6. UNCHANGED <<file, chain, fileLocks, today, lapsed, act, acked, appended,
                    crashes, diskFaults>>
    BY <1>6 DEF runUndo
  <2> QED BY <2>2, <2>4, <2>5, <2>6 DEF TypeOK
<1>7. ASSUME NEW p \in Posts, FinishUndo(p) PROVE TypeOK'
  <2>1. [post[p] EXCEPT !.pc = "mark", !.from = today, !.back = 0] \in PostRec
    BY DEF TypeOK, PostRec, PostPC
  <2>2. [post EXCEPT ![p].pc = "mark", ![p].from = today, ![p].back = 0]
          \in [Posts -> PostRec]
    BY <2>1 DEF TypeOK
  <2>3. "error" \in PostPC
    BY DEF PostPC
  <2>4. post' \in [Posts -> PostRec]
    BY <1>7, <2>2, <2>3, AnswerType DEF FinishUndo
  <2>5. post[p].day \in Days
    BY DEF TypeOK, PostRec
  <2>6. [id |-> p, undoable |-> FALSE, undone |-> None] \in Line
    BY DEF Line, Ids
  <2>7. /\ file' \in [Days -> SUBSET Line]
        /\ appended' \subseteq Ids
        /\ diskFaults' \in 0..MaxDiskFaults
    BY <1>7, <2>5, <2>6, PersistType DEF FinishUndo
  <2>8. UNCHANGED <<chain, fileLocks, today, lapsed, copies, act, acked, ran,
                    crashes>>
    BY <1>7 DEF FinishUndo
  <2> QED BY <2>4, <2>7, <2>8 DEF TypeOK
<1>8. ASSUME NEW p \in Posts, Enqueue(p) PROVE TypeOK'
  <2>1. DayOf(p) \in Days
    BY <1>8 DEF PostInv, Active, PostPC, Final, Enqueue
  <2>2. chain' \in [Days -> Seq(Posts)]
    BY <1>8, <2>1 DEF Enqueue, TypeOK
  <2>3. [of |-> p, is |-> "caught"] \in Promise
    BY DEF Promise
  <2>4. fileLocks' \in [Days -> Promise \cup {None}]
    BY <1>8, <2>3 DEF Enqueue, TypeOK
  <2>5. [post[p] EXCEPT !.pc = "queued"] \in PostRec
    BY DEF TypeOK, PostRec, PostPC
  <2>6. post' \in [Posts -> PostRec]
    BY <1>8, <2>5 DEF Enqueue, TypeOK
  <2>7. UNCHANGED <<file, today, lapsed, copies, act, acked, appended, ran,
                    crashes, diskFaults>>
    BY <1>8 DEF Enqueue
  <2> QED BY <2>2, <2>4, <2>6, <2>7 DEF TypeOK
<1>9. ASSUME NEW p \in Posts, ReadFile(p) PROVE TypeOK'
  <2> DEFINE d == DayOf(p)
  <2>1. d \in Days
    BY <1>9 DEF PostInv, Active, PostPC, Final, ReadFile
  <2>2. /\ chain' \in [Days -> Seq(Posts)]
        /\ fileLocks' \in [Days -> Promise \cup {None}]
    BY <1>9, <2>1, ReleaseType DEF ReadFile, TypeOK
  <2>3. [post[p] EXCEPT !.pc = "rewrite", !.snap = file[d]] \in PostRec
    BY <2>1 DEF TypeOK, PostRec, PostPC
  <2>4. [post EXCEPT ![p].pc = "rewrite", ![p].snap = file[d]]
          \in [Posts -> PostRec]
    BY <2>3 DEF TypeOK
  <2>5. "mark" \in PostPC /\ "ok" \in PostPC
    BY DEF PostPC
  <2>6. post' \in [Posts -> PostRec]
    <3>1. NextDay(p, "mark", "ok") \in [Posts -> PostRec]
      BY <2>5, NextDayType
    <3>2. CASE SkipUnread(p)
      BY <3>1, <3>2, MissedType DEF SkipUnread
    <3>3. CASE SkipDay(p)
      BY <3>1, <3>3 DEF SkipDay
    <3> QED BY <1>9, <2>4, <3>2, <3>3 DEF ReadFile
  <2>7. post[p].target \in Entries
    BY <1>9 DEF ReadFile, PostInv, Active, PostPC, Final
  <2>8. acked' \subseteq Entries
    BY <1>9, <2>7 DEF ReadFile, SkipDay, SkipUnread, TypeOK
  <2>10. diskFaults' \in 0..MaxDiskFaults
    BY <1>9, FaultsType DEF ReadFile, SkipDay, SkipUnread, TypeOK
  <2>9. UNCHANGED <<file, today, lapsed, copies, act, appended, ran, crashes>>
    BY <1>9 DEF ReadFile
  <2> QED BY <2>2, <2>6, <2>8, <2>9, <2>10 DEF TypeOK
<1>10. ASSUME NEW p \in Posts, Rename(p) PROVE TypeOK'
  <2> DEFINE d == DayOf(p)
  <2>1. d \in Days /\ post[p].target \in Entries /\ HasFile(p, d)
    BY <1>10 DEF PostInv, Active, PostPC, Final, Rename
  <2>2. /\ chain' \in [Days -> Seq(Posts)]
        /\ fileLocks' \in [Days -> Promise \cup {None}]
    BY <1>10, <2>1, ReleaseType DEF Rename
  <2>3. post[p].snap \subseteq Line
    BY DEF TypeOK, PostRec
  <2>4. ASSUME NEW x \in Line
        PROVE  [x EXCEPT !.undone = p, !.undoable = FALSE] \in Line
    BY DEF Line
  <2>5. Marked(p, post[p].snap) \subseteq Line
    BY <2>3, <2>4 DEF Marked
  <2>6. file' \in [Days -> SUBSET Line]
    BY <1>10, <2>5 DEF Rename, TypeOK
  <2>7. "ok" \in PostPC
    BY DEF PostPC
  <2>8. post' \in [Posts -> PostRec]
    BY <1>10, <2>7, AnswerType DEF Rename
  <2>9. acked' \subseteq Entries
    BY <1>10, <2>1 DEF Rename, TypeOK
  <2>10. UNCHANGED <<today, lapsed, copies, act, appended, ran, crashes,
                     diskFaults>>
    BY <1>10 DEF Rename
  <2> QED BY <2>2, <2>6, <2>8, <2>9, <2>10 DEF TypeOK
<1>11. ASSUME NEW p \in Posts, RewriteFails(p) PROVE TypeOK'
  <2> DEFINE d == DayOf(p)
  <2>1. d \in Days /\ HasFile(p, d)
    BY <1>11 DEF PostInv, Active, PostPC, Final, RewriteFails
  <2>2. /\ chain' \in [Days -> Seq(Posts)]
        /\ fileLocks' \in [Days -> Promise \cup {None}]
    BY <1>11, <2>1, ReleaseType DEF RewriteFails
  <2>3. "error" \in PostPC
    BY DEF PostPC
  <2>4. post' \in [Posts -> PostRec]
    BY <1>11, <2>3, AnswerType DEF RewriteFails
  <2>5. diskFaults' \in 0..MaxDiskFaults
    BY <1>11, FaultsType DEF RewriteFails
  <2>6. UNCHANGED <<file, today, lapsed, copies, act, acked, appended, ran,
                    crashes>>
    BY <1>11 DEF RewriteFails
  <2> QED BY <2>2, <2>4, <2>5, <2>6 DEF TypeOK
<1>12. ASSUME Midnight PROVE TypeOK'
  <2>1. today' \in Days
    BY <1>12, DaysAssumption DEF Midnight, TypeOK, Days
  <2> QED BY <1>12, <2>1 DEF Midnight, TypeOK
<1>13. ASSUME Crash PROVE TypeOK'
  <2>1. ASSUME NEW e \in Entries PROVE [act[e] EXCEPT !.pc = "dead"] \in ActRec
    BY DEF TypeOK, ActRec, ActPC
  <2>2. act' \in [Entries -> ActRec]
    BY <1>13, <2>1 DEF Crash, TypeOK
  <2>3. "dead" \in PostPC
    BY DEF PostPC
  <2>4. post' \in [Posts -> PostRec]
    BY <1>13, <2>3, BlankType DEF Crash, TypeOK
  <2>5. chain' \in [Days -> Seq(Posts)]
    BY <1>13 DEF Crash
  <2>6. fileLocks' \in [Days -> Promise \cup {None}]
    BY <1>13 DEF Crash
  <2>7. crashes' \in 0..MaxCrashes
    BY <1>13, BoundAssumption DEF Crash, TypeOK
  <2>8. UNCHANGED <<file, today, lapsed, copies, acked, appended, ran,
                    diskFaults>>
    BY <1>13 DEF Crash
  <2> QED BY <2>2, <2>4, <2>5, <2>6, <2>7, <2>8 DEF TypeOK
<1>14. CASE UNCHANGED vars
  BY <1>14 DEF vars, TypeOK
<1> QED
  BY <1>1, <1>2, <1>3, <1>4, <1>5, <1>6, <1>7, <1>8, <1>9, <1>10, <1>11,
     <1>12, <1>13, <1>14 DEF Next, Step

-----------------------------------------------------------------------------
(* What each step of a request does to the requests *)

Others(p) == \A q \in Posts \ {p} : post'[q] = post[q]

SameScan(p) ==
  /\ post'[p].target = post[p].target
  /\ post'[p].from = post[p].from
  /\ post'[p].back = post[p].back
  /\ post'[p].missed = post[p].missed
  /\ post'[p].late = post[p].late

\* Going on to the next day moves the scan back by one; giving up ends the
\* request, and then every day within reach has been seen.
LEMMA NextDayEffect ==
  ASSUME TypeOK, NEW p \in Posts, NEW again \in PostPC, NEW how \in Final,
         post' = NextDay(p, again, how)
  PROVE  /\ Others(p)
         /\ \/ /\ post'[p].pc = again
               /\ post'[p].target = post[p].target
               /\ post'[p].from = post[p].from
               /\ post'[p].back = post[p].back + 1
               /\ post'[p].late = post[p].late
               /\ post[p].back + 1 < DaysBack
               /\ DayOf(p) > 0
            \/ /\ post'[p].pc = how
               /\ ~(post[p].back + 1 < DaysBack /\ DayOf(p) > 0)
         /\ post'[p].pc # how => post'[p].missed = post[p].missed
<1>1. CASE post[p].back + 1 < DaysBack /\ DayOf(p) > 0
  BY <1>1 DEF NextDay, Others, TypeOK, PostRec
<1>2. CASE ~(post[p].back + 1 < DaysBack /\ DayOf(p) > 0)
  BY <1>2 DEF NextDay, Others, TypeOK, PostRec, Answer, Blank
<1> QED BY <1>1, <1>2

\* A request that answers is final, and no other request moves.
LEMMA AnswerEffect ==
  ASSUME TypeOK, NEW p \in Posts, NEW how, post' = Answer(p, how)
  PROVE  Others(p) /\ post'[p].pc = how
  BY DEF Answer, Blank, Others, TypeOK

\* A request starts looking its entry up on the day it arrives.
LEMMA ArriveEffect ==
  ASSUME TypeOK, NEW p \in Posts, NEW e \in Entries, Arrive(p, e)
  PROVE  /\ Others(p)
         /\ post'[p].pc = "lookup"
         /\ post'[p].target = e
         /\ post'[p].from = today
         /\ post'[p].back = 0
         /\ post'[p].late = (e \in acked)
  BY DEF Arrive, Others, TypeOK

\* A lookup goes a day back, answers, or finds the line unmarked.
LEMMA LookupEffect ==
  ASSUME TypeOK, NEW p \in Posts, Lookup(p)
  PROVE  /\ Others(p)
         /\ post[p].pc = "lookup"
         /\ \/ /\ post'[p].pc = "lookup"
               /\ post'[p].target = post[p].target
               /\ post'[p].from = post[p].from
               /\ post'[p].back = post[p].back + 1
               /\ post'[p].late = post[p].late
               /\ post[p].back + 1 < DaysBack
               /\ DayOf(p) > 0
            \/ post'[p].pc \in Final
            \/ /\ post'[p].pc = "run"
               /\ SameScan(p)
               /\ \E x \in FileAt(DayOf(p)) :
                    x.id = post[p].target /\ x.undone = None
<1>1. CASE post' = NextDay(p, "lookup", "notFound")
  <2>1. "lookup" \in PostPC /\ "notFound" \in Final
    BY DEF PostPC, Final
  <2> QED BY <1>1, <2>1, NextDayEffect DEF Lookup
<1>2. ASSUME NEW x \in hits(p, FileAt(DayOf(p))),
             post' = IF isStillUndoable(x)
                       THEN [post EXCEPT ![p].pc = "run", ![p].day = today]
                       ELSE Answer(p, "conflict")
      PROVE  /\ Others(p)
             /\ \/ post'[p].pc \in Final
                \/ /\ post'[p].pc = "run"
                   /\ SameScan(p)
                   /\ x.undone = None
  <2>1. CASE isStillUndoable(x)
    <3>1. post' = [post EXCEPT ![p] = [post[p] EXCEPT !.pc = "run", !.day = today]]
      BY <1>2, <2>1
    <3>2. post[p] \in PostRec
      BY DEF TypeOK
    <3>3. post'[p] = [post[p] EXCEPT !.pc = "run", !.day = today] /\ Others(p)
      BY <3>1 DEF Others, TypeOK
    <3>4. post'[p].pc = "run" /\ SameScan(p)
      BY <3>2, <3>3 DEF SameScan, PostRec
    <3> QED BY <2>1, <3>3, <3>4 DEF isStillUndoable
  <2>2. CASE ~isStillUndoable(x)
    BY <1>2, <2>2, AnswerEffect DEF Final
  <2> QED BY <2>1, <2>2
<1>3. \A x \in hits(p, FileAt(DayOf(p))) :
        x \in FileAt(DayOf(p)) /\ x.id = post[p].target
  BY DEF hits
<1> QED BY <1>1, <1>2, <1>3 DEF Lookup

\* The undo handler is run, or the request ends in an error.
LEMMA runUndoEffect ==
  ASSUME TypeOK, NEW p \in Posts, runUndo(p)
  PROVE  /\ Others(p)
         /\ SameScan(p)
         /\ post[p].pc = "run"
         /\ \/ /\ post'[p].pc = "record"
               /\ ran' = [ran EXCEPT ![post[p].target] = @ \cup {p}]
            \/ post'[p].pc = "recordFailed" /\ ran' = ran
<1>1. post[p] \in PostRec
  BY DEF TypeOK
<1>2. ASSUME NEW a, post' = [post EXCEPT ![p].pc = a]
      PROVE  Others(p) /\ SameScan(p) /\ post'[p].pc = a
  BY <1>1, <1>2 DEF Others, SameScan, TypeOK, PostRec
<1> QED BY <1>2 DEF runUndo

\* What the handler did is recorded, and the marking starts at today.
LEMMA FinishUndoEffect ==
  ASSUME TypeOK, NEW p \in Posts, FinishUndo(p)
  PROVE  /\ Others(p)
         /\ \/ /\ post[p].pc = "record"
               /\ post'[p].pc = "mark"
               /\ post'[p].target = post[p].target
               /\ post'[p].from = today
               /\ post'[p].back = 0
               /\ post'[p].late = post[p].late
            \/ /\ post[p].pc = "recordFailed"
               /\ post'[p].pc = "error"
         /\ \/ file' = [file EXCEPT ![post[p].day] = @ \cup
                          {[id |-> p, undoable |-> FALSE, undone |-> None]}]
            \/ file' = file
<1>1. post[p] \in PostRec
  BY DEF TypeOK
<1>2. CASE post[p].pc = "record"
  <2>1. post' = [post EXCEPT ![p].pc = "mark", ![p].from = today, ![p].back = 0]
    BY <1>2 DEF FinishUndo
  <2>2. /\ Others(p)
        /\ post'[p].pc = "mark"
        /\ post'[p].target = post[p].target
        /\ post'[p].from = today
        /\ post'[p].back = 0
        /\ post'[p].late = post[p].late
    BY <1>1, <2>1 DEF Others, TypeOK, PostRec
  <2> QED BY <1>2, <2>2 DEF FinishUndo, persistEntry
<1>3. CASE post[p].pc = "recordFailed"
  BY <1>3, AnswerEffect DEF FinishUndo, persistEntry
<1> QED BY <1>2, <1>3 DEF FinishUndo

\* A marking waits in its file's chain.
LEMMA EnqueueEffect ==
  ASSUME TypeOK, NEW p \in Posts, Enqueue(p)
  PROVE  /\ Others(p)
         /\ SameScan(p)
         /\ post[p].pc = "mark"
         /\ post'[p].pc = "queued"
<1>1. post[p] \in PostRec
  BY DEF TypeOK
<1> QED BY <1>1 DEF Enqueue, Others, SameScan, TypeOK, PostRec

\* Going on past a file that could not be read is going on to the next day.
LEMMA SkipUnreadEffect ==
  ASSUME TypeOK, NEW p \in Posts, SkipUnread(p)
  PROVE  /\ Others(p)
         /\ \/ /\ post'[p].pc = "mark"
               /\ post'[p].target = post[p].target
               /\ post'[p].from = post[p].from
               /\ post'[p].back = post[p].back + 1
               /\ post'[p].late = post[p].late
               /\ post[p].back + 1 < DaysBack
               /\ DayOf(p) > 0
               /\ post'[p].missed
            \/ /\ post'[p].pc = "ok"
               /\ ~(post[p].back + 1 < DaysBack /\ DayOf(p) > 0)
         /\ acked' = acked
<1> DEFINE next == NextDay(p, "mark", "ok")
<1>0. "mark" \in PostPC /\ "ok" \in PostPC
  BY DEF PostPC
<1>1. next \in [Posts -> PostRec] /\ next[p] \in PostRec
  BY <1>0, NextDayType
<1>2. post' = [next EXCEPT ![p] = [next[p] EXCEPT !.missed = next[p].pc = "mark"]]
  BY DEF SkipUnread
<1>3. /\ post'[p].pc = next[p].pc /\ post'[p].target = next[p].target
      /\ post'[p].from = next[p].from /\ post'[p].back = next[p].back
      /\ post'[p].late = next[p].late
      /\ post'[p].missed = (next[p].pc = "mark")
      /\ \A q \in Posts \ {p} : post'[q] = next[q]
  BY <1>1, <1>2 DEF PostRec
<1>4. CASE post[p].back + 1 < DaysBack /\ DayOf(p) > 0
  <2>1. next = [post EXCEPT ![p] = [post[p] EXCEPT !.back = @ + 1, !.pc = "mark"]]
    BY <1>4 DEF NextDay
  <2>2. post[p] \in PostRec
    BY DEF TypeOK
  <2>3. /\ next[p].pc = "mark" /\ next[p].target = post[p].target
        /\ next[p].from = post[p].from /\ next[p].back = post[p].back + 1
        /\ next[p].late = post[p].late
        /\ \A q \in Posts \ {p} : next[q] = post[q]
    BY <2>1, <2>2 DEF TypeOK, PostRec
  <2> QED BY <1>3, <1>4, <2>3 DEF Others, SkipUnread
<1>5. CASE ~(post[p].back + 1 < DaysBack /\ DayOf(p) > 0)
  <2>1. next = [post EXCEPT ![p] = Blank("ok")]
    BY <1>5 DEF NextDay, Answer
  <2>2. next[p].pc = "ok" /\ \A q \in Posts \ {p} : next[q] = post[q]
    BY <2>1 DEF TypeOK, Blank
  <2> QED BY <1>3, <1>5, <2>2 DEF Others, SkipUnread
<1> QED BY <1>4, <1>5

\* The head of a chain reads the file: the line is in it, or not, or the read
\* fails and nobody knows.
LEMMA ReadFileEffect ==
  ASSUME TypeOK, NEW p \in Posts, ReadFile(p)
  PROVE  /\ Others(p)
         /\ post[p].pc = "queued"
         /\ HasFile(p, DayOf(p))
         /\ \/ /\ post'[p].pc = "mark"
               /\ post'[p].target = post[p].target
               /\ post'[p].from = post[p].from
               /\ post'[p].back = post[p].back + 1
               /\ post'[p].late = post[p].late
               /\ post[p].back + 1 < DaysBack
               /\ DayOf(p) > 0
               /\ ~post'[p].missed
                    => ~post[p].missed /\ hits(p, file[DayOf(p)]) = {}
               /\ acked' = acked
               /\ Release(p, DayOf(p))
            \/ /\ post'[p].pc = "ok"
               /\ ~(post[p].back + 1 < DaysBack /\ DayOf(p) > 0)
               /\ acked' # acked
                    => /\ ~post[p].missed /\ hits(p, file[DayOf(p)]) = {}
                       /\ acked' = acked \cup {post[p].target}
               /\ Release(p, DayOf(p))
            \/ /\ post'[p].pc = "rewrite"
               /\ SameScan(p)
               /\ post'[p].snap = file[DayOf(p)]
               /\ hits(p, file[DayOf(p)]) # {}
               /\ acked' = acked
               /\ chain' = chain
<1> DEFINE d == DayOf(p)
<1>1. post[p] \in PostRec
  BY DEF TypeOK
<1>a. post[p].pc = "queued" /\ HasFile(p, d)
  BY DEF ReadFile
<1>2. ASSUME hits(p, file[d]) = {}, SkipDay(p), Release(p, d)
      PROVE  /\ Others(p)
             /\ \/ /\ post'[p].pc = "mark"
                   /\ post'[p].target = post[p].target
                   /\ post'[p].from = post[p].from
                   /\ post'[p].back = post[p].back + 1
                   /\ post'[p].late = post[p].late
                   /\ post[p].back + 1 < DaysBack
                   /\ DayOf(p) > 0
                   /\ post'[p].missed = post[p].missed
                   /\ acked' = acked
                \/ /\ post'[p].pc = "ok"
                   /\ ~(post[p].back + 1 < DaysBack /\ DayOf(p) > 0)
                   /\ acked' = acked \/ (/\ ~post[p].missed
                                         /\ acked' = acked \cup {post[p].target})
  <2>1. "mark" \in PostPC /\ "ok" \in Final /\ "mark" # "ok"
    BY DEF PostPC, Final
  <2>2. post' = NextDay(p, "mark", "ok")
    BY <1>2 DEF SkipDay
  <2>3. acked' = IF post'[p].pc = "ok" /\ ~post[p].missed
                   THEN acked \cup {post[p].target} ELSE acked
    BY <1>2 DEF SkipDay
  <2> QED BY <2>1, <2>2, <2>3, NextDayEffect
<1>3. ASSUME hits(p, file[d]) # {},
             post' = [post EXCEPT ![p].pc = "rewrite", ![p].snap = file[d]]
      PROVE  Others(p) /\ SameScan(p) /\ post'[p].pc = "rewrite"
             /\ post'[p].snap = file[d]
  BY <1>1, <1>3 DEF Others, SameScan, TypeOK, PostRec
<1>4. \/ hits(p, file[d]) = {} /\ SkipDay(p) /\ Release(p, d)
      \/ SkipUnread(p) /\ Release(p, d)
      \/ /\ hits(p, file[d]) # {}
         /\ post' = [post EXCEPT ![p].pc = "rewrite", ![p].snap = file[d]]
         /\ chain' = chain /\ acked' = acked
  BY DEF ReadFile
<1>5. CASE hits(p, file[d]) = {} /\ SkipDay(p) /\ Release(p, d)
  BY <1>a, <1>2, <1>5
<1>6. CASE SkipUnread(p) /\ Release(p, d)
  BY <1>a, <1>6, SkipUnreadEffect
<1>7. CASE /\ hits(p, file[d]) # {}
           /\ post' = [post EXCEPT ![p].pc = "rewrite", ![p].snap = file[d]]
           /\ chain' = chain /\ acked' = acked
  BY <1>a, <1>3, <1>7
<1> QED BY <1>4, <1>5, <1>6, <1>7

\* The copy replaces the file, and the request is answered.
LEMMA RenameEffect ==
  ASSUME TypeOK, NEW p \in Posts, Rename(p)
  PROVE  Others(p) /\ post[p].pc = "rewrite" /\ post'[p].pc = "ok"
  BY AnswerEffect DEF Rename

\* A rewrite that fails ends the request in an error.
LEMMA RewriteFailsEffect ==
  ASSUME TypeOK, NEW p \in Posts, RewriteFails(p)
  PROVE  Others(p) /\ post[p].pc = "rewrite" /\ post'[p].pc = "error"
  BY AnswerEffect DEF RewriteFails

\* A restart leaves no request at work.
LEMMA CrashEffect ==
  ASSUME TypeOK, Crash
  PROVE  \A p \in Posts : post'[p].pc \in Final \cup {"idle"}
  BY DEF Crash, Blank, Final

-----------------------------------------------------------------------------
(* Who holds a day file *)

\* A request that goes on scanning is still within the files there are.
LEMMA SameScanDay ==
  ASSUME NEW p \in Posts, SameScan(p) PROVE DayOf(p)' = DayOf(p)
  BY DEF SameScan, DayOf

\* One file back is one day back.
LEMMA PreviousDay ==
  ASSUME TypeOK, NEW p \in Posts, DayOf(p) > 0,
         post'[p].from = post[p].from, post'[p].back = post[p].back + 1
  PROVE  DayOf(p)' = DayOf(p) - 1 /\ DayOf(p)' \in Days
<1>1. /\ post[p].from \in Nat /\ post[p].back \in Nat
      /\ post[p].from <= MaxDay
  BY DaysAssumption DEF TypeOK, PostRec, Days
<1> QED BY <1>1, DaysAssumption DEF DayOf, Days

\* withFileLock: whoever rewrites a day file heads its chain, so nobody else
\* rewrites it.
LEMMA OneHolder ==
  ASSUME NEW p \in Posts, NEW q \in Posts, NEW d, HasFile(p, d), HasFile(q, d)
  PROVE  p = q
  BY DEF HasFile

\* The step of one request never takes a file away from another.
LEMMA AppendKeepsHead ==
  ASSUME TypeOK, NEW p \in Posts, NEW q \in Posts, Enqueue(p), DayOf(p) \in Days,
         NEW d \in Days, HasFile(q, d)
  PROVE  HasFile(q, d)'
<1>1. chain' = [chain EXCEPT ![DayOf(p)] = Append(chain[DayOf(p)], p)]
  BY DEF Enqueue
<1>2. chain[d] \in Seq(Posts) /\ chain[d] # <<>> /\ Head(chain[d]) = q
  BY DEF TypeOK, HasFile
<1>3. chain'[d] = chain[d] \/ chain'[d] = Append(chain[d], p)
  BY <1>1 DEF TypeOK
<1>4. Append(chain[d], p) # <<>> /\ Head(Append(chain[d], p)) = q
  BY <1>2
<1> QED BY <1>2, <1>3, <1>4 DEF HasFile

\* Leaving a chain moves no head of another one.
LEMMA ReleaseKeepsOthers ==
  ASSUME TypeOK, NEW p \in Posts, NEW q \in Posts, p # q, NEW d \in Days,
         HasFile(p, d), Release(p, d), NEW c \in Days, HasFile(q, c)
  PROVE  HasFile(q, c)'
<1>1. c # d
  BY OneHolder
<1>2. chain'[c] = chain[c]
  BY <1>1 DEF Release, TypeOK
<1> QED BY <1>2 DEF HasFile

\* A request at work has an entry and a file; one that rewrites, the file itself.
LEMMA PostStep == TypeInv /\ [Next]_vars => PostInv'
<1> SUFFICES ASSUME TypeOK, PostInv, [Next]_vars, NEW q \in Posts
             PROVE  /\ post'[q].pc \in Active
                         => post'[q].target \in Entries /\ DayOf(q)' \in Days
                    /\ post'[q].pc = "rewrite" => HasFile(q, DayOf(q))'
  BY DEF TypeInv, PostInv
<1> DEFINE Work == post'[q].pc \in Active
                     => post'[q].target \in Entries /\ DayOf(q)' \in Days
           Hold == post'[q].pc = "rewrite" => HasFile(q, DayOf(q))'
<1>0. /\ post[q].pc \in Active => post[q].target \in Entries /\ DayOf(q) \in Days
      /\ post[q].pc = "rewrite" => HasFile(q, DayOf(q))
      /\ "rewrite" \in Active
  BY DEF PostInv, Active, PostPC, Final
<1>1. ASSUME post' = post, chain' = chain PROVE Work /\ Hold
  BY <1>0, <1>1 DEF DayOf, HasFile
<1>2. ASSUME post'[q] = post[q], chain' = chain PROVE Work /\ Hold
  BY <1>0, <1>2 DEF DayOf, HasFile
<1>3. ASSUME NEW e \in Entries, Perform(e) \/ FinishAction(e) \/ Lapse(e)
      PROVE  Work /\ Hold
  BY <1>1, <1>3 DEF Perform, FinishAction, Lapse
<1>4. ASSUME NEW p \in Posts, NEW e \in Entries, Arrive(p, e) PROVE Work /\ Hold
  <2>1. chain' = chain
    BY <1>4 DEF Arrive
  <2>2. CASE q = p
    <3>1. /\ post'[q].pc = "lookup" /\ post'[q].target = e
          /\ post'[q].from = today /\ post'[q].back = 0
      BY <1>4, <2>2, ArriveEffect
    <3>2. DayOf(q)' \in Days
      BY <3>1, DaysAssumption DEF DayOf, TypeOK, Days
    <3> QED BY <3>1, <3>2
  <2> QED BY <1>2, <1>4, <2>1, <2>2, ArriveEffect DEF Others
<1>5. ASSUME NEW p \in Posts, Lookup(p) PROVE Work /\ Hold
  <2>1. chain' = chain
    BY <1>5 DEF Lookup
  <2>2. CASE q = p
    <3>1. post[q].pc \in Active
      BY <1>5, <2>2 DEF Lookup, Active, PostPC, Final
    <3>2. CASE post'[q].pc = "lookup"
      BY <1>0, <1>5, <2>2, <3>1, <3>2, LookupEffect, PreviousDay, SameScanDay
         DEF SameScan, Final
    <3>3. CASE post'[q].pc \in Final
      BY <3>3 DEF Active, Final
    <3>4. CASE post'[q].pc = "run"
      BY <1>0, <1>5, <2>2, <3>1, <3>4, LookupEffect, SameScanDay DEF SameScan, Final
    <3> QED BY <1>5, <2>2, <3>2, <3>3, <3>4, LookupEffect
  <2> QED BY <1>2, <1>5, <2>1, <2>2, LookupEffect DEF Others
<1>6. ASSUME NEW p \in Posts, runUndo(p) PROVE Work /\ Hold
  <2>1. chain' = chain
    BY <1>6 DEF runUndo
  <2>2. CASE q = p
    <3>1. post[q].pc \in Active
      BY <1>6, <2>2 DEF runUndo, Active, PostPC, Final
    <3> QED BY <1>0, <1>6, <2>2, <3>1, runUndoEffect, SameScanDay DEF SameScan
  <2> QED BY <1>2, <1>6, <2>1, <2>2, runUndoEffect DEF Others
<1>7. ASSUME NEW p \in Posts, FinishUndo(p) PROVE Work /\ Hold
  <2>1. chain' = chain
    BY <1>7 DEF FinishUndo
  <2>2. CASE q = p
    <3>1. post[q].pc \in Active
      BY <1>7, <2>2 DEF FinishUndo, Active, PostPC, Final
    <3>2. CASE post'[q].pc = "mark"
      <4>1. post'[q].from = today /\ post'[q].back = 0
            /\ post'[q].target = post[q].target
        BY <1>7, <2>2, <3>2, FinishUndoEffect
      <4>2. DayOf(q)' \in Days
        BY <4>1, DaysAssumption DEF DayOf, TypeOK, Days
      <4> QED BY <1>0, <3>1, <3>2, <4>1, <4>2
    <3>3. CASE post'[q].pc = "error"
      BY <3>3 DEF Active, Final
    <3> QED BY <1>7, <2>2, <3>2, <3>3, FinishUndoEffect
  <2> QED BY <1>2, <1>7, <2>1, <2>2, FinishUndoEffect DEF Others
<1>8. ASSUME NEW p \in Posts, Enqueue(p) PROVE Work /\ Hold
  <2>1. post[p].pc \in Active
    BY <1>8 DEF Enqueue, Active, PostPC, Final
  <2>2. DayOf(p) \in Days
    BY <2>1 DEF PostInv
  <2>3. CASE q = p
    BY <1>0, <1>8, <2>1, <2>3, EnqueueEffect, SameScanDay DEF SameScan
  <2>4. CASE q # p
    <3>1. post'[q] = post[q]
      BY <1>8, <2>4, EnqueueEffect DEF Others
    <3>2. DayOf(q)' = DayOf(q)
      BY <3>1 DEF DayOf
    <3>3. ASSUME post[q].pc = "rewrite" PROVE HasFile(q, DayOf(q))'
      <4>1. HasFile(q, DayOf(q)) /\ DayOf(q) \in Days
        BY <1>0, <3>3
      <4>2. \A d \in Days : HasFile(q, d) => HasFile(q, d)'
        BY <1>8, <2>2, AppendKeepsHead
      <4> QED BY <3>2, <4>1, <4>2 DEF HasFile
    <3> QED BY <1>0, <3>1, <3>2, <3>3
  <2> QED BY <2>3, <2>4
<1>9. ASSUME NEW p \in Posts, Release(p, DayOf(p)), HasFile(p, DayOf(p)),
             post[p].pc \in Active, q # p, Others(p)
      PROVE  Work /\ Hold
  <2>1. post'[q] = post[q]
    BY <1>9 DEF Others
  <2>2. DayOf(q)' = DayOf(q)
    BY <2>1 DEF DayOf
  <2>3. DayOf(p) \in Days
    BY <1>9 DEF PostInv
  <2>4. ASSUME post[q].pc = "rewrite" PROVE HasFile(q, DayOf(q))'
    <3>1. HasFile(q, DayOf(q)) /\ DayOf(q) \in Days
      BY <1>0, <2>4
    <3>2. \A d \in Days : HasFile(q, d) => HasFile(q, d)'
      BY <1>9, <2>3, ReleaseKeepsOthers
    <3> QED BY <2>2, <3>1, <3>2 DEF HasFile
  <2> QED BY <1>0, <2>1, <2>2, <2>4
<1>10. ASSUME NEW p \in Posts, ReadFile(p) PROVE Work /\ Hold
  <2>1. post[p].pc \in Active /\ HasFile(p, DayOf(p)) /\ Others(p)
    BY <1>10, ReadFileEffect DEF ReadFile, Active, PostPC, Final
  <2>2. CASE q = p
    <3>1. CASE post'[q].pc = "mark"
      BY <1>0, <1>10, <2>1, <2>2, <3>1, ReadFileEffect, PreviousDay
    <3>2. CASE post'[q].pc = "ok"
      BY <3>2 DEF Active, Final
    <3>3. CASE post'[q].pc = "rewrite"
      <4>1. SameScan(q) /\ chain' = chain
        BY <1>10, <2>2, <3>3, ReadFileEffect
      <4>2. DayOf(q)' = DayOf(q) /\ HasFile(q, DayOf(q))
        BY <2>1, <2>2, <4>1, SameScanDay
      <4>3. HasFile(q, DayOf(q))'
        BY <4>1, <4>2 DEF HasFile
      <4> QED BY <1>0, <2>1, <2>2, <4>1, <4>2, <4>3 DEF SameScan
    <3> QED BY <1>10, <2>2, <3>1, <3>2, <3>3, ReadFileEffect
  <2>3. CASE q # p /\ chain' = chain
    BY <1>2, <2>1, <2>3 DEF Others
  <2>4. CASE q # p /\ Release(p, DayOf(p))
    BY <1>9, <2>1, <2>4
  <2> QED BY <1>10, <2>2, <2>3, <2>4, ReadFileEffect
<1>11. ASSUME NEW p \in Posts, Rename(p) \/ RewriteFails(p) PROVE Work /\ Hold
  <2>1. post[p].pc = "rewrite" /\ Others(p) /\ post'[p].pc \in Final
    BY <1>11, RenameEffect, RewriteFailsEffect DEF Final
  <2>2. Release(p, DayOf(p))
    BY <1>11 DEF Rename, RewriteFails
  <2>3. HasFile(p, DayOf(p)) /\ post[p].pc \in Active
    BY <2>1 DEF PostInv, Active, PostPC, Final
  <2>4. CASE q = p
    BY <2>1, <2>4 DEF Active, Final
  <2>5. CASE q # p
    BY <1>9, <2>1, <2>2, <2>3, <2>5
  <2> QED BY <2>4, <2>5
<1>12. CASE Midnight
  BY <1>1, <1>12 DEF Midnight
<1>13. CASE Crash
  BY <1>13, CrashEffect DEF Active, Final
<1>14. CASE UNCHANGED vars
  BY <1>1, <1>14 DEF vars
<1> QED
  BY <1>3, <1>4, <1>5, <1>6, <1>7, <1>8, <1>10, <1>11, <1>12, <1>13, <1>14
     DEF Next, Step

-----------------------------------------------------------------------------
(* What no step ever undoes *)

\* An action whose line is written stays so, and so does the day it started on.
LEMMA ActEffect ==
  ASSUME TypeOK, [Next]_vars, NEW e \in Entries
  PROVE  /\ act[e].pc = "logged" => act'[e] = act[e]
         /\ act'[e].day = act[e].day \/ act'[e].day = today
<1>1. ASSUME NEW f \in Entries, Perform(f)
      PROVE  /\ act[e].pc = "logged" => act'[e] = act[e]
             /\ act'[e].day = act[e].day \/ act'[e].day = today
  <2>1. PICK r \in {"done", "failed"} :
          act' = [act EXCEPT ![f] = [pc |-> r, day |-> today]]
    BY <1>1 DEF Perform
  <2>2. act \in [Entries -> ActRec] /\ act[f].pc # "logged"
    BY <1>1 DEF Perform, TypeOK
  <2>3. act'[e] = IF e = f THEN [pc |-> r, day |-> today] ELSE act[e]
    BY <2>1, <2>2
  <2> QED BY <2>2, <2>3
<1>2. ASSUME NEW f \in Entries, FinishAction(f)
      PROVE  /\ act[e].pc = "logged" => act'[e] = act[e]
             /\ act'[e].day = act[e].day
  <2>1. act[f] \in ActRec /\ act[f].pc # "logged"
    BY <1>2 DEF TypeOK, FinishAction
  <2>2. act' = [act EXCEPT ![f] = [act[f] EXCEPT !.pc = "logged"]]
    BY <1>2 DEF FinishAction
  <2>3. [act[f] EXCEPT !.pc = "logged"].day = act[f].day
    BY <2>1 DEF ActRec
  <2> QED BY <2>1, <2>2, <2>3 DEF TypeOK
<1>3. ASSUME Crash
      PROVE  /\ act[e].pc = "logged" => act'[e] = act[e]
             /\ act'[e].day = act[e].day
  <2>1. act[e] \in ActRec
    BY DEF TypeOK
  <2>2. [act[e] EXCEPT !.pc = "dead"].day = act[e].day
    BY <2>1 DEF ActRec
  <2> QED BY <1>3, <2>2 DEF Crash
<1>4. CASE act' = act
  BY <1>4
<1>5. ASSUME NEW p \in Posts, Step(p) PROVE act' = act
  BY <1>5 DEF Step, Lookup, runUndo, FinishUndo, Enqueue, ReadFile, Rename,
              RewriteFails
<1>6. ASSUME NEW p \in Posts, NEW f \in Entries, Arrive(p, f) PROVE act' = act
  BY <1>6 DEF Arrive
<1>7. ASSUME NEW f \in Entries, Lapse(f) PROVE act' = act
  BY <1>7 DEF Lapse
<1>8. CASE Midnight \/ UNCHANGED vars
  BY <1>4, <1>8 DEF Midnight, vars
<1> QED BY <1>1, <1>2, <1>3, <1>4, <1>5, <1>6, <1>7, <1>8 DEF Next

\* The day never goes back.
LEMMA TodayGrows ==
  ASSUME TypeOK, [Next]_vars PROVE today <= today'
<1>1. today \in Int
  BY DEF TypeOK, Days
<1>2. CASE Midnight
  BY <1>1, <1>2 DEF Midnight
<1>3. CASE today' = today
  BY <1>1, <1>3
<1>4. ASSUME NEW e \in Entries, Perform(e) \/ FinishAction(e) \/ Lapse(e)
      PROVE  today' = today
  BY <1>4 DEF Perform, FinishAction, Lapse
<1>5. ASSUME NEW p \in Posts, Step(p) PROVE today' = today
  BY <1>5 DEF Step, Lookup, runUndo, FinishUndo, Enqueue, ReadFile, Rename,
              RewriteFails
<1>6. ASSUME NEW p \in Posts, NEW e \in Entries, Arrive(p, e) PROVE today' = today
  BY <1>6 DEF Arrive
<1>7. CASE Crash \/ UNCHANGED vars
  BY <1>3, <1>7 DEF Crash, vars
<1> QED BY <1>2, <1>3, <1>4, <1>5, <1>6, <1>7 DEF Next

\* A handler that ran has run; an undo that was answered has been answered.
LEMMA HistoryGrows ==
  ASSUME TypeInv, [Next]_vars
  PROVE  /\ \A e \in Entries : ran[e] \subseteq ran'[e]
         /\ acked \subseteq acked'
<1>1. ASSUME ran' = ran, acked' = acked
      PROVE  /\ \A e \in Entries : ran[e] \subseteq ran'[e]
             /\ acked \subseteq acked'
  BY <1>1
<1>2. ASSUME NEW p \in Posts, runUndo(p)
      PROVE  /\ \A e \in Entries : ran[e] \subseteq ran'[e]
             /\ acked' = acked
  <2>1. \A e \in Entries : ran[e] \subseteq ran'[e]
    <3>1. PICK t : ran' = [ran EXCEPT ![t] = @ \cup {p}] \/ ran' = ran
      BY <1>2, runUndoEffect DEF TypeInv
    <3>2. ran \in [Entries -> SUBSET Posts]
      BY DEF TypeInv, TypeOK
    <3> QED BY <3>1, <3>2
  <2> QED BY <1>2, <2>1 DEF runUndo
<1>3. ASSUME NEW p \in Posts, ReadFile(p) \/ Rename(p)
      PROVE  ran' = ran /\ acked \subseteq acked'
  BY <1>3 DEF ReadFile, SkipDay, SkipUnread, Rename
<1>4. ASSUME NEW p \in Posts,
             Lookup(p) \/ FinishUndo(p) \/ Enqueue(p) \/ RewriteFails(p)
      PROVE  ran' = ran /\ acked' = acked
  BY <1>4 DEF Lookup, FinishUndo, Enqueue, RewriteFails
<1>5. ASSUME NEW e \in Entries, Perform(e) \/ FinishAction(e) \/ Lapse(e)
      PROVE  ran' = ran /\ acked' = acked
  BY <1>5 DEF Perform, FinishAction, Lapse
<1>6. ASSUME NEW p \in Posts, NEW e \in Entries, Arrive(p, e)
      PROVE  ran' = ran /\ acked' = acked
  BY <1>6 DEF Arrive
<1>7. CASE Midnight \/ Crash \/ UNCHANGED vars
  BY <1>1, <1>7 DEF Midnight, Crash, vars
<1> QED BY <1>1, <1>2, <1>3, <1>4, <1>5, <1>6, <1>7 DEF Next, Step

\* So a well-formed line stays well-formed.
LEMMA LineKept ==
  ASSUME TypeInv, [Next]_vars, NEW d \in Days, NEW x \in Line, LineOK(d, x)
  PROVE  LineOK(d, x)'
<1>1. ASSUME x.id \in Entries PROVE act'[x.id].pc = "logged" /\ act'[x.id].day = d
  BY <1>1, ActEffect DEF LineOK, TypeInv
<1>2. ASSUME x.undone # None PROVE x.id \in Entries /\ x.undone \in ran'[x.id]
  BY <1>2, HistoryGrows DEF LineOK
<1> QED BY <1>1, <1>2 DEF LineOK

\* No action starts in the future.
LEMMA ActStep == TypeInv /\ ActInv /\ [Next]_vars => ActInv'
<1> SUFFICES ASSUME TypeInv, ActInv, [Next]_vars, NEW e \in Entries
             PROVE  act'[e].day <= today'
  BY DEF ActInv
<1>1. act[e].day <= today /\ act[e].day \in Int /\ today \in Int
  BY DEF ActInv, TypeInv, TypeOK, ActRec, Days
<1>2. today <= today' /\ today' \in Int
  BY TodayGrows, TypeStep DEF TypeInv, TypeOK, Days
<1>3. act'[e].day = act[e].day \/ act'[e].day = today
  BY ActEffect DEF TypeInv
<1> QED BY <1>1, <1>2, <1>3

-----------------------------------------------------------------------------
(* What a request's place in the protocol says *)

\* RequestInv survives every step: a request's place tells what it did.
LEMMA RequestStep ==
  TypeInv /\ ActInv /\ RequestInv /\ FileInv /\ [Next]_vars => RequestInv'
<1> SUFFICES ASSUME TypeInv, ActInv, RequestInv, FileInv, [Next]_vars,
                    NEW q \in Posts
             PROVE
               /\ post'[q].pc \in Active
                    => post'[q].back < DaysBack /\ post'[q].from <= today'
               /\ post'[q].pc \in Active \ {"lookup"}
                    => act'[post'[q].target].pc = "logged"
               /\ post'[q].pc \in {"record", "mark", "queued", "rewrite"}
                    => q \in ran'[post'[q].target]
               /\ post'[q].pc \in {"mark", "queued", "rewrite"}
                    => act'[post'[q].target].day <= post'[q].from
  BY DEF RequestInv
<1> DEFINE Goal ==
      /\ post'[q].pc \in Active
           => post'[q].back < DaysBack /\ post'[q].from <= today'
      /\ post'[q].pc \in Active \ {"lookup"}
           => act'[post'[q].target].pc = "logged"
      /\ post'[q].pc \in {"record", "mark", "queued", "rewrite"}
           => q \in ran'[post'[q].target]
      /\ post'[q].pc \in {"mark", "queued", "rewrite"}
           => act'[post'[q].target].day <= post'[q].from
<1>a. TypeOK /\ PostInv
  BY DEF TypeInv
<1>b. /\ post[q].from \in Int /\ post[q].back \in Int /\ today \in Int
      /\ today' \in Int /\ today <= today'
  <2>1. TypeOK' /\ today <= today'
    BY <1>a, TypeStep, TodayGrows DEF TypeInv
  <2>2. today' \in Int
    BY <2>1 DEF TypeOK, Days
  <2>3. post[q] \in PostRec /\ today \in Int
    BY <1>a DEF TypeOK, Days
  <2>4. post[q].from \in Int /\ post[q].back \in Int
    BY <2>3 DEF PostRec, Days
  <2> QED BY <2>1, <2>2, <2>3, <2>4
<1>c. /\ post[q].pc \in Active => post[q].back < DaysBack /\ post[q].from <= today
      /\ post[q].pc \in Active \ {"lookup"} => act[post[q].target].pc = "logged"
      /\ post[q].pc \in {"record", "mark", "queued", "rewrite"}
           => q \in ran[post[q].target]
      /\ post[q].pc \in {"mark", "queued", "rewrite"}
           => act[post[q].target].day <= post[q].from
  BY DEF RequestInv
<1>d. /\ post[q].pc \in Active => post[q].target \in Entries
      /\ {"record", "mark", "queued", "rewrite"} \subseteq Active \ {"lookup"}
      /\ "lookup" \in Active /\ "run" \in Active \ {"lookup"}
      /\ "recordFailed" \in Active \ {"lookup"}
  BY <1>a DEF PostInv, Active, PostPC, Final
<1>e. /\ \A e \in Entries : act[e].pc = "logged" => act'[e] = act[e]
      /\ \A e \in Entries : ran[e] \subseteq ran'[e]
  BY <1>a, ActEffect, HistoryGrows
<1>f. \A x \in Final : x \notin Active
  BY DEF Active
\* A request that stays where it is.
<1>1. ASSUME post'[q].pc = post[q].pc, post'[q].target = post[q].target,
             post'[q].from = post[q].from, post'[q].back = post[q].back
      PROVE  Goal
  BY <1>1, <1>b, <1>c, <1>d, <1>e
<1>2. ASSUME NEW p \in Posts, NEW e \in Entries, Arrive(p, e) PROVE Goal
  <2>1. CASE q = p
    BY <1>2, <2>1, <1>a, <1>b, DaysAssumption, ArriveEffect DEF Arrive, Active
  <2> QED BY <1>1, <1>2, <2>1, <1>a, ArriveEffect DEF Others
<1>3. ASSUME Lookup(q) PROVE Goal
  <2>1. CASE post'[q].pc = "lookup"
    <3>1. post[q].pc = "lookup"
      BY <1>3 DEF Lookup
    <3>2. post'[q].from = post[q].from /\ post'[q].back < DaysBack
      BY <1>3, <1>a, <2>1, LookupEffect DEF Final
    <3> QED BY <1>b, <1>c, <1>d, <2>1, <3>1, <3>2
  <2>2. CASE post'[q].pc = "run"
    <3>1. /\ post[q].pc = "lookup"
          /\ SameScan(q)
          /\ \E x \in FileAt(DayOf(q)) : x.id = post[q].target
      BY <1>3, <1>a, <2>2, LookupEffect DEF Final
    <3>2. post[q].target \in Entries /\ DayOf(q) \in Days
      BY <1>a, <1>d, <3>1 DEF PostInv
    <3>3. act[post[q].target].pc = "logged"
      BY <3>1, <3>2 DEF FileInv, LineOK, FileAt
    <3>4. act'[post'[q].target].pc = "logged"
      BY <1>e, <3>1, <3>2, <3>3 DEF SameScan
    <3> QED BY <1>b, <1>c, <1>d, <2>2, <3>1, <3>4 DEF SameScan
  <2> QED BY <1>3, <1>a, <1>d, <1>f, <2>1, <2>2, LookupEffect
<1>4. ASSUME runUndo(q) PROVE Goal
  <2>1. /\ SameScan(q) /\ post[q].pc = "run"
        /\ \/ /\ post'[q].pc = "record"
              /\ ran' = [ran EXCEPT ![post[q].target] = @ \cup {q}]
           \/ post'[q].pc = "recordFailed"
    BY <1>4, <1>a, runUndoEffect
  <2>2. post[q].target \in Entries
    BY <1>d, <2>1
  <2>3. post'[q].pc = "record" => q \in ran'[post'[q].target]
    BY <1>a, <2>1, <2>2 DEF SameScan, TypeOK
  <2>4. act'[post'[q].target].pc = "logged"
    BY <1>c, <1>d, <1>e, <2>1, <2>2 DEF SameScan
  <2> QED BY <1>b, <1>c, <1>d, <2>1, <2>3, <2>4 DEF SameScan
<1>5. ASSUME FinishUndo(q) PROVE Goal
  <2>1. CASE post'[q].pc = "mark"
    <3>1. /\ post[q].pc = "record" /\ post'[q].target = post[q].target
          /\ post'[q].from = today /\ post'[q].back = 0
      BY <1>5, <1>a, <2>1, FinishUndoEffect
    <3>2. /\ post[q].target \in Entries
          /\ act[post[q].target].pc = "logged" /\ q \in ran[post[q].target]
          /\ act[post[q].target].day <= today
      BY <1>c, <1>d, <3>1 DEF ActInv
    <3>3. /\ act'[post[q].target] = act[post[q].target]
          /\ q \in ran'[post[q].target]
      BY <1>e, <3>2
    <3> QED BY <1>b, <1>d, <2>1, <3>1, <3>2, <3>3, DaysAssumption
  <2> QED BY <1>5, <1>a, <1>d, <1>f, <2>1, FinishUndoEffect DEF Final
<1>6. ASSUME Enqueue(q) PROVE Goal
  BY <1>6, <1>a, <1>b, <1>c, <1>d, <1>e, EnqueueEffect DEF SameScan
<1>7. ASSUME ReadFile(q) PROVE Goal
  <2>1. post[q].pc = "queued"
    BY <1>7 DEF ReadFile
  <2>2. CASE post'[q].pc \in {"mark", "rewrite"}
    <3>1. /\ post'[q].target = post[q].target /\ post'[q].from = post[q].from
          /\ post'[q].back < DaysBack
      BY <1>7, <1>a, <1>c, <1>d, <2>1, <2>2, ReadFileEffect DEF SameScan
    <3> QED BY <1>b, <1>c, <1>d, <1>e, <2>1, <2>2, <3>1
  <2>3. CASE post'[q].pc = "ok"
    BY <1>d, <1>f, <2>3 DEF Final
  <2> QED BY <1>7, <1>a, <2>2, <2>3, ReadFileEffect
<1>8. ASSUME Rename(q) \/ RewriteFails(q) PROVE Goal
  <2>1. post'[q].pc \in Final
    BY <1>8, <1>a, RenameEffect, RewriteFailsEffect DEF Final
  <2> QED BY <1>d, <1>f, <2>1
<1>9. ASSUME NEW p \in Posts, p # q, Step(p) PROVE Goal
  <2>1. Others(p)
    BY <1>9, <1>a, LookupEffect, runUndoEffect, FinishUndoEffect, EnqueueEffect,
       ReadFileEffect, RenameEffect, RewriteFailsEffect DEF Step
  <2> QED BY <1>1, <1>9, <2>1 DEF Others
<1>10. CASE Crash
  <2>1. post'[q].pc \notin Active
    BY <1>10, <1>a, CrashEffect DEF Active
  <2> QED BY <1>d, <2>1
<1>11. CASE post' = post
  BY <1>1, <1>11
<1>12. ASSUME NEW e \in Entries, Perform(e) \/ FinishAction(e) \/ Lapse(e)
       PROVE  post' = post
  BY <1>12 DEF Perform, FinishAction, Lapse
<1>13. CASE Midnight \/ UNCHANGED vars
  BY <1>11, <1>13 DEF Midnight, vars
<1>14. ASSUME NEW p \in Posts, Step(p) PROVE Goal
  BY <1>3, <1>4, <1>5, <1>6, <1>7, <1>8, <1>9, <1>14 DEF Step
<1> QED
  BY <1>2, <1>10, <1>11, <1>12, <1>13, <1>14 DEF Next

-----------------------------------------------------------------------------
(* Where the lines of a day file come from *)

AppendedBy(i, x) == x.id = i /\ x.undone = None

\* What a line becomes in a rename of p.
Rewritten(p, y, x) ==
  /\ x.id = y.id
  /\ IF y.id = post[p].target THEN x.undone = p ELSE x = y

\* A line of a day file was there, or an append put it there unmarked, or a
\* rename copied it from what the renaming request had read.
LEMMA FileEffect ==
  ASSUME TypeInv, [Next]_vars, NEW d \in Days, NEW x \in file'[d]
  PROVE  \/ x \in file[d]
         \/ \E e \in Entries :
              FinishAction(e) /\ d = act[e].day /\ AppendedBy(e, x)
         \/ \E p \in Posts : FinishUndo(p) /\ AppendedBy(p, x)
         \/ \E p \in Posts : /\ Rename(p) /\ d = DayOf(p)
                             /\ \E y \in post[p].snap : Rewritten(p, y, x)
<1>a. file \in [Days -> SUBSET Line] /\ post \in [Posts -> PostRec]
  BY DEF TypeInv, TypeOK
<1>1. CASE file' = file
  BY <1>1
<1>2. ASSUME NEW e \in Entries, FinishAction(e)
      PROVE  x \in file[d] \/ (d = act[e].day /\ AppendedBy(e, x))
  <2> DEFINE line == [id |-> e, undoable |-> act[e].pc = "done", undone |-> None]
  <2>1. file' = [file EXCEPT ![act[e].day] = @ \cup {line}] \/ file' = file
    BY <1>2 DEF FinishAction, persistEntry
  <2>2. x \in file[d] \/ (d = act[e].day /\ x = line)
    BY <1>a, <2>1
  <2> QED BY <2>2 DEF AppendedBy
<1>3. ASSUME NEW p \in Posts, FinishUndo(p)
      PROVE  x \in file[d] \/ AppendedBy(p, x)
  <2> DEFINE line == [id |-> p, undoable |-> FALSE, undone |-> None]
  <2>1. file' = [file EXCEPT ![post[p].day] = @ \cup {line}] \/ file' = file
    BY <1>3 DEF FinishUndo, persistEntry
  <2>2. x \in file[d] \/ x = line
    BY <1>a, <2>1
  <2> QED BY <2>2 DEF AppendedBy
<1>4. ASSUME NEW p \in Posts, Rename(p)
      PROVE  \/ x \in file[d]
             \/ d = DayOf(p) /\ \E y \in post[p].snap : Rewritten(p, y, x)
  <2>1. file' = [file EXCEPT ![DayOf(p)] = Marked(p, post[p].snap)]
    BY <1>4 DEF Rename
  <2>2. x \in file[d] \/ (d = DayOf(p) /\ x \in Marked(p, post[p].snap))
    BY <1>a, <2>1
  <2>3. ASSUME x \in Marked(p, post[p].snap)
        PROVE  \E y \in post[p].snap : Rewritten(p, y, x)
    <3>1. PICK y \in post[p].snap :
            x = IF y.id = post[p].target
                  THEN [y EXCEPT !.undone = p, !.undoable = FALSE] ELSE y
      BY <2>3 DEF Marked
    <3>2. y \in Line
      BY <1>a DEF PostRec
    <3>3. /\ [y EXCEPT !.undone = p, !.undoable = FALSE].id = y.id
          /\ [y EXCEPT !.undone = p, !.undoable = FALSE].undone = p
      BY <3>2 DEF Line
    <3> QED BY <3>1, <3>3 DEF Rewritten
  <2> QED BY <2>2, <2>3
<1>5. ASSUME NEW e \in Entries, Perform(e) \/ Lapse(e) PROVE file' = file
  BY <1>5 DEF Perform, Lapse
<1>6. ASSUME NEW p \in Posts,
             \/ Lookup(p) \/ runUndo(p) \/ Enqueue(p) \/ ReadFile(p)
             \/ RewriteFails(p) \/ \E e \in Entries : Arrive(p, e)
      PROVE  file' = file
  BY <1>6 DEF Lookup, runUndo, Enqueue, ReadFile, RewriteFails, Arrive
<1>7. CASE Midnight \/ Crash \/ UNCHANGED vars
  BY <1>1, <1>7 DEF Midnight, Crash, vars
<1> QED BY <1>1, <1>2, <1>3, <1>4, <1>5, <1>6, <1>7 DEF Next, Step

\* Only a rename takes lines away, from its own day file.
LEMMA FileGrows ==
  ASSUME TypeInv, [Next]_vars, NEW d \in Days,
         ~ \E p \in Posts : Rename(p) /\ DayOf(p) = d
  PROVE  file[d] \subseteq file'[d]
<1>a. file \in [Days -> SUBSET Line]
  BY DEF TypeInv, TypeOK
<1>1. CASE file' = file
  BY <1>1
<1>2. ASSUME NEW b, NEW x, persistEntry(b, x) PROVE file[d] \subseteq file'[d]
  BY <1>a, <1>2 DEF persistEntry
<1>3. ASSUME NEW e \in Entries, FinishAction(e) PROVE file[d] \subseteq file'[d]
  BY <1>2, <1>3 DEF FinishAction
<1>4. ASSUME NEW p \in Posts, FinishUndo(p) PROVE file[d] \subseteq file'[d]
  BY <1>2, <1>4 DEF FinishUndo
<1>5. ASSUME NEW p \in Posts, Rename(p) PROVE file[d] \subseteq file'[d]
  <2>1. DayOf(p) # d
    BY <1>5
  <2>2. file'[d] = file[d]
    BY <1>a, <1>5, <2>1 DEF Rename
  <2> QED BY <2>2
<1>6. ASSUME NEW e \in Entries, Perform(e) \/ Lapse(e) PROVE file' = file
  BY <1>6 DEF Perform, Lapse
<1>7. ASSUME NEW p \in Posts,
             \/ Lookup(p) \/ runUndo(p) \/ Enqueue(p) \/ ReadFile(p)
             \/ RewriteFails(p) \/ \E e \in Entries : Arrive(p, e)
      PROVE  file' = file
  BY <1>7 DEF Lookup, runUndo, Enqueue, ReadFile, RewriteFails, Arrive
<1>8. CASE Midnight \/ Crash \/ UNCHANGED vars
  BY <1>1, <1>8 DEF Midnight, Crash, vars
<1> QED BY <1>1, <1>3, <1>4, <1>5, <1>6, <1>7, <1>8 DEF Next, Step

\* A request that rewrites a file was rewriting it, or has read it just now.
LEMMA SnapEffect ==
  ASSUME TypeInv, [Next]_vars, NEW q \in Posts, Rewriting(q)'
  PROVE  \/ post'[q] = post[q] /\ DayOf(q)' = DayOf(q) /\ Rewriting(q)
         \/ /\ ReadFile(q) /\ file' = file
            /\ post'[q].snap = file[DayOf(q)]
            /\ post'[q].target = post[q].target
            /\ DayOf(q)' = DayOf(q)
            /\ hits(q, file[DayOf(q)]) # {}
<1>a. TypeOK
  BY DEF TypeInv
<1>b. post'[q].pc = "rewrite"
  BY DEF Rewriting
<1>1. CASE post'[q] = post[q]
  BY <1>1, <1>b DEF Rewriting, DayOf
<1>2. CASE ReadFile(q)
  <2>1. SameScan(q) /\ post'[q].snap = file[DayOf(q)]
        /\ hits(q, file[DayOf(q)]) # {}
    BY <1>a, <1>b, <1>2, ReadFileEffect
  <2> QED BY <1>2, <2>1, SameScanDay DEF ReadFile, SameScan
<1>3. ASSUME NEW p \in Posts, p # q, Step(p) \/ \E e \in Entries : Arrive(p, e)
      PROVE  post'[q] = post[q]
  <2>1. Others(p)
    BY <1>3, <1>a, ArriveEffect, LookupEffect, runUndoEffect, FinishUndoEffect,
       EnqueueEffect, ReadFileEffect, RenameEffect, RewriteFailsEffect DEF Step
  <2> QED BY <1>3, <2>1 DEF Others
<1>4. ~Lookup(q) /\ ~runUndo(q) /\ ~FinishUndo(q) /\ ~Enqueue(q) /\ ~Rename(q)
      /\ ~RewriteFails(q) /\ ~(\E e \in Entries : Arrive(q, e))
  BY <1>a, <1>b, ArriveEffect, LookupEffect, runUndoEffect, FinishUndoEffect,
     EnqueueEffect, RenameEffect, RewriteFailsEffect DEF Final
<1>5. ~Crash
  BY <1>a, <1>b, CrashEffect DEF Final
<1>6. ASSUME NEW e \in Entries, Perform(e) \/ FinishAction(e) \/ Lapse(e)
      PROVE  post' = post
  BY <1>6 DEF Perform, FinishAction, Lapse
<1>7. CASE Midnight \/ UNCHANGED vars
  BY <1>1, <1>7 DEF Midnight, vars
<1> QED BY <1>1, <1>2, <1>3, <1>4, <1>5, <1>6, <1>7 DEF Next, Step

\* While a request rewrites a file, nobody else renames onto it.
LEMMA NoRenameOver ==
  ASSUME TypeInv, NEW p \in Posts, NEW q \in Posts, Rename(p),
         Rewriting(q) \/ HasFile(q, DayOf(q)), DayOf(p) = DayOf(q)
  PROVE  p = q
<1>1. HasFile(p, DayOf(p))
  BY DEF TypeInv, PostInv, Rename
<1>2. HasFile(q, DayOf(q))
  BY DEF TypeInv, PostInv, Rewriting
<1> QED BY <1>1, <1>2, OneHolder

-----------------------------------------------------------------------------
(* The day files and the copies of them *)

\* FileInv survives every step: lines stay in the file of their day.
LEMMA FileStep ==
  TypeInv /\ FileInv /\ SnapInv /\ RequestInv /\ [Next]_vars => FileInv'
<1> SUFFICES ASSUME TypeInv, FileInv, SnapInv, RequestInv, [Next]_vars,
                    NEW d \in Days, NEW x \in file'[d]
             PROVE  LineOK(d, x)'
  BY DEF FileInv
<1>1. CASE x \in file[d]
  <2>1. x \in Line /\ LineOK(d, x)
    BY <1>1 DEF FileInv, TypeInv, TypeOK
  <2> QED BY <2>1, LineKept
<1>2. ASSUME NEW e \in Entries, FinishAction(e), d = act[e].day, AppendedBy(e, x)
      PROVE  LineOK(d, x)'
  <2>1. act[e] \in ActRec
    BY DEF TypeInv, TypeOK
  <2>2. act'[e] = [act[e] EXCEPT !.pc = "logged"]
    BY <1>2 DEF FinishAction, TypeInv, TypeOK
  <2>3. act'[e].pc = "logged" /\ act'[e].day = d
    BY <1>2, <2>1, <2>2 DEF ActRec
  <2> QED BY <1>2, <2>3 DEF LineOK, AppendedBy
<1>3. ASSUME NEW p \in Posts, AppendedBy(p, x) PROVE LineOK(d, x)'
  <2>1. p \notin Entries
    BY IdAssumption
  <2> QED BY <1>3, <2>1 DEF LineOK, AppendedBy
<1>4. ASSUME NEW p \in Posts, Rename(p), d = DayOf(p),
             NEW y \in post[p].snap, Rewritten(p, y, x)
      PROVE  LineOK(d, x)'
  <2>1. Rewriting(p) /\ post[p].pc \in Active
    BY <1>4 DEF Rename, Rewriting, Active, PostPC, Final
  <2>2. LineOK(d, y) /\ y \in Line
    <3>1. post[p] \in PostRec
      BY DEF TypeInv, TypeOK
    <3> QED BY <1>4, <2>1, <3>1 DEF SnapInv, PostRec
  <2>3. LineOK(d, y)'
    BY <2>2, LineKept
  <2>4. CASE y.id = post[p].target
    <3>1. post[p].target \in Entries /\ p \in ran[post[p].target]
      BY <2>1 DEF TypeInv, PostInv, RequestInv, Rewriting
    <3>2. p \in ran'[post[p].target]
      BY <3>1, HistoryGrows
    <3> QED BY <1>4, <2>3, <2>4, <3>1, <3>2 DEF LineOK, Rewritten
  <2>5. CASE y.id # post[p].target
    BY <1>4, <2>3, <2>5 DEF Rewritten
  <2> QED BY <2>4, <2>5
<1> QED BY <1>1, <1>2, <1>3, <1>4, FileEffect

\* SnapInv survives every step: a copy being written misses no mark.
LEMMA SnapStep ==
  TypeInv /\ FileInv /\ SnapInv /\ [Next]_vars => SnapInv'
<1> SUFFICES ASSUME TypeInv, FileInv, SnapInv, [Next]_vars,
                    NEW q \in Posts, Rewriting(q)'
             PROVE
               /\ \A x \in post'[q].snap : LineOK(DayOf(q), x)'
               /\ \E x \in post'[q].snap : x.id = post'[q].target
               /\ \A x \in file'[DayOf(q)'] :
                    x.undone # None => x \in post'[q].snap
  BY DEF SnapInv
<1>1. CASE post'[q] = post[q] /\ DayOf(q)' = DayOf(q) /\ Rewriting(q)
  <2>1. DayOf(q) \in Days
    BY <1>1 DEF TypeInv, PostInv, Rewriting, Active, PostPC, Final
  <2>2. ASSUME NEW x \in post[q].snap PROVE LineOK(DayOf(q), x)'
    <3>1. x \in Line
      BY DEF TypeInv, TypeOK, PostRec
    <3>2. LineOK(DayOf(q), x)
      BY <1>1 DEF SnapInv
    <3>3. \A d \in Days : LineOK(d, x) => LineOK(d, x)'
      BY <3>1, LineKept
    <3> QED BY <1>1, <2>1, <3>2, <3>3 DEF LineOK
  <2>3. ASSUME NEW x \in file'[DayOf(q)], x.undone # None
        PROVE  x \in post[q].snap
    <3>1. ASSUME NEW p \in Posts, Rename(p), DayOf(q) = DayOf(p) PROVE FALSE
      <4>1. p = q
        BY <1>1, <3>1, NoRenameOver
      <4>2. post'[p].pc = "ok"
        BY <3>1, RenameEffect DEF TypeInv
      <4> QED BY <4>1, <4>2 DEF Rewriting
    <3>2. x \in file[DayOf(q)]
      BY <2>1, <2>3, <3>1, FileEffect DEF AppendedBy
    <3> QED BY <1>1, <2>3, <3>2 DEF SnapInv
  <2> QED BY <1>1, <2>2, <2>3 DEF SnapInv
<1>2. CASE /\ ReadFile(q) /\ file' = file
           /\ post'[q].snap = file[DayOf(q)]
           /\ post'[q].target = post[q].target
           /\ DayOf(q)' = DayOf(q)
           /\ hits(q, file[DayOf(q)]) # {}
  <2>1. DayOf(q) \in Days
    BY <1>2 DEF ReadFile, TypeInv, PostInv, Active, PostPC, Final
  <2>2. ASSUME NEW x \in file[DayOf(q)] PROVE LineOK(DayOf(q), x)'
    <3>1. x \in Line /\ LineOK(DayOf(q), x)
      BY <2>1 DEF FileInv, TypeInv, TypeOK
    <3>2. \A d \in Days : LineOK(d, x) => LineOK(d, x)'
      BY <3>1, LineKept
    <3> QED BY <1>2, <2>1, <3>1, <3>2 DEF LineOK
  <2> QED BY <1>2, <2>2 DEF hits
<1> QED BY <1>1, <1>2, SnapEffect

\* A file without lines of a finished action does not get one.
LEMMA NoLineKept ==
  ASSUME TypeInv, [Next]_vars, NEW e \in Entries, NEW d \in Days,
         act[e].pc = "logged", NoLineOf(e, d)
  PROVE  NoLineOf(e, d)'
<1>1. ASSUME NEW x \in file'[d] PROVE x.id # e
  <2>1. CASE x \in file[d]
    BY <2>1 DEF NoLineOf
  <2>2. ASSUME NEW f \in Entries, FinishAction(f), AppendedBy(f, x) PROVE x.id # e
    BY <2>2 DEF FinishAction, AppendedBy
  <2>3. ASSUME NEW p \in Posts, AppendedBy(p, x) PROVE x.id # e
    BY <2>3, IdAssumption DEF AppendedBy
  <2>4. ASSUME NEW p \in Posts, Rename(p), d = DayOf(p),
               NEW y \in post[p].snap, Rewritten(p, y, x)
        PROVE  x.id # e
    BY <2>4 DEF NoLineOf, Rewriting, Rename, Rewritten
  <2> QED BY <2>1, <2>2, <2>3, <2>4, FileEffect
<1>2. ASSUME NEW q \in Posts, Rewriting(q)', DayOf(q)' = d, NEW y \in post'[q].snap
      PROVE  y.id # e
  BY <1>2, SnapEffect DEF NoLineOf
<1> QED BY <1>1, <1>2 DEF NoLineOf

\* An entry whose every line is marked stays so.
LEMMA AllMarkedKept ==
  ASSUME TypeInv, [Next]_vars, NEW e \in Entries,
         act[e].pc = "logged", AllMarked(e)
  PROVE  AllMarked(e)'
<1>1. ASSUME NEW d \in Days, NEW x \in file'[d], x.id = e PROVE x.undone # None
  <2>1. CASE x \in file[d]
    BY <1>1, <2>1 DEF AllMarked
  <2>2. ASSUME NEW f \in Entries, FinishAction(f), AppendedBy(f, x) PROVE FALSE
    BY <1>1, <2>2 DEF FinishAction, AppendedBy
  <2>3. ASSUME NEW p \in Posts, AppendedBy(p, x) PROVE FALSE
    BY <1>1, <2>3, IdAssumption DEF AppendedBy
  <2>4. ASSUME NEW p \in Posts, Rename(p),
               NEW y \in post[p].snap, Rewritten(p, y, x)
        PROVE  x.undone # None
    BY <1>1, <2>4, IdAssumption DEF AllMarked, Rewriting, Rename, Rewritten
  <2> QED BY <2>1, <2>2, <2>3, <2>4, FileEffect
<1>2. ASSUME NEW q \in Posts, Rewriting(q)', NEW y \in post'[q].snap, y.id = e
      PROVE  y.undone # None
  <2>1. CASE post'[q] = post[q] /\ Rewriting(q)
    BY <1>2, <2>1 DEF AllMarked
  <2>2. CASE ReadFile(q) /\ post'[q].snap = file[DayOf(q)]
    <3>1. DayOf(q) \in Days
      BY <2>2 DEF ReadFile, TypeInv, PostInv, Active, PostPC, Final
    <3> QED BY <1>2, <2>2, <3>1 DEF AllMarked
  <2> QED BY <1>2, <2>1, <2>2, SnapEffect
<1> QED BY <1>1, <1>2 DEF AllMarked

-----------------------------------------------------------------------------
(* Undos that were answered *)

\* The head of a file's chain that finds no line of its entry there leaves no
\* line of it: nobody else holds a copy of that file.
LEMMA NoHit ==
  ASSUME TypeInv, NEW p \in Posts, post[p].pc = "queued",
         HasFile(p, DayOf(p)), hits(p, file[DayOf(p)]) = {}
  PROVE  NoLineOf(post[p].target, DayOf(p))
<1>1. ASSUME NEW q \in Posts, Rewriting(q), DayOf(q) = DayOf(p) PROVE FALSE
  <2>1. HasFile(q, DayOf(q))
    BY <1>1 DEF TypeInv, PostInv, Rewriting
  <2> QED BY <1>1, <2>1, OneHolder DEF Rewriting
<1> QED BY <1>1 DEF NoLineOf, hits

\* VisitedInv survives every step: nothing appears in a file gone through.
LEMMA VisitedStep ==
  TypeInv /\ RequestInv /\ VisitedInv /\ [Next]_vars => VisitedInv'
<1> SUFFICES ASSUME TypeInv, RequestInv, VisitedInv, [Next]_vars,
                    NEW q \in Posts, NEW d \in Days,
                    post'[q].pc \in {"mark", "queued"}, ~post'[q].missed,
                    DayOf(q)' < d, d <= post'[q].from,
                    NEW e, post'[q].target = e
             PROVE  NoLineOf(e, d)'
  BY DEF VisitedInv, NoLineOf
<1>a. TypeOK
  BY DEF TypeInv
<1>b. DayOf(q) \in Int /\ d \in Int
  BY <1>a, DayOfType DEF Days
<1>1. ASSUME post[q].pc \in {"mark", "queued"}, post'[q].target = post[q].target,
             NoLineOf(post[q].target, d)
      PROVE  NoLineOf(e, d)'
  <2>1. e \in Entries /\ act[e].pc = "logged"
    BY <1>1 DEF TypeInv, PostInv, RequestInv, Active, PostPC, Final
  <2> QED BY <1>1, <2>1, NoLineKept
<1>2. ASSUME post[q].pc \in {"mark", "queued"}, post'[q].target = post[q].target,
             post'[q].from = post[q].from, post'[q].back = post[q].back,
             post'[q].missed = post[q].missed
      PROVE  NoLineOf(e, d)'
  <2>1. DayOf(q)' = DayOf(q)
    BY <1>2 DEF DayOf
  <2>2. NoLineOf(post[q].target, d)
    BY <1>2, <2>1 DEF VisitedInv
  <2> QED BY <1>1, <1>2, <2>2
<1>3. CASE post'[q] = post[q]
  BY <1>2, <1>3
<1>4. CASE FinishUndo(q)
  <2>1. post'[q].from = today /\ post'[q].back = 0
    BY <1>a, <1>4, FinishUndoEffect
  <2>2. DayOf(q)' = post'[q].from
    BY <2>1, <1>a DEF DayOf, TypeOK, Days
  <2>3. post'[q].from \in Int
    BY <1>a, <2>1 DEF TypeOK, Days
  <2> QED BY <1>b, <2>2, <2>3
<1>5. CASE Enqueue(q)
  BY <1>a, <1>2, <1>5, EnqueueEffect DEF SameScan
<1>6. CASE ReadFile(q)
  <2>1. /\ post[q].pc = "queued" /\ HasFile(q, DayOf(q))
        /\ post'[q].target = post[q].target /\ post'[q].from = post[q].from
        /\ post'[q].back = post[q].back + 1 /\ DayOf(q) > 0
        /\ hits(q, file[DayOf(q)]) = {} /\ ~post[q].missed
    BY <1>a, <1>6, ReadFileEffect
  <2>2. DayOf(q)' = DayOf(q) - 1
    BY <1>a, <2>1, PreviousDay
  <2>3. CASE d = DayOf(q)
    BY <1>1, <2>1, <2>3, NoHit
  <2>4. CASE DayOf(q) < d
    <3>1. NoLineOf(post[q].target, d)
      BY <2>1, <2>4 DEF VisitedInv
    <3> QED BY <1>1, <2>1, <3>1
  <2> QED BY <1>b, <2>2, <2>3, <2>4
<1>7. ~Lookup(q) /\ ~runUndo(q) /\ ~Rename(q) /\ ~RewriteFails(q)
      /\ ~(\E f \in Entries : Arrive(q, f))
  BY <1>a, ArriveEffect, LookupEffect, runUndoEffect, RenameEffect,
     RewriteFailsEffect DEF Final
<1>8. ASSUME NEW p \in Posts, p # q, Step(p) \/ \E f \in Entries : Arrive(p, f)
      PROVE  post'[q] = post[q]
  <2>1. Others(p)
    BY <1>8, <1>a, ArriveEffect, LookupEffect, runUndoEffect, FinishUndoEffect,
       EnqueueEffect, ReadFileEffect, RenameEffect, RewriteFailsEffect DEF Step
  <2> QED BY <1>8, <2>1 DEF Others
<1>9. ~Crash
  BY <1>a, CrashEffect DEF Final
<1>10. ASSUME NEW f \in Entries, Perform(f) \/ FinishAction(f) \/ Lapse(f)
       PROVE  post' = post
  BY <1>10 DEF Perform, FinishAction, Lapse
<1>11. CASE Midnight \/ UNCHANGED vars
  BY <1>3, <1>11 DEF Midnight, vars
<1> QED BY <1>3, <1>4, <1>5, <1>6, <1>7, <1>8, <1>9, <1>10, <1>11 DEF Next, Step

\* The lines of an action are in one file, so a file without them settles it.
LEMMA OneDay ==
  ASSUME TypeInv, FileInv, SnapInv, NEW e \in Entries, NoLineOf(e, act[e].day)
  PROVE  AllMarked(e)
<1>1. ASSUME NEW d \in Days, NEW x \in file[d], x.id = e PROVE FALSE
  <2>1. act[e].day = d
    BY <1>1 DEF FileInv, LineOK
  <2> QED BY <1>1, <2>1 DEF NoLineOf
<1>2. ASSUME NEW q \in Posts, Rewriting(q), NEW y \in post[q].snap, y.id = e
      PROVE  FALSE
  <2>1. act[e].day = DayOf(q)
    BY <1>2 DEF SnapInv, LineOK
  <2> QED BY <1>2, <2>1 DEF NoLineOf
<1> QED BY <1>1, <1>2 DEF AllMarked

\* markEntryUndone that has been through every day in reach without a hit: the
\* entry's line was never written, or no lookup reaches its day any more.
LEMMA Exhausted ==
  ASSUME TypeInv, RequestInv, FileInv, SnapInv, VisitedInv, NEW p \in Posts,
         post[p].pc = "queued", HasFile(p, DayOf(p)),
         hits(p, file[DayOf(p)]) = {}, ~post[p].missed,
         ~(post[p].back + 1 < DaysBack /\ DayOf(p) > 0)
  PROVE  SettledAt(post[p].target, today)
<1> DEFINE e == post[p].target
           d == act[e].day
<1>1. /\ e \in Entries /\ post[p].back < DaysBack /\ post[p].from <= today
      /\ d <= post[p].from /\ DayOf(p) \in Days
  BY DEF TypeInv, PostInv, RequestInv, Active, PostPC, Final
<1>2. /\ d \in Days /\ d \in Int /\ d >= 0 /\ today \in Int
      /\ DayOf(p) \in Int /\ DayOf(p) >= 0
      /\ post[p].from \in Int /\ post[p].back \in Int /\ DaysBack \in Int
  BY <1>1, DaysAssumption DEF TypeInv, TypeOK, PostRec, ActRec, Days
<1>3. CASE d < DayOf(p)
  BY <1>1, <1>2, <1>3 DEF SettledAt, DayOf
<1>4. CASE d = DayOf(p)
  <2>1. NoLineOf(e, d)
    BY <1>4, NoHit
  <2> QED BY <1>1, <2>1, OneDay DEF SettledAt
<1>5. CASE DayOf(p) < d
  <2>1. NoLineOf(e, d)
    BY <1>1, <1>2, <1>5 DEF VisitedInv
  <2> QED BY <1>1, <2>1, OneDay DEF SettledAt
<1> QED BY <1>2, <1>3, <1>4, <1>5

\* A rename marks every line of its entry.
LEMMA RenameMarks ==
  ASSUME TypeInv, FileInv, SnapInv, [Next]_vars, NEW p \in Posts, Rename(p),
         NEW e \in Entries, e = post[p].target
  PROVE  AllMarked(e)'
<1>1. /\ Rewriting(p) /\ e \in Entries /\ DayOf(p) \in Days
  BY DEF Rename, Rewriting, TypeInv, PostInv, Active, PostPC, Final
<1>2. act[e].day = DayOf(p)
  BY <1>1 DEF SnapInv, LineOK
<1>3. ASSUME NEW d \in Days, NEW x \in file'[d], x.id = e PROVE x.undone # None
  <2>a. file' = [file EXCEPT ![DayOf(p)] = Marked(p, post[p].snap)]
    BY DEF Rename
  <2>b. file \in [Days -> SUBSET Line]
    BY DEF TypeInv, TypeOK
  <2>1. CASE d # DayOf(p)
    <3>1. x \in file[d]
      BY <2>1, <2>a, <2>b
    <3>2. act[e].day = d
      BY <1>1, <1>3, <3>1 DEF FileInv, LineOK
    <3> QED BY <1>2, <2>1, <3>2
  <2>2. CASE d = DayOf(p)
    <3>1. x \in Marked(p, post[p].snap)
      BY <2>2, <2>a, <2>b
    <3>2. PICK y \in post[p].snap :
            x = IF y.id = post[p].target
                  THEN [y EXCEPT !.undone = p, !.undoable = FALSE] ELSE y
      BY <3>1 DEF Marked
    <3>3. y \in Line
      BY DEF TypeInv, TypeOK, PostRec
    <3>4. CASE y.id = e
      BY <3>2, <3>3, <3>4, IdAssumption DEF Line
    <3>5. CASE y.id # e
      BY <1>3, <3>2, <3>5
    <3> QED BY <3>4, <3>5
  <2> QED BY <2>1, <2>2
<1>4. ASSUME NEW q \in Posts, Rewriting(q)', NEW y \in post'[q].snap, y.id = e
      PROVE  FALSE
  <2>1. ~ReadFile(q)
    <3>1. post'[p].pc = "ok" /\ Others(p)
      BY RenameEffect DEF TypeInv
    <3>2. q # p
      BY <1>4, <3>1 DEF Rewriting
    <3>3. post'[q] = post[q]
      BY <3>1, <3>2 DEF Others
    <3> QED BY <1>4, <3>3 DEF Rewriting, ReadFile
  <2>2. post'[q] = post[q] /\ Rewriting(q)
    BY <1>4, <2>1, SnapEffect
  <2>3. q # p
    BY <1>4, RenameEffect DEF TypeInv, Rewriting
  <2>4. DayOf(q) # DayOf(p)
    BY <2>2, <2>3, NoRenameOver
  <2>5. act[e].day = DayOf(q)
    BY <1>1, <1>4, <2>2 DEF SnapInv, LineOK
  <2> QED BY <1>2, <2>4, <2>5
<1> QED BY <1>3, <1>4 DEF AllMarked, Rewriting

\* Once settled, an entry stays settled, for the same day and for later ones.
LEMMA SettledKept ==
  ASSUME TypeInv, [Next]_vars, NEW e \in Entries, act[e].pc = "logged",
         NEW c \in Int, NEW d \in Int, c <= d, SettledAt(e, c)
  PROVE  SettledAt(e, d)'
<1>1. act'[e] = act[e]
  BY ActEffect DEF TypeInv
<1>2. act[e].day \in Int /\ DaysBack \in Int
  BY DaysAssumption DEF TypeInv, TypeOK, ActRec, Days
<1>3. CASE act[e].day + DaysBack <= c
  BY <1>1, <1>2, <1>3 DEF SettledAt
<1>4. CASE AllMarked(e)
  BY <1>4, AllMarkedKept DEF SettledAt
<1> QED BY <1>3, <1>4 DEF SettledAt

\* AckedInv survives every step: an acknowledged undo is marked for good.
LEMMA AckedStep ==
  /\ TypeInv /\ ActInv /\ RequestInv /\ FileInv /\ SnapInv /\ VisitedInv
  /\ AckedInv /\ [Next]_vars
  => AckedInv'
<1> SUFFICES ASSUME TypeInv, ActInv, RequestInv, FileInv, SnapInv, VisitedInv,
                    AckedInv, [Next]_vars, NEW e \in acked'
             PROVE  act'[e].pc = "logged" /\ SettledAt(e, today)'
  BY DEF AckedInv
<1>a. /\ today \in Int /\ today' \in Int /\ today <= today'
      /\ acked \subseteq Entries /\ acked' \subseteq Entries
  BY TypeStep, TodayGrows DEF TypeInv, TypeOK, Days
<1>1. ASSUME act[e].pc = "logged", SettledAt(e, today)
      PROVE  act'[e].pc = "logged" /\ SettledAt(e, today)'
  <2>1. act'[e] = act[e]
    BY <1>a, <1>1, ActEffect DEF TypeInv
  <2>2. SettledAt(e, today)'
    <3>1. \A c \in Int, d \in Int :
            c <= d /\ SettledAt(e, c) => SettledAt(e, d)'
      BY <1>a, <1>1, SettledKept
    <3> QED BY <1>1, <1>a, <3>1 DEF SettledAt
  <2> QED BY <1>1, <2>1, <2>2
<1>2. CASE e \in acked
  BY <1>1, <1>2 DEF AckedInv
<1>3. ASSUME NEW p \in Posts, ReadFile(p), e \notin acked
      PROVE  act[e].pc = "logged" /\ SettledAt(e, today)
  <2>1. /\ post[p].pc = "queued" /\ HasFile(p, DayOf(p))
        /\ hits(p, file[DayOf(p)]) = {} /\ e = post[p].target
        /\ ~post[p].missed
        /\ ~(post[p].back + 1 < DaysBack /\ DayOf(p) > 0)
    BY <1>3, ReadFileEffect DEF TypeInv
  <2>2. act[e].pc = "logged"
    BY <2>1 DEF RequestInv, Active, PostPC, Final
  <2> QED BY <2>1, <2>2, Exhausted
<1>4. ASSUME NEW p \in Posts, Rename(p), e \notin acked
      PROVE  act'[e].pc = "logged" /\ SettledAt(e, today)'
  <2>1. e = post[p].target /\ post[p].pc = "rewrite"
    BY <1>4 DEF Rename
  <2>2. act'[e].pc = "logged"
    BY <1>a, <2>1, ActEffect DEF RequestInv, Active, PostPC, Final, TypeInv
  <2>3. AllMarked(e)'
    BY <1>a, <1>4, <2>1, RenameMarks
  <2> QED BY <2>2, <2>3 DEF SettledAt
<1>5. ASSUME NEW p \in Posts,
             \/ Lookup(p) \/ runUndo(p) \/ FinishUndo(p) \/ Enqueue(p)
             \/ RewriteFails(p) \/ \E f \in Entries : Arrive(p, f)
      PROVE  acked' = acked
  BY <1>5 DEF Lookup, runUndo, FinishUndo, Enqueue, RewriteFails, Arrive
<1>6. ASSUME NEW f \in Entries, Perform(f) \/ FinishAction(f) \/ Lapse(f)
      PROVE  acked' = acked
  BY <1>6 DEF Perform, FinishAction, Lapse
<1>7. Midnight \/ Crash \/ UNCHANGED vars => acked' = acked
  BY DEF Midnight, Crash, vars
<1>8. \/ acked' = acked
      \/ \E p \in Posts : ReadFile(p) \/ Rename(p)
  BY <1>5, <1>6, <1>7 DEF Next, Step
<1>9. CASE acked' = acked
  BY <1>2, <1>9
<1>10. ASSUME NEW p \in Posts, ReadFile(p) \/ Rename(p), e \notin acked
       PROVE  act'[e].pc = "logged" /\ SettledAt(e, today)'
  <2>1. CASE ReadFile(p)
    BY <1>1, <1>3, <1>10, <2>1
  <2>2. CASE Rename(p)
    BY <1>4, <1>10, <2>2
  <2> QED BY <1>10, <2>1, <2>2
<1> QED BY <1>2, <1>8, <1>9, <1>10

\* A lookup that started after the entry was settled does not find it unmarked.
LEMMA LateLookup ==
  ASSUME TypeInv, RequestInv, FileInv, NEW p \in Posts, post[p].pc = "lookup",
         SettledAt(post[p].target, post[p].from),
         NEW x \in FileAt(DayOf(p)), x.id = post[p].target
  PROVE  x.undone # None
<1> DEFINE e == post[p].target
<1>a. post[p].pc \in Active
  BY DEF Active, PostPC, Final
<1>b. /\ post[p].from \in Int /\ post[p].back \in Int /\ DaysBack \in Int
  BY DaysAssumption DEF TypeInv, TypeOK, PostRec, Days
<1>1. e \in Entries /\ DayOf(p) \in Days /\ post[p].back < DaysBack
  BY <1>a DEF TypeInv, PostInv, RequestInv
<1>2. x \in file[DayOf(p)]
  BY <1>1 DEF FileAt
<1>3. act[e].day = DayOf(p)
  BY <1>1, <1>2 DEF FileInv, LineOK
<1>4. AllMarked(e)
  BY <1>1, <1>b, <1>3 DEF SettledAt, DayOf
<1> QED BY <1>1, <1>2, <1>4 DEF AllMarked

\* LateInv survives every step: what came after the answer finds the mark.
LEMMA LateStep ==
  /\ TypeInv /\ ActInv /\ RequestInv /\ FileInv /\ SnapInv /\ VisitedInv
  /\ AckedInv /\ LateInv /\ [Next]_vars
  => LateInv'
<1> SUFFICES ASSUME TypeInv, ActInv, RequestInv, FileInv, SnapInv, VisitedInv,
                    AckedInv, LateInv, [Next]_vars,
                    NEW q \in Posts, post'[q].late, post'[q].pc \notin Final,
                    NEW e, e = post'[q].target,
                    NEW c, c = post'[q].from
             PROVE  /\ post'[q].pc = "lookup"
                    /\ e \in acked'
                    /\ SettledAt(e, c)'
  BY DEF LateInv, SettledAt
<1> DEFINE Goal == post'[q].pc = "lookup" /\ e \in acked' /\ SettledAt(e, c)'
<1>a. /\ TypeOK /\ post[q].from \in Int /\ today \in Int
      /\ acked \subseteq acked' /\ acked \subseteq Entries
  BY HistoryGrows DEF TypeInv, TypeOK, PostRec, Days
<1>1. ASSUME post'[q].pc = "lookup", e \in acked, c \in Int, SettledAt(e, c)
      PROVE  Goal
  <2>1. e \in Entries /\ act[e].pc = "logged"
    BY <1>1, <1>a DEF AckedInv
  <2>2. \A m, n \in Int : m <= n /\ SettledAt(e, m) => SettledAt(e, n)'
    BY <2>1, SettledKept
  <2>3. SettledAt(e, c)'
    BY <1>1, <2>2 DEF SettledAt
  <2> QED BY <1>1, <1>a, <2>3
\* A late request that was at work was looking the entry up.
<1>2. ASSUME post[q].pc \notin Final, post[q].late
      PROVE  /\ post[q].pc = "lookup"
             /\ post[q].target \in acked
             /\ SettledAt(post[q].target, post[q].from)
  BY <1>2 DEF LateInv
<1>3. ASSUME post'[q].pc = "lookup", post[q].pc = "lookup",
             post'[q].target = post[q].target, post'[q].from = post[q].from,
             post'[q].late = post[q].late
      PROVE  Goal
  <2>1. post[q].pc \notin Final
    BY <1>3 DEF Final
  <2> QED BY <1>1, <1>2, <1>3, <1>a, <2>1
<1>4. CASE post'[q] = post[q]
  <2>1. post[q].pc = "lookup"
    BY <1>2, <1>4
  <2> QED BY <1>3, <1>4, <2>1
<1>5. ASSUME NEW f \in Entries, Arrive(q, f) PROVE Goal
  <2>1. /\ post'[q].pc = "lookup" /\ e = f /\ c = today /\ f \in acked
    BY <1>5, <1>a, ArriveEffect
  <2> QED BY <1>1, <1>a, <2>1 DEF AckedInv
<1>6. CASE Lookup(q)
  <2>1. post[q].pc = "lookup" /\ post[q].pc \notin Final
    BY <1>6 DEF Lookup, Final
  <2>2. CASE post'[q].pc = "lookup"
    BY <1>3, <1>6, <1>a, <2>1, <2>2, LookupEffect
  <2>3. CASE post'[q].pc = "run"
    <3>1. /\ SameScan(q)
          /\ \E x \in FileAt(DayOf(q)) : x.id = post[q].target /\ x.undone = None
      BY <1>6, <1>a, <2>3, LookupEffect DEF Final
    <3>2. SettledAt(post[q].target, post[q].from)
      BY <1>2, <2>1, <3>1 DEF SameScan
    <3> QED BY <2>1, <3>1, <3>2, LateLookup
  <2> QED BY <1>6, <1>a, <2>2, <2>3, LookupEffect
\* Past the lookup a request is not late.
<1>7. ASSUME post[q].pc \notin Final, post[q].pc # "lookup",
             post'[q].late = post[q].late
      PROVE  FALSE
  BY <1>2, <1>7
<1>8. ~runUndo(q)
  BY <1>7, <1>a, runUndoEffect DEF SameScan, Final
<1>9. ~FinishUndo(q)
  BY <1>7, <1>a, FinishUndoEffect DEF Final
<1>10. ~Enqueue(q)
  BY <1>7, <1>a, EnqueueEffect DEF SameScan, Final
<1>11. ~ReadFile(q)
  BY <1>7, <1>a, ReadFileEffect DEF SameScan, Final
<1>12. ~Rename(q) /\ ~RewriteFails(q)
  BY <1>a, RenameEffect, RewriteFailsEffect DEF Final
<1>13. ASSUME NEW p \in Posts, p # q, Step(p) \/ \E f \in Entries : Arrive(p, f)
       PROVE  post'[q] = post[q]
  <2>1. Others(p)
    BY <1>13, <1>a, ArriveEffect, LookupEffect, runUndoEffect, FinishUndoEffect,
       EnqueueEffect, ReadFileEffect, RenameEffect, RewriteFailsEffect DEF Step
  <2> QED BY <1>13, <2>1 DEF Others
<1>14. CASE Crash
  <2>1. post'[q] = post[q] \/ post'[q] = Blank("dead")
    BY <1>14 DEF Crash
  <2> QED BY <1>4, <2>1 DEF Blank, Final
<1>15. ASSUME NEW f \in Entries, Perform(f) \/ FinishAction(f) \/ Lapse(f)
       PROVE  post' = post
  BY <1>15 DEF Perform, FinishAction, Lapse
<1>16. CASE Midnight \/ UNCHANGED vars
  BY <1>4, <1>16 DEF Midnight, vars
<1> QED
  BY <1>4, <1>5, <1>6, <1>8, <1>9, <1>10, <1>11, <1>12, <1>13, <1>14, <1>15,
     <1>16 DEF Next, Step

-----------------------------------------------------------------------------
(* The inductive invariant *)

\* The invariant holds of an empty journal.
LEMMA IInvInit == Init => IInv
<1> SUFFICES ASSUME Init PROVE IInv
  OBVIOUS
<1>1. \A p \in Posts : post[p] = Blank("idle")
  BY DEF Init
<1>2. \A p \in Posts : /\ post[p].pc = "idle" /\ post[p].late = FALSE
                       /\ post[p].pc \notin Active
  BY <1>1 DEF Blank, Active
<1>3. TypeOK
  <2>1. 0 \in Days /\ 0 \in 0..MaxCrashes /\ 0 \in 0..MaxDiskFaults
    BY DaysAssumption, BoundAssumption DEF Days
  <2>2. post \in [Posts -> PostRec]
    BY BlankType DEF Init, PostPC
  <2>3. act \in [Entries -> ActRec]
    BY <2>1 DEF Init, ActRec, ActPC
  <2>4. copies \in [Entries -> Nat]
    BY DEF Init, Before
  <2>5. chain \in [Days -> Seq(Posts)]
    BY DEF Init
  <2> QED BY <2>1, <2>2, <2>3, <2>4, <2>5 DEF Init, TypeOK
<1>4. ActInv
  BY DEF ActInv, Init
<1>5. PostInv /\ RequestInv /\ SnapInv /\ VisitedInv /\ LateInv
  BY <1>2 DEF PostInv, RequestInv, SnapInv, VisitedInv, LateInv, Rewriting,
              Active, PostPC, Final
<1>6. FileInv /\ AckedInv
  BY DEF FileInv, AckedInv, Init
<1> QED BY <1>3, <1>4, <1>5, <1>6 DEF IInv

\* The invariant survives every step.
LEMMA IInvStep == IInv /\ [Next]_vars => IInv'
  BY TypeStep, PostStep, ActStep, RequestStep, FileStep, SnapStep, VisitedStep,
     AckedStep, LateStep DEF IInv, TypeInv

\* The invariant of the journal holds in every reachable state.
THEOREM Inductive == Spec => []IInv
  BY IInvInit, IInvStep, PTL DEF Spec

-----------------------------------------------------------------------------
(* Theorems *)

\* Every variable keeps its type: no undo scans before the first day, no chain
\* holds anything but requests.
THEOREM TypeCorrect == Spec => []TypeOK
<1>1. IInv => TypeOK
  BY DEF IInv
<1> QED BY <1>1, Inductive, PTL

\* withFileLock is mutual exclusion: no two requests are between the read and
\* the rename of one day file.
THEOREM RewritesExclude == Spec => []RewriteExclusive
<1>1. IInv => RewriteExclusive
  <2> SUFFICES ASSUME IInv, NEW p \in Posts, NEW q \in Posts, p # q,
                      post[p].pc = "rewrite", post[q].pc = "rewrite"
               PROVE  DayOf(p) # DayOf(q)
    BY DEF RewriteExclusive
  <2>1. HasFile(p, DayOf(p)) /\ HasFile(q, DayOf(q))
    BY DEF IInv, PostInv
  <2> QED BY <2>1, OneHolder
<1> QED BY <1>1, Inductive, PTL

\* An undo that arrives after one of the same entry was confirmed - its mark
\* written, or every file its scan came by read - never gets past its lookup,
\* whatever reads and writes fail: the route does not run the handler for it.
THEOREM SecondPostsRejected == Spec => []SecondPostRejected
<1>1. IInv => SecondPostRejected
  <2> SUFFICES ASSUME IInv, NEW p \in Posts, post[p].late
               PROVE  post[p].pc \in Final \cup {"lookup"}
    BY DEF SecondPostRejected
  <2> QED BY DEF IInv, LateInv
<1> QED BY <1>1, Inductive, PTL

\* The undo an undone mark names did reverse the very entry it is on.
THEOREM MarksNameTheirUndo == Spec => []MarkNamesItsUndo
<1>1. IInv => MarkNamesItsUndo
  BY DEF IInv, FileInv, LineOK, MarkNamesItsUndo
<1> QED BY <1>1, Inductive, PTL

\* No step takes an undone mark off a day file: a rename writes back every mark
\* that was set since its request read the file, for there is none it missed.
THEOREM MarksAreKept == Spec => MarksSurvive
<1>1. ASSUME IInv, [Next]_vars, NEW d \in Days, NEW e \in Entries, IsMarked(d, e)
      PROVE  IsMarked(d, e)'
  <2>0. PICK x \in file[d] : x.id = e /\ x.undone # None
    BY <1>1 DEF IsMarked
  <2>1. CASE ~ \E p \in Posts : Rename(p) /\ DayOf(p) = d
    <3>1. x \in file'[d]
      BY <1>1, <2>1, FileGrows DEF IInv, TypeInv
    <3> QED BY <2>0, <3>1 DEF IsMarked
  <2>2. ASSUME NEW p \in Posts, Rename(p), DayOf(p) = d PROVE IsMarked(d, e)'
    <3>1. x \in post[p].snap
      BY <1>1, <2>0, <2>2 DEF IInv, SnapInv, Rewriting, Rename
    <3> DEFINE y == IF x.id = post[p].target
                      THEN [x EXCEPT !.undone = p, !.undoable = FALSE] ELSE x
    <3>2. y \in Marked(p, post[p].snap)
      BY <3>1 DEF Marked
    <3>3. file'[d] = Marked(p, post[p].snap)
      BY <1>1, <2>2 DEF Rename, IInv, TypeOK
    <3>4. y.id = e /\ y.undone # None
      <4>1. x \in Line
        BY <1>1, <2>0 DEF IInv, TypeOK
      <4> QED BY <2>0, <4>1, IdAssumption DEF Line
    <3> HIDE DEF y
    <3> QED BY <3>2, <3>3, <3>4 DEF IsMarked
  <2> QED BY <2>1, <2>2
<1>2. IInv /\ [Next]_vars
        => [\A d \in Days, e \in Entries : IsMarked(d, e) => IsMarked(d, e)']_vars
  BY <1>1
<1> QED BY <1>2, Inductive, PTL DEF Spec, MarksSurvive
=============================================================================
