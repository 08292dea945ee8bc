------------------------------ MODULE Journal ------------------------------
(***************************************************************************)
(* The panel's action journal (src/src/lib/journal) and its Undo route     *)
(* (src/src/app/api/admin/journal/[id]/undo/route.ts).                     *)
(*                                                                         *)
(* One JSONL file per day.  A route that changed the server appends one    *)
(* line (persistEntry); an undo request looks the line up (getEntry), runs *)
(* the inverse operation (runUndo), appends a line of its own and rewrites *)
(* the day file with the undone mark (markEntryUndone) under a per-file    *)
(* promise chain (withFileLock).  Every await is a step boundary: between  *)
(* two of them any other request of the same Node process may run.         *)
(***************************************************************************)
EXTENDS Integers, Sequences, FiniteSets

CONSTANTS
  Entries,     \* ids of the undoable actions the routes perform
  Posts,       \* undo requests; the id of a POST is also its journal line's id
  Kind,        \* how the handler of an entry's undoSpec reverses it
  HasTtl,      \* entries whose undoSpec has ttlMinutes
  MaxDay,      \* bound: the clock stops at this day
  DaysBack,    \* day files getEntry and markEntryUndone look through
  MaxCrashes,  \* bound on restarts of the panel process
  MaxDiskFaults, \* bound on reads and writes that fail
  None         \* "not undone", "no promise"

Kinds == {"remove", "readd", "create"}

ASSUME KindAssumption == Kind \in [Entries -> Kinds] /\ HasTtl \subseteq Entries
ASSUME DaysAssumption == MaxDay \in Nat /\ DaysBack \in Nat \ {0}
ASSUME BoundAssumption == MaxCrashes \in Nat /\ MaxDiskFaults \in Nat
ASSUME IdAssumption == Entries \cap Posts = {} /\ None \notin Entries \cup Posts

VARIABLES
  file,       \* day -> the lines of that day's JSONL file
  chain,      \* day -> requests queued in withFileLock; the head holds the file
  fileLocks,  \* day -> the promise the fileLocks map holds
  today,      \* the UTC day
  lapsed,     \* entries whose ttlMinutes have passed
  copies,     \* entry -> live instances of the resource it created or removed
  act,        \* entry -> progress of the route that performs it
  post,       \* POST -> progress of the undo request
  acked,      \* entries an undo confirmed: 200 after its mark, or after a scan
              \*   that could read every day file (history)
  appended,   \* ids whose appendFile succeeded (history)
  ran,        \* entry -> POSTs whose handler ran to success (history)
  crashes,    \* restarts so far
  diskFaults  \* failed reads and writes so far

vars == <<file, chain, fileLocks, today, lapsed, copies, act, post, acked,
          appended, ran, crashes, diskFaults>>

Days == 0..MaxDay
Ids  == Entries \cup Posts

Line == [id : Ids, undoable : BOOLEAN, undone : Posts \cup {None}]

\* fileLocks stores next.catch(..), a promise other than `next` itself.
Promise == [of : Posts, is : {"next", "caught"}]

ActPC  == {"idle", "done", "failed", "logged", "dead"}
PostPC == {"idle", "lookup", "run", "record", "recordFailed", "mark", "queued",
           "rewrite", "ok", "conflict", "notFound", "error", "dead"}
Final  == {"ok", "conflict", "notFound", "error", "dead"}

ActRec == [pc : ActPC, day : Days]

PostRec == [pc : PostPC, target : Entries \cup {None}, from : Days, back : Nat,
            day : Days, snap : SUBSET Line, missed : BOOLEAN, late : BOOLEAN]

TypeOK ==
  /\ file \in [Days -> SUBSET Line]
  /\ chain \in [Days -> Seq(Posts)]
  /\ fileLocks \in [Days -> Promise \cup {None}]
  /\ today \in Days
  /\ lapsed \subseteq Entries
  /\ copies \in [Entries -> Nat]
  /\ act \in [Entries -> ActRec]
  /\ post \in [Posts -> PostRec]
  /\ acked \subseteq Entries
  /\ appended \subseteq Ids
  /\ ran \in [Entries -> SUBSET Posts]
  /\ crashes \in 0..MaxCrashes
  /\ diskFaults \in 0..MaxDiskFaults

\* An add-kind action starts with no resource, a delete-kind one with one.
Before(e) == IF Kind[e] = "remove" THEN 0 ELSE 1
After(e) == IF Kind[e] = "remove" THEN 1 ELSE 0

\* A request that holds nothing in memory: not arrived, or over.
Blank(how) == [pc |-> how, target |-> None, from |-> 0, back |-> 0, day |-> 0,
               snap |-> {}, missed |-> FALSE, late |-> FALSE]

Init ==
  /\ file = [d \in Days |-> {}]
  /\ chain = [d \in Days |-> <<>>]
  /\ fileLocks = [d \in Days |-> None]
  /\ today = 0
  /\ lapsed = {}
  /\ copies = [e \in Entries |-> Before(e)]
  /\ act = [e \in Entries |-> [pc |-> "idle", day |-> 0]]
  /\ post = [p \in Posts |-> Blank("idle")]
  /\ acked = {}
  /\ appended = {}
  /\ ran = [e \in Entries |-> {}]
  /\ crashes = 0
  /\ diskFaults = 0

-----------------------------------------------------------------------------
(* The store *)

\* The file system fails the call a step makes.
DiskFails == diskFaults < MaxDiskFaults /\ diskFaults' = diskFaults + 1

\* persistEntry: one appendFile to the file of the day the action started on;
\* a write the disk refuses is swallowed.
persistEntry(day, line) ==
  \/ /\ file' = [file EXCEPT ![day] = @ \cup {line}]
     /\ appended' = appended \cup {line.id}
     /\ UNCHANGED diskFaults
  \/ DiskFails /\ UNCHANGED <<file, appended>>

\* The day file a request has reached, scanning back from `from`.
DayOf(p) == post[p].from - post[p].back

hits(p, lines) == {x \in lines : x.id = post[p].target}

FileAt(day) == IF day \in Days THEN file[day] ELSE {}

Answer(p, how) == [post EXCEPT ![p] = Blank(how)]

\* Mutant: one day file too many.
NextDay_OneMore(p, again, exhausted) ==
  IF post[p].back < DaysBack /\ DayOf(p) > 0
    THEN [post EXCEPT ![p].back = @ + 1, ![p].pc = again]
    ELSE Answer(p, exhausted)

\* The loop's next iteration, or what follows the loop when it is exhausted.
NextDay(p, again, exhausted) ==
  IF post[p].back + 1 < DaysBack /\ DayOf(p) > 0
    THEN [post EXCEPT ![p].back = @ + 1, ![p].pc = again]
    ELSE Answer(p, exhausted)

isStillUndoable(line) ==
  line.undoable /\ line.undone = None /\ line.id \notin lapsed

-----------------------------------------------------------------------------
(* Routes that perform undoable actions *)

\* The route runs the operation; one that fails half-way (the alias is in the
\* file, the mail map is not rebuilt) may have changed the resource all the same.
Perform(e) ==
  /\ act[e].pc = "idle"
  /\ \/ /\ act' = [act EXCEPT ![e] = [pc |-> "done", day |-> today]]
        /\ copies' = [copies EXCEPT ![e] = After(e)]
     \/ /\ act' = [act EXCEPT ![e] = [pc |-> "failed", day |-> today]]
        /\ copies' \in {copies, [copies EXCEPT ![e] = After(e)]}
  /\ UNCHANGED <<file, chain, fileLocks, today, lapsed, post, acked, appended,
                 ran, crashes, diskFaults>>

\* Mutant: the line goes to the file of the day it is written on.
FinishAction_WriteDay(e) ==
  /\ act[e].pc \in {"done", "failed"}
  /\ persistEntry(today, [id |-> e, undoable |-> act[e].pc = "done", undone |-> None])
  /\ act' = [act EXCEPT ![e].pc = "logged"]
  /\ UNCHANGED <<chain, fileLocks, today, lapsed, copies, post, acked, ran,
                 crashes>>

\* journal.finish: setUndoSpec was called only if the operation succeeded.
FinishAction(e) ==
  /\ act[e].pc \in {"done", "failed"}
  /\ persistEntry(act[e].day,
       [id |-> e, undoable |-> act[e].pc = "done", undone |-> None])
  /\ act' = [act EXCEPT ![e].pc = "logged"]
  /\ UNCHANGED <<chain, fileLocks, today, lapsed, copies, post, acked, ran,
                 crashes>>

-----------------------------------------------------------------------------
(* POST /api/admin/journal/:id/undo *)

\* The admin clicks Undo on an action the panel performed.
Arrive(p, e) ==
  /\ post[p].pc = "idle"
  /\ act[e].pc # "idle"
  /\ post' = [post EXCEPT ![p] = [pc |-> "lookup", target |-> e, from |-> today,
                                  back |-> 0, day |-> 0, snap |-> {},
                                  missed |-> FALSE, late |-> e \in acked]]
  /\ UNCHANGED <<file, chain, fileLocks, today, lapsed, copies, act, acked,
                 appended, ran, crashes, diskFaults>>

\* One readDay of getEntry: a read that fails is a day without entries.  On a
\* hit the checks and beginJournal follow without an await.
Lookup(p) ==
  /\ post[p].pc = "lookup"
  /\ LET hit == hits(p, FileAt(DayOf(p)))
     IN  \/ /\ post' = NextDay(p, "lookup", "notFound")
            /\ (hit = {} /\ UNCHANGED diskFaults) \/ DiskFails
         \/ /\ \E x \in hit :
                 post' = IF isStillUndoable(x)
                           THEN [post EXCEPT ![p].pc = "run", ![p].day = today]
                           ELSE Answer(p, "conflict")
            /\ UNCHANGED diskFaults
  /\ UNCHANGED <<file, chain, fileLocks, today, lapsed, copies, act, acked,
                 appended, ran, crashes>>

\* The inverse operation.  Deleting is repeatable, deleting what is gone may
\* fail; re-adding a DNS record appends another line to the zone; creating an
\* alias that exists fails.  A handler that throws may have done its work before.
Reversed(e) ==
  CASE Kind[e] = "remove" -> 0
    [] OTHER -> copies[e] + 1

MayReverse(e) == Kind[e] = "create" => copies[e] = 0

Reversal(e) ==
  IF MayReverse(e) THEN [copies EXCEPT ![e] = Reversed(e)] ELSE copies

\* Mutant: a handler that failed is taken for one that succeeded.
runUndo_IgnoresFailure(p) ==
  LET e == post[p].target
  IN  /\ post[p].pc = "run"
      /\ \/ /\ MayReverse(e)
            /\ copies' = Reversal(e)
            /\ ran' = [ran EXCEPT ![e] = @ \cup {p}]
         \/ copies' \in {copies, Reversal(e)} /\ UNCHANGED ran
      /\ post' = [post EXCEPT ![p].pc = "record"]
      /\ UNCHANGED <<file, chain, fileLocks, today, lapsed, act, acked,
                     appended, crashes, diskFaults>>

runUndo(p) ==
  LET e == post[p].target
  IN  /\ post[p].pc = "run"
      /\ \/ /\ MayReverse(e)
            /\ copies' = Reversal(e)
            /\ ran' = [ran EXCEPT ![e] = @ \cup {p}]
            /\ post' = [post EXCEPT ![p].pc = "record"]
         \/ /\ post' = [post EXCEPT ![p].pc = "recordFailed"]
            /\ copies' \in {copies, Reversal(e)}
            /\ UNCHANGED ran
      /\ UNCHANGED <<file, chain, fileLocks, today, lapsed, act, acked,
                     appended, crashes, diskFaults>>

\* undoJournal.finish, then markEntryUndone with a clock reading of its own.
FinishUndo(p) ==
  /\ post[p].pc \in {"record", "recordFailed"}
  /\ persistEntry(post[p].day, [id |-> p, undoable |-> FALSE, undone |-> None])
  /\ post' = IF post[p].pc = "record"
               THEN [post EXCEPT ![p].pc = "mark", ![p].from = today,
                                 ![p].back = 0]
               ELSE Answer(p, "error")
  /\ UNCHANGED <<chain, fileLocks, today, lapsed, copies, act, acked, ran,
                 crashes>>

-----------------------------------------------------------------------------
(* markEntryUndone *)

\* withFileLock: queue behind whatever promise the map holds for the file.
Enqueue(p) ==
  LET d == DayOf(p)
  IN  /\ post[p].pc = "mark"
      /\ chain' = [chain EXCEPT ![d] = Append(@, p)]
      /\ fileLocks' = [fileLocks EXCEPT ![d] = [of |-> p, is |-> "caught"]]
      /\ post' = [post EXCEPT ![p].pc = "queued"]
      /\ UNCHANGED <<file, today, lapsed, copies, act, acked, appended, ran,
                     crashes, diskFaults>>

\* Mutant: no lock.
HasFile_Unlocked(p, d) == TRUE

HasFile(p, d) == chain[d] # <<>> /\ Head(chain[d]) = p

\* The critical section ends, by return or by throw: the next in the chain may
\* run, and the map entry is dropped if it is still this promise.
Release(p, d) ==
  /\ chain' = [chain EXCEPT ![d] = Tail(@)]
  /\ fileLocks' = IF fileLocks[d] = [of |-> p, is |-> "next"]
                    THEN [fileLocks EXCEPT ![d] = None]
                    ELSE fileLocks

\* Mutant: only the newest file is searched for the line to mark.
ReadFile_NewestOnly(p) ==
  LET d == DayOf(p)
      hit == hits(p, file[d])
  IN  /\ post[p].pc = "queued"
      /\ HasFile(p, d)
      /\ \/ /\ hit = {}
            /\ Release(p, d)
            /\ post' = Answer(p, "ok")
            /\ acked' = acked \cup {post[p].target}
         \/ /\ hit # {}
            /\ post' = [post EXCEPT ![p].pc = "rewrite", ![p].snap = file[d]]
            /\ UNCHANGED <<chain, fileLocks, acked>>
      /\ UNCHANGED <<file, today, lapsed, copies, act, appended, ran, crashes,
                     diskFaults>>

\* A read that fails is taken for a day file without the entry: the scan goes
\* on, and when it is exhausted the answer is 200 all the same.
SkipUnread(p) ==
  LET next == NextDay(p, "mark", "ok")
  IN  /\ DiskFails
      /\ post' = [next EXCEPT ![p].missed = next[p].pc = "mark"]
      /\ UNCHANGED acked

\* The scan goes on past a day file that does not hold the entry.
SkipDay(p) ==
  /\ post' = NextDay(p, "mark", "ok")
  /\ acked' = IF post'[p].pc = "ok" /\ ~post[p].missed
                THEN acked \cup {post[p].target} ELSE acked
  /\ UNCHANGED diskFaults

\* The read of the day file; without a hit the section ends and the loop goes on.
ReadFile(p) ==
  LET d == DayOf(p)
      hit == hits(p, file[d])
  IN  /\ post[p].pc = "queued"
      /\ HasFile(p, d)
      /\ \/ /\ (hit = {} /\ SkipDay(p)) \/ SkipUnread(p)
            /\ Release(p, d)
         \/ /\ hit # {}
            /\ post' = [post EXCEPT ![p].pc = "rewrite", ![p].snap = file[d]]
            /\ UNCHANGED <<chain, fileLocks, acked, diskFaults>>
      /\ UNCHANGED <<file, today, lapsed, copies, act, appended, ran, crashes>>

\* Mutant: the mark names the entry, not the undo.
Marked_NamesEntry(p, lines) ==
  {IF x.id = post[p].target THEN [x EXCEPT !.undone = x.id, !.undoable = FALSE]
                            ELSE x : x \in lines}

\* The copy of the lines that were read, with the entry's line marked.
Marked(p, lines) ==
  {IF x.id = post[p].target THEN [x EXCEPT !.undone = p, !.undoable = FALSE]
                            ELSE x : x \in lines}

\* writeFile(tmp) and rename(tmp, file), then the answer.
Rename(p) ==
  LET d == DayOf(p)
  IN  /\ post[p].pc = "rewrite"
      /\ file' = [file EXCEPT ![d] = Marked(p, post[p].snap)]
      /\ Release(p, d)
      /\ post' = Answer(p, "ok")
      /\ acked' = acked \cup {post[p].target}
      /\ UNCHANGED <<today, lapsed, copies, act, appended, ran, crashes,
                     diskFaults>>

\* Mutant: the write error is swallowed, as persistEntry swallows its own.
RewriteFails_Swallowed(p) ==
  /\ post[p].pc = "rewrite"
  /\ DiskFails
  /\ Release(p, DayOf(p))
  /\ post' = Answer(p, "ok")
  /\ acked' = acked \cup {post[p].target}
  /\ UNCHANGED <<file, today, lapsed, copies, act, appended, ran, crashes>>

\* Mutant: a section that throws does not let the next one in.
RewriteFails_KeepsLock(p) ==
  /\ post[p].pc = "rewrite"
  /\ DiskFails
  /\ post' = Answer(p, "error")
  /\ UNCHANGED <<file, chain, fileLocks, today, lapsed, copies, act, acked,
                 appended, ran, crashes>>

\* The disk refuses the temporary file: the section throws, the undo's own line
\* is already final, and the request is answered 500.
RewriteFails(p) ==
  /\ post[p].pc = "rewrite"
  /\ DiskFails
  /\ Release(p, DayOf(p))
  /\ post' = Answer(p, "error")
  /\ UNCHANGED <<file, today, lapsed, copies, act, acked, appended, ran,
                 crashes>>

-----------------------------------------------------------------------------
(* The environment *)

Midnight ==
  /\ today < MaxDay
  /\ today' = today + 1
  /\ UNCHANGED <<file, chain, fileLocks, lapsed, copies, act, post, acked,
                 appended, ran, crashes, diskFaults>>

\* ttlMinutes pass since the entry's startedAt.
Lapse(e) ==
  /\ act[e].pc # "idle"
  /\ e \in HasTtl \ lapsed
  /\ lapsed' = lapsed \cup {e}
  /\ UNCHANGED <<file, chain, fileLocks, today, copies, act, post, acked,
                 appended, ran, crashes, diskFaults>>

\* The Node process restarts: what was in flight is gone, and so is the map.
Crash ==
  /\ crashes < MaxCrashes
  /\ crashes' = crashes + 1
  /\ act' = [e \in Entries |->
               IF act[e].pc \in {"done", "failed"} THEN [act[e] EXCEPT !.pc = "dead"]
                                                   ELSE act[e]]
  /\ post' = [p \in Posts |->
                IF post[p].pc \in Final \cup {"idle"} THEN post[p]
                ELSE Blank("dead")]
  /\ chain' = [d \in Days |-> <<>>]
  /\ fileLocks' = [d \in Days |-> None]
  /\ UNCHANGED <<file, today, lapsed, copies, acked, appended, ran,
                 diskFaults>>

Step(p) ==
  \/ Lookup(p) \/ runUndo(p) \/ FinishUndo(p)
  \/ Enqueue(p) \/ ReadFile(p) \/ Rename(p) \/ RewriteFails(p)

Next ==
  \/ \E e \in Entries : Perform(e) \/ FinishAction(e) \/ Lapse(e)
  \/ \E p \in Posts : Step(p) \/ \E e \in Entries : Arrive(p, e)
  \/ Midnight \/ Crash

\* The event loop runs every callback that is ready; nobody has to click.
Fairness == \A p \in Posts : WF_vars(Step(p))

Spec == Init /\ [][Next]_vars /\ Fairness

-----------------------------------------------------------------------------
(* Properties *)

\* withFileLock: no two requests are between the read and the rename of the
\* same day file.
RewriteExclusive ==
  \A p, q \in Posts :
    p # q /\ post[p].pc = "rewrite" /\ post[q].pc = "rewrite"
      => DayOf(p) # DayOf(q)

IsMarked(d, i) == \E x \in file[d] : x.id = i /\ x.undone # None

\* No step of anyone takes an undone mark off a day file again: concurrent
\* undos, appends, failing writes and restarts included.
MarksSurvive ==
  [][\A d \in Days, e \in Entries : IsMarked(d, e) => IsMarked(d, e)']_vars

\* A POST that arrives after an undo of the same entry was confirmed - answered
\* 200 with the mark written, or after a scan that could read every day file -
\* never reaches the handler.  Not so after a 200 whose scan met a read that
\* failed (store.ts:192 takes it for "no hit", route.ts:86-97 answers success):
\* the entry is left unmarked and a second POST runs the handler again.
SecondPostRejected ==
  \A p \in Posts : post[p].late => post[p].pc \in Final \cup {"lookup"}

\* The undoneByEntryId on a line names an undo whose handler ran, to success, on
\* that very entry.
MarkNamesItsUndo ==
  \A d \in Days : \A x \in file[d] :
    x.undone # None => x.id \in Entries /\ x.undone \in ran[x.id]

\* Every undo request is answered, or dies with the process: the promise chain
\* lets the next request in after a section that threw.
EveryPostAnswered ==
  \A p \in Posts : (post[p].pc # "idle") ~> (post[p].pc \in Final)

-----------------------------------------------------------------------------
(* What the comments claim *)

\* "Append-only JSONL storage", "the audit trail is complete": a line whose
\* append succeeded stays in its file.
NoAppendLost ==
  \A i \in appended : \E d \in Days : \E x \in file[d] : x.id = i
=============================================================================
