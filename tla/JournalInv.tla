----------------------------- MODULE JournalInv -----------------------------
(***************************************************************************)
(* The inductive invariant behind the safety properties of Journal.  TLC   *)
(* checks it on the instance of Journal.cfg; JournalProofs proves it       *)
(* inductive.                                                              *)
(***************************************************************************)
EXTENDS Journal

Active == PostPC \ (Final \cup {"idle"})

\* A request at work is about an entry, its scan has not run past the first
\* day, and if it rewrites a file it heads that file's chain.
PostInv ==
  \A p \in Posts :
    /\ post[p].pc \in Active => post[p].target \in Entries /\ DayOf(p) \in Days
    /\ post[p].pc = "rewrite" => HasFile(p, DayOf(p))

TypeInv == TypeOK /\ PostInv

\* A line of an action sits in the file of the day the action started, after
\* the action's route has finished; only actions are marked, and only by an
\* undo whose handler ran on them.
LineOK(d, x) ==
  /\ x.id \in Entries => act[x.id].pc = "logged" /\ act[x.id].day = d
  /\ x.undone # None => x.id \in Entries /\ x.undone \in ran[x.id]

Rewriting(p) == post[p].pc = "rewrite"

ActInv == \A e \in Entries : act[e].day <= today

\* What is known of a request from its place in the protocol.
RequestInv ==
  \A p \in Posts :
    LET r == post[p]
    IN  /\ r.pc \in Active => r.back < DaysBack /\ r.from <= today
        /\ r.pc \in Active \ {"lookup"} => act[r.target].pc = "logged"
        /\ r.pc \in {"record", "mark", "queued", "rewrite"} => p \in ran[r.target]
        /\ r.pc \in {"mark", "queued", "rewrite"} => act[r.target].day <= r.from

FileInv == \A d \in Days : \A x \in file[d] : LineOK(d, x)

\* The copy of the file a rewriting request holds: well-formed lines, the line
\* to mark among them, and every marked line of the file itself.
SnapInv ==
  \A p \in Posts :
    Rewriting(p) =>
      /\ \A x \in post[p].snap : LineOK(DayOf(p), x)
      /\ \E x \in post[p].snap : x.id = post[p].target
      /\ \A x \in file[DayOf(p)] : x.undone # None => x \in post[p].snap

\* No line of e on day d, nor in a copy about to replace that day's file.
NoLineOf(e, d) ==
  /\ \A x \in file[d] : x.id # e
  /\ \A q \in Posts : Rewriting(q) /\ DayOf(q) = d
                        => \A y \in post[q].snap : y.id # e

\* The files a marking request has been through do not hold the entry, if it
\* could read them all.
VisitedInv ==
  \A p \in Posts, d \in Days :
    /\ post[p].pc \in {"mark", "queued"} /\ ~post[p].missed
    /\ DayOf(p) < d /\ d <= post[p].from
    => NoLineOf(post[p].target, d)

AllMarked(e) ==
  /\ \A d \in Days : \A x \in file[d] : x.id = e => x.undone # None
  /\ \A q \in Posts : Rewriting(q)
                        => \A y \in post[q].snap : y.id = e => y.undone # None

\* A lookup started on that day cannot find e unmarked.
SettledAt(e, day) == act[e].day + DaysBack <= day \/ AllMarked(e)

AckedInv ==
  \A e \in acked : act[e].pc = "logged" /\ SettledAt(e, today)

LateInv ==
  \A p \in Posts :
    post[p].late /\ post[p].pc \notin Final =>
      /\ post[p].pc = "lookup"
      /\ post[p].target \in acked
      /\ SettledAt(post[p].target, post[p].from)

IInv ==
  /\ TypeOK /\ PostInv /\ ActInv /\ RequestInv /\ FileInv /\ SnapInv
  /\ VisitedInv /\ AckedInv /\ LateInv
=============================================================================
