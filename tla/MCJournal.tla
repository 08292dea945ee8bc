----------------------------- MODULE MCJournal -----------------------------
(* Instances of Journal: actions whose undo deletes (e1) and whose undo adds  *)
(* the resource back, by a handler that refuses a second copy or that does    *)
(* not (e2).                                                                  *)
EXTENDS JournalInv, TLC

CONSTANTS e1, e2, p1, p2, p3

MCKind  == (e1 :> "remove") @@ (e2 :> "create")
MCReadd == (e2 :> "readd")
MCOne   == (e1 :> "create")

Symmetry == Permutations({p1, p2, p3})
=============================================================================
