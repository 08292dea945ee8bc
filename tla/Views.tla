-------------------------------- MODULE Views --------------------------------
(***************************************************************************)
(* What a page of the panel is made of.  A page shows parts of what the     *)
(* server stores: a list, a form, a report.  A handler of the page makes    *)
(* calls of the API one after the other; each changes parts on the server,  *)
(* puts parts on the page, or both.  DomainViews and AdminViews hold the    *)
(* pages; ViewRun says what handlers do when several are at work.           *)
(*                                                                         *)
(* Left out: messages, inputs of forms, what a page shows before its parts  *)
(* are loaded, and the navigation to another domain, which loads them anew. *)
(* A handler that calls another one keeps only its own flag.                *)
(***************************************************************************)
EXTENDS Naturals, Sequences

\* One call: the parts it changes on the server, the parts its answer puts on
\* the page, those the page changes by itself when the answer is good, whether
\* a refusal ends the handler, whether a lost answer is ignored, the parts that
\* belong to an item of a list, and when that item becomes the chosen one.
Call(does, shows) ==
  [does |-> does, shows |-> shows, adds |-> {}, must |-> TRUE, tries |-> FALSE,
   ofItem |-> {}, picks |-> "not"]

Need(parts)   == Call({}, parts)                          \* if (!res.ok) throw; set...(data)
Get(parts)    == [Need(parts) EXCEPT !.must = FALSE]      \* if (res.ok) set...(data)
Post(parts)   == Call(parts, {})                          \* if (!res.ok) throw
Send(parts)   == [Post(parts) EXCEPT !.must = FALSE]      \* nobody looks at res.ok
Answer(parts) == Call(parts, parts)                       \* the answer is what is stored now
Keep(parts)   == [Post(parts) EXCEPT !.adds = parts]      \* the page shows what was asked for
Ask           == Call({}, {})                             \* nothing shown is stored
Caught(call)  == [call EXCEPT !.must = FALSE, !.tries = TRUE]  \* catch { }
OnChosen(parts, call) == [call EXCEPT !.ofItem = parts]
OfChosen(call) == OnChosen(call.does \cup call.shows \cup call.adds, call)
Picking(call)  == [OfChosen(call) EXCEPT !.picks = "before"]  \* the item is chosen, then the call made
Opening(call)  == [OfChosen(call) EXCEPT !.picks = "after"]   \* the item is chosen when the answer is there

\* Change a part, then load it again.
Change_NoReload(part) == <<Post({part})>>
Change(part) == <<Post({part}), Get({part})>>
Renew(part)  == <<Post({part}), Need({part})>>

-----------------------------------------------------------------------------
\* A handler: the flag it sets while it runs and resets at the end (finally);
\* the flags that disable its button; whether the flag is the name of the
\* handler and item and disables only that button; whether every row of a list
\* has the button; whether it runs when the page appears; whether it has a
\* button, or a timer.
Click(steps) ==
  [sets |-> "", waits |-> {}, own |-> FALSE, rows |-> FALSE,
   mount |-> FALSE, button |-> TRUE, steps |-> steps]

FormOf(flag, steps) == [Click(steps) EXCEPT !.sets = flag, !.waits = {flag}]
Form(steps)         == FormOf("loading", steps)
Named(flag, steps)  == [Click(steps) EXCEPT !.sets = flag, !.own = TRUE]
EachRow(h)          == [h EXCEPT !.rows = TRUE]
RowOf(flag, steps)  == EachRow(Named(flag, steps))
Repeatable(h)       == [h EXCEPT !.waits = {}]
Waiting(h, flags)   == [h EXCEPT !.waits = flags]
OnMount(h)          == [h EXCEPT !.mount = TRUE]
Effect(steps)       == [OnMount(Click(steps)) EXCEPT !.button = FALSE]
Setting(flag, h)    == [h EXCEPT !.sets = flag]

\* A list with a form for a new row and a dialog that deletes one.
ListPage(part) == [create |-> Form(Change(part)), confirmDelete |-> EachRow(Form(Change(part)))]
=============================================================================
