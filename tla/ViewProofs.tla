------------------------------ MODULE ViewProofs ------------------------------
(***************************************************************************)
(* What the flags of a page do, for any number of clicks.  A flag that       *)
(* excludes has one handler at work at a time, which keeps it set until it  *)
(* ends; so what that handler submits it submits once.  ButtonsAssumption   *)
(* says that every handler which submits something has such a flag or is    *)
(* listed in MayRepeat.                                                      *)
(***************************************************************************)
EXTENDS ViewRun, FiniteSetTheorems, TLAPS

Sets(n) == Page[calls[n].h].sets
First == Cardinality(Mounted)

\* The calls at work have numbers: the loads the page begins with come first,
\* then the clicks.
CallsInv ==
  /\ view \in DOMAIN View /\ clicks \in Nat /\ DOMAIN busy = Flags
  /\ \A n \in DOMAIN calls :
       /\ n \in 1..First + clicks
       /\ {"h", "item"} \subseteq DOMAIN calls[n]
       /\ calls[n].h \in DOMAIN Page /\ calls[n].item \in Subjects
       /\ n <= First => calls[n].h \in Mounted

\* One handler at a time sets an exclusive flag, and keeps it set.
ExclusiveInv ==
  \A n \in DOMAIN calls : Exclusive(Page, Sets(n)) =>
    /\ busy[Sets(n)] # Off
    /\ \A m \in DOMAIN calls : Sets(m) = Sets(n) => m = n

\* Who submits again has no such flag.
TwiceInv ==
  \A h \in twice :
    /\ h \in DOMAIN Page /\ Page[h].button /\ Changes(h)
    /\ ~Exclusive(Page, Page[h].sets)

VInv == CallsInv /\ ExclusiveInv /\ TwiceInv

-----------------------------------------------------------------------------
\* What TypeOK would say of the loads a page begins with: there are finitely
\* many, and they are numbered.
LEMMA FirstCalls ==
  ASSUME view \in DOMAIN View
  PROVE  /\ First \in Nat
         /\ SetToSeq(Mounted) \in [1..First -> Mounted]
         /\ \A m, n \in 1..First : SetToSeq(Mounted)[m] = SetToSeq(Mounted)[n] => m = n
<1>1. IsFiniteSet(DOMAIN Page)
  BY ViewAssumption DEF Page
<1>2. IsFiniteSet(Mounted)
  <2>1. Mounted \in SUBSET DOMAIN Page
    BY DEF Mounted
  <2>2. QED
    BY <1>1, <2>1, FS_Subset
<1>3. First \in Nat /\ ExistsBijection(1..First, Mounted)
  BY <1>2, FS_CardinalityType DEF First
<1>4. \E f \in [1..First -> Mounted] : IsInjective(f)
  BY <1>3 DEF ExistsBijection, Bijection, Injection, IsInjective
<1>5. SetToSeq(Mounted) \in [1..First -> Mounted] /\ IsInjective(SetToSeq(Mounted))
  BY <1>4 DEF SetToSeq, First
<1>6. QED
  BY <1>3, <1>5 DEF IsInjective

\* A flag that is set names a handler, and is not off.
LEMMA NotOff ==
  ASSUME view \in DOMAIN View, NEW h \in DOMAIN Page, NEW i
  PROVE  <<h, i>> # Off
<1>1. <<h, i>>[1] = h /\ Off[1] = ""
  BY DEF Off
<1>2. QED
  BY <1>1, ViewAssumption DEF Page

\* The loads a page begins with set their flags; no flag that excludes is set
\* twice.
LEMMA Begins ==
  ASSUME Init
  PROVE  VInv
<1> DEFINE first == SetToSeq(Mounted)
<1>1. view \in DOMAIN View /\ clicks = 0 /\ twice = {} /\ chosen \in Subjects
  BY DEF Init, Subjects
<1>2. /\ First \in Nat /\ first \in [1..First -> Mounted]
      /\ \A m, n \in 1..First : first[m] = first[n] => m = n
  BY <1>1, FirstCalls
<1>3. /\ calls = [n \in DOMAIN first |-> Started(first[n], chosen, LoadsOf(first[n], chosen))]
      /\ busy = [f \in Flags |-> IF SetAtFirst(f) = {} THEN Off
                                 ELSE <<CHOOSE h \in SetAtFirst(f) : TRUE, chosen>>]
  BY DEF Init
<1> HIDE DEF first
<1>4. /\ DOMAIN calls = 1..First
      /\ \A n \in 1..First : /\ {"h", "item"} \subseteq DOMAIN calls[n]
                             /\ calls[n].h = first[n] /\ calls[n].item = chosen /\ first[n] \in Mounted
  BY <1>2, <1>3 DEF Started
<1>5. Mounted \subseteq DOMAIN Page /\ \A h \in Mounted : Page[h].mount
  BY DEF Mounted
<1>6. CallsInv
  BY <1>1, <1>2, <1>3, <1>4, <1>5 DEF CallsInv
<1>7. ExclusiveInv
  <2> SUFFICES ASSUME NEW n \in DOMAIN calls, Exclusive(Page, Sets(n))
               PROVE  busy[Sets(n)] # Off /\ \A m \in DOMAIN calls : Sets(m) = Sets(n) => m = n
    BY DEF ExclusiveInv
  <2>1. calls[n].h \in SetAtFirst(Sets(n)) /\ Sets(n) \in Flags
    <3>1. calls[n].h \in Mounted /\ calls[n].h \in DOMAIN Page
      BY <1>4, <1>5
    <3>2. Sets(n) # ""
      BY DEF Exclusive
    <3>3. QED
      BY <3>1, <3>2 DEF SetAtFirst, Sets, Flags
  <2>2. busy[Sets(n)] = <<CHOOSE h \in SetAtFirst(Sets(n)) : TRUE, chosen>>
    BY <1>3, <2>1
  <2>3. busy[Sets(n)] # Off
    <3>1. (CHOOSE h \in SetAtFirst(Sets(n)) : TRUE) \in DOMAIN Page
      BY <1>5, <2>1 DEF SetAtFirst
    <3>2. QED
      BY <1>1, <2>2, <3>1, NotOff
  <2>4. ASSUME NEW m \in DOMAIN calls, Sets(m) = Sets(n)
        PROVE  m = n
    <3>1. /\ calls[m].h \in Setters(Page, Sets(n)) /\ Page[calls[m].h].mount
          /\ calls[n].h \in Setters(Page, Sets(n)) /\ Page[calls[n].h].mount
      <4>1. /\ calls[m].h \in DOMAIN Page /\ Page[calls[m].h].mount
            /\ calls[n].h \in DOMAIN Page /\ Page[calls[n].h].mount
        BY <1>4, <1>5
      <4>2. QED
        BY <2>4, <4>1 DEF Setters, Sets
    <3>2. calls[m].h = calls[n].h
      BY <3>1 DEF Exclusive
    <3>3. QED
      BY <1>2, <1>4, <3>2
  <2>5. QED
    BY <2>3, <2>4
<1>8. TwiceInv
  BY <1>1 DEF TwiceInv
<1>9. QED
  BY <1>6, <1>7, <1>8 DEF VInv

\* A call that goes on, or that ends and resets its flag.
LEMMA GoesOn ==
  ASSUME VInv, UNCHANGED <<view, busy, twice, clicks>>, DOMAIN calls' = DOMAIN calls,
         \A n \in DOMAIN calls :
           DOMAIN calls'[n] = DOMAIN calls[n] /\ calls'[n].h = calls[n].h /\ calls'[n].item = calls[n].item
  PROVE  VInv'
<1>1. Page' = Page /\ First' = First /\ Flags' = Flags /\ Mounted' = Mounted
  BY DEF Page, First, Flags, Mounted
<1>2. \A n \in DOMAIN calls : Sets(n)' = Sets(n)
  BY <1>1 DEF Sets
<1>3. CallsInv'
  BY <1>1 DEF VInv, CallsInv
<1>4. ExclusiveInv'
  BY <1>1, <1>2 DEF VInv, ExclusiveInv
<1>5. TwiceInv'
  BY <1>1 DEF VInv, TwiceInv, Changes, Ran
<1>6. QED
  BY <1>3, <1>4, <1>5 DEF VInv

\* A handler that ends resets its flag and leaves those of the other calls.
LEMMA EndKeeps ==
  ASSUME VInv, NEW n \in DOMAIN calls, NEW behind, End(n, behind), UNCHANGED <<view, twice, clicks>>
  PROVE  VInv'
<1>1. Page' = Page /\ First' = First /\ Flags' = Flags /\ Mounted' = Mounted
  BY DEF Page, First, Flags, Mounted
<1>2. /\ DOMAIN calls' = DOMAIN calls \ {n}
      /\ \A m \in DOMAIN calls \ {n} : calls'[m] = calls[m]
  BY DEF End
<1>3. \A m \in DOMAIN calls \ {n} : Sets(m)' = Sets(m)
  BY <1>1, <1>2 DEF Sets
<1>4. DOMAIN busy' = DOMAIN busy /\ \A f \in Flags : f # Sets(n) => busy'[f] = busy[f]
  BY DEF End, Unflagged, Sets, VInv, CallsInv
<1>5. \A m \in DOMAIN calls : Sets(m) # "" => Sets(m) \in Flags
  BY DEF VInv, CallsInv, Flags, Sets
<1>6. CallsInv'
  BY <1>1, <1>2, <1>4 DEF VInv, CallsInv
<1>7. ExclusiveInv'
  <2> SUFFICES ASSUME NEW m \in DOMAIN calls \ {n}, Exclusive(Page, Sets(m))
               PROVE  busy'[Sets(m)] # Off /\ \A k \in DOMAIN calls \ {n} : Sets(k) = Sets(m) => k = m
    BY <1>1, <1>2, <1>3 DEF ExclusiveInv
  <2>1. busy[Sets(m)] # Off /\ \A k \in DOMAIN calls : Sets(k) = Sets(m) => k = m
    BY DEF VInv, ExclusiveInv
  <2>2. Sets(n) # Sets(m) /\ Sets(m) \in Flags
    BY <1>5, <2>1 DEF Exclusive
  <2>3. QED
    BY <1>4, <2>1, <2>2
<1>8. TwiceInv'
  BY <1>1 DEF VInv, TwiceInv, Changes, Ran
<1>9. QED
  BY <1>6, <1>7, <1>8 DEF VInv

\* A click starts a handler whose button is enabled.
LEMMA PressKeeps ==
  ASSUME VInv, NEW h \in DOMAIN Page, NEW i \in Subjects, Press(h, i)
  PROVE  VInv'
<1> DEFINE f == Page[h].sets
<1>0. PICK n : n = First + clicks + 1
  OBVIOUS
<1>1. /\ view' = view /\ clicks' = clicks + 1 /\ clicks \in Nat /\ First \in Nat
      /\ Page[h].button /\ \A g \in Page[h].waits : busy[g] = Off
  BY FirstCalls DEF VInv, CallsInv, Press, Enabled
<1>2. Page' = Page /\ First' = First /\ Flags' = Flags /\ Mounted' = Mounted
  BY <1>1 DEF Page, First, Flags, Mounted
<1>3. n \notin DOMAIN calls /\ n > First
  BY <1>0, <1>1 DEF VInv, CallsInv
<1>4. /\ DOMAIN calls' = DOMAIN calls \cup {n}
      /\ \A m \in DOMAIN calls : calls'[m] = calls[m]
      /\ calls'[n] = Started(h, i, {})
  BY <1>0, <1>3 DEF Press, First
<1>5. calls'[n].h = h /\ calls'[n].item = i /\ {"h", "item"} \subseteq DOMAIN calls'[n]
  BY <1>4 DEF Started
<1>6. Sets(n)' = f /\ \A m \in DOMAIN calls : Sets(m)' = Sets(m)
  <2>1. Sets(n)' = Page[calls'[n].h].sets
    BY <1>2 DEF Sets
  <2>2. QED
    BY <1>2, <1>4, <1>5, <2>1 DEF Sets
<1>7. /\ busy' = Flagged(h, i, busy) /\ DOMAIN busy = Flags /\ (f # "" => f \in Flags)
      /\ \A m \in DOMAIN calls : Sets(m) # "" => Sets(m) \in Flags
  BY DEF Press, VInv, CallsInv, Flags, Sets
<1>8. DOMAIN busy' = Flags /\ (f # "" => busy'[f] = <<h, i>>) /\ \A g \in Flags : g # f => busy'[g] = busy[g]
  BY <1>7 DEF Flagged
<1> HIDE DEF f
<1>9. CallsInv'
  <2>1. view' \in DOMAIN View /\ clicks' \in Nat /\ DOMAIN busy' = Flags'
    <3>1. view \in DOMAIN View
      BY DEF VInv, CallsInv
    <3>2. clicks' \in Nat
      BY <1>1
    <3>3. DOMAIN busy' = Flags'
      BY <1>2, <1>8
    <3>4. QED
      BY <1>1, <3>1, <3>2, <3>3
  <2>2. ASSUME NEW m \in DOMAIN calls'
        PROVE  /\ m \in 1..First' + clicks'
               /\ {"h", "item"} \subseteq DOMAIN calls'[m]
               /\ calls'[m].h \in DOMAIN Page' /\ calls'[m].item \in Subjects
               /\ m <= First' => calls'[m].h \in Mounted'
    <3>1. CASE m = n
      BY <1>0, <1>1, <1>2, <1>3, <1>5, <3>1
    <3>2. CASE m \in DOMAIN calls
      BY <1>1, <1>2, <1>4, <3>2 DEF VInv, CallsInv
    <3>3. QED
      BY <1>4, <2>2, <3>1, <3>2
  <2>3. QED
    BY <2>1, <2>2 DEF CallsInv
\* A flag that excludes is off, so nobody sets it.
<1>10. ASSUME Exclusive(Page, f)
       PROVE  \A m \in DOMAIN calls : Sets(m) # f
  <2>1. f \in Page[h].waits
    BY <1>1, <1>10 DEF Exclusive, Setters, f
  <2>2. QED
    BY <1>1, <1>10, <2>1 DEF VInv, ExclusiveInv
<1>11. ExclusiveInv'
  <2> SUFFICES ASSUME NEW m \in DOMAIN calls', Exclusive(Page, Sets(m)')
               PROVE  busy'[Sets(m)'] # Off /\ \A k \in DOMAIN calls' : Sets(k)' = Sets(m)' => k = m
    BY <1>2 DEF ExclusiveInv
  <2>1. CASE m = n
    <3>1. Sets(m)' = f /\ Exclusive(Page, f) /\ f # ""
      BY <1>6, <2>1 DEF Exclusive
    <3>2. busy'[f] # Off
      BY <1>8, <3>1, NotOff DEF VInv, CallsInv
    <3>3. ASSUME NEW k \in DOMAIN calls', Sets(k)' = f
          PROVE  k = m
      BY <1>4, <1>6, <1>10, <2>1, <3>1, <3>3
    <3>4. QED
      BY <3>1, <3>2, <3>3
  <2>2. CASE m \in DOMAIN calls
    <3>1. Sets(m)' = Sets(m) /\ busy[Sets(m)] # Off /\ \A k \in DOMAIN calls : Sets(k) = Sets(m) => k = m
      BY <1>6, <2>2 DEF VInv, ExclusiveInv
    <3>2. Sets(m) # f /\ Sets(m) \in Flags
      BY <1>7, <1>10, <2>2, <3>1 DEF Exclusive
    <3>3. busy'[Sets(m)] # Off
      BY <1>8, <3>1, <3>2
    <3>4. ASSUME NEW k \in DOMAIN calls', Sets(k)' = Sets(m)
          PROVE  k = m
      BY <1>4, <1>6, <3>1, <3>2, <3>4
    <3>5. QED
      BY <3>1, <3>3, <3>4
  <2>3. QED
    BY <1>4, <2>1, <2>2
<1>12. TwiceInv'
  <2> SUFFICES ASSUME NEW g \in twice'
               PROVE  /\ g \in DOMAIN Page /\ Page[g].button /\ Changes(g)
                      /\ ~Exclusive(Page, Page[g].sets)
    BY <1>2 DEF TwiceInv, Changes, Ran
  <2>1. CASE g \in twice
    BY <2>1 DEF VInv, TwiceInv
  <2>2. CASE g \notin twice
    <3>1. /\ g = h /\ Changes(h)
          /\ \E m \in DOMAIN calls : calls[m].h = h /\ calls[m].item = i
      BY <2>2 DEF Press
    <3>2. PICK m \in DOMAIN calls : calls[m].h = h /\ calls[m].item = i
      BY <3>1
    <3>3. Sets(m) = f
      BY <3>2 DEF Sets, f
    <3>4. ~Exclusive(Page, f)
      BY <1>10, <3>3
    <3>5. QED
      BY <1>1, <3>1, <3>4 DEF f
  <2>3. QED
    BY <2>1, <2>2
<1>13. QED
  BY <1>9, <1>11, <1>12 DEF VInv

\* The call goes on to the next one, or was the last.
LEMMA ProceedKeeps ==
  ASSUME VInv, NEW n \in DOMAIN calls, NEW owed, NEW behind, NEW focus, Proceed(n, owed, behind, focus),
         UNCHANGED <<view, twice, clicks>>
  PROVE  VInv'
<1>1. CASE calls[n].step = Len(Page[calls[n].h].steps)
  BY <1>1, EndKeeps DEF Proceed
<1>2. CASE calls[n].step # Len(Page[calls[n].h].steps)
  <2>1. {"h", "item"} \subseteq DOMAIN calls[n] /\ UNCHANGED busy
    BY <1>2 DEF VInv, CallsInv, Proceed
  <2>2. PICK s, o : calls' = [calls EXCEPT ![n].step = s, ![n].phase = "sent", ![n].ok = TRUE,
                                           ![n].seen = <<>>, ![n].owes = o]
    <3> DEFINE call == Page[calls[n].h].steps[calls[n].step + 1]
    <3>1. calls' = [calls EXCEPT ![n].step = @ + 1, ![n].phase = "sent", ![n].ok = TRUE, ![n].seen = <<>>,
                                 ![n].owes = owed \cup Picked(call, calls[n].item)]
      BY <1>2 DEF Proceed
    <3>2. QED
      BY <3>1
  <2>3. DOMAIN calls' = DOMAIN calls /\ \A m \in DOMAIN calls :
           DOMAIN calls'[m] = DOMAIN calls[m] /\ calls'[m].h = calls[m].h /\ calls'[m].item = calls[m].item
    BY <2>1, <2>2
  <2>4. QED
    BY <2>1, <2>3, GoesOn
<1>3. QED
  BY <1>1, <1>2

\* An answer ends its handler or lets it go on.
LEMMA AnswerKeeps ==
  ASSUME VInv, NEW n \in DOMAIN calls, NEW ends, Unanswered(n, ends), UNCHANGED <<view, twice, clicks>>
  PROVE  VInv'
<1>1. CASE ends
  BY <1>1, EndKeeps DEF Unanswered
<1>2. CASE ~ends
  BY <1>2, ProceedKeeps DEF Unanswered
<1>3. QED
  BY <1>1, <1>2

\* Every step of a page keeps the invariant.
LEMMA Stays ==
  ASSUME VInv, [Next]_vars
  PROVE  VInv'
<1>1. ASSUME NEW h \in DOMAIN Page, NEW i \in Subjects, Press(h, i)
      PROVE  VInv'
  BY <1>1, PressKeeps
<1>2. ASSUME NEW n \in DOMAIN calls, Serve(n) \/ Refuse(n)
      PROVE  VInv'
  <2>1. {"h", "item"} \subseteq DOMAIN calls[n] /\ UNCHANGED <<view, busy, twice, clicks>>
    BY <1>2 DEF VInv, CallsInv, Serve, Refuse
  <2>2. DOMAIN calls' = DOMAIN calls /\ \A m \in DOMAIN calls :
           DOMAIN calls'[m] = DOMAIN calls[m] /\ calls'[m].h = calls[m].h /\ calls'[m].item = calls[m].item
    <3>1. CASE Serve(n)
      BY <2>1, <3>1 DEF Serve
    <3>2. CASE Refuse(n)
      BY <2>1, <3>2 DEF Refuse
    <3>3. QED
      BY <1>2, <3>1, <3>2
  <2>3. QED
    BY <2>1, <2>2, GoesOn
<1>3. ASSUME NEW n \in DOMAIN calls, Deliver(n)
      PROVE  VInv'
  BY <1>3, ProceedKeeps DEF Deliver
<1>4. ASSUME NEW n \in DOMAIN calls, Refused(n) \/ Lose(n)
      PROVE  VInv'
  BY <1>4, AnswerKeeps DEF Refused, Lose
<1>5. CASE UNCHANGED vars
  BY <1>5, GoesOn DEF vars
<1>6. QED
  BY <1>1, <1>2, <1>3, <1>4, <1>5 DEF Next

\* However often people click, whatever fails and in whatever order answers
\* arrive: calls keep their flags, and what is submitted again has a button that
\* does not wait.
THEOREM FlagsAreKept == Spec => []VInv
<1>1. Init => VInv
  BY Begins
<1>2. VInv /\ [Next]_vars => VInv'
  BY Stays
<1>3. QED
  BY <1>1, <1>2, PTL DEF Spec

\* A handler whose flag excludes submits nothing again while it is submitting it,
\* for any number of clicks, rows and faults.
THEOREM ExclusiveOnce == Spec => [](\A h \in twice : ~Exclusive(Page, Page[h].sets))
<1>1. VInv => \A h \in twice : ~Exclusive(Page, Page[h].sets)
  BY DEF VInv, TwiceInv
<1>2. QED
  BY <1>1, FlagsAreKept, PTL

\* Only the handlers of MayRepeat submit again what they are submitting, for any
\* number of clicks, rows and faults.
THEOREM SubmitsOnce == Spec => []SubmittedOnce
<1>1. VInv => SubmittedOnce
  <2> SUFFICES ASSUME VInv, NEW h \in twice
               PROVE  Listed(MayRepeat, h)
    BY DEF SubmittedOnce
  <2>1. /\ view \in DOMAIN View /\ h \in DOMAIN Page /\ Page[h].button /\ Changes(h)
        /\ ~Exclusive(Page, Page[h].sets)
    BY DEF VInv, CallsInv, TwiceInv
  <2>2. \E i \in DOMAIN Page[h].steps : Page[h].steps[i].does # {}
    BY <2>1 DEF Changes, Ran
  <2>3. QED
    BY <2>1, <2>2, ButtonsAssumption DEF Listed, Page
<1>2. QED
  BY <1>1, FlagsAreKept, PTL
===============================================================================
