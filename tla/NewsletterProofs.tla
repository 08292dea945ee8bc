-------------------------- MODULE NewsletterProofs --------------------------
(***************************************************************************)
(* NInv is inductive for any people, campaigns, workers and batch size and *)
(* every bound: only confirmed subscriptions get mail, whatever overlaps   *)
(* or dies; and helpers that run one at a time try every address once.     *)
(***************************************************************************)
EXTENDS NewsletterInv, FunctionTheorems, FiniteSetTheorems, SequenceTheorems, TLAPS

-----------------------------------------------------------------------------
(* Lists, records and lines *)

\* The order of a file's subscribers goes through each of them once.
LEMMA InOrderFacts ==
  ASSUME NEW S, IsFiniteSet(S)
  PROVE  /\ Cardinality(S) \in Nat
         /\ InOrder(S) \in [1..Cardinality(S) -> S]
         /\ \A s \in S : \E i \in 1..Cardinality(S) : InOrder(S)[i] = s
         /\ \A i, j \in 1..Cardinality(S) : InOrder(S)[i] = InOrder(S)[j] => i = j
<1> DEFINE n == Cardinality(S)
           Onto(q) == \A s \in S : \E i \in 1..n : q[i] = s
<1>1. n \in Nat /\ ExistsBijection(1..n, S)
  BY FS_CardinalityType
<1>2. PICK b \in Bijection(1..n, S) : TRUE
  BY <1>1 DEF ExistsBijection
<1>3. b \in [1..n -> S] /\ Onto(b)
  BY <1>2 DEF Bijection, Surjection
<1>4. InOrder(S) \in [1..n -> S] /\ Onto(InOrder(S))
  BY <1>3 DEF InOrder
<1>5. InOrder(S) \in Surjection(1..n, S)
  BY <1>4, Fun_IsSurj
<1>6. IsFiniteSet(1..n) /\ Cardinality(1..n) = n
  BY <1>1, FS_Interval
<1>7. InOrder(S) \in Injection(1..n, S)
  BY <1>5, <1>6, FS_SurjSameCardinalityImpliesInj
<1> QED
  BY <1>1, <1>4, <1>7, Fun_InjectionProperties

\* What queueing a campaign writes: one line per active subscriber.
LEMMA LinesForFacts ==
  ASSUME NEW c \in Campaigns, NEW list \in [People -> Subscriber]
  PROVE  /\ LinesFor(c, list) \in Seq(QueueLine)
         /\ Distinct(LinesFor(c, list))
         /\ \A i \in 1..Len(LinesFor(c, list)) :
              /\ LinesFor(c, list)[i].c = c
              /\ LinesFor(c, list)[i].s \in Active(list)
              /\ LinesFor(c, list)[i].token = list[LinesFor(c, list)[i].s].token
<1> DEFINE S == Active(list)
           n == Cardinality(S)
           order == InOrder(S)
           q == [i \in 1..n |-> [c |-> c, s |-> order[i], token |-> list[order[i]].token]]
<1>1. IsFiniteSet(S) /\ S \subseteq People
  BY PeopleAssumption, FS_Subset DEF Active
<1>2. /\ n \in Nat /\ order \in [1..n -> S]
      /\ \A i, j \in 1..n : order[i] = order[j] => i = j
  BY <1>1, InOrderFacts
<1> HIDE DEF S, n, order
<1>3. \A i \in 1..n : q[i] = [c |-> c, s |-> order[i], token |-> list[order[i]].token]
                      /\ order[i] \in S
  BY <1>2
<1>4. \A i \in 1..n : q[i] \in QueueLine
  BY <1>1, <1>3 DEF QueueLine, Subscriber
<1>5. q \in Seq(QueueLine) /\ Len(q) = n
  BY <1>2, <1>4
<1>6. LinesFor(c, list) = q
  BY DEF LinesFor, q, n, order, S
<1> QED
  BY <1>2, <1>3, <1>5, <1>6 DEF Distinct, S

\* A process at rest.
LEMMA IdleFacts ==
  /\ Idle \in Process /\ ProcOK(Idle)
  /\ Idle.pc = "idle" /\ Idle.cmd = "none" /\ Idle.who = None
  /\ Idle.subs = NoSubs /\ Idle.camps = NoCampaigns
  /\ Idle.out = <<>> /\ Idle.batch = <<>> /\ Idle.log = <<>>
<1>1. NoSubs \in [People -> Subscriber] /\ NoCampaigns \in [Campaigns -> Campaign]
  BY BoundsAssumption DEF NoSubs, NoSub, Subscriber, Tokens, NoCampaigns, NoCampaign, Campaign
<1>2. <<>> \in Seq(QueueLine) /\ <<>> \in Seq(BOOLEAN)
  OBVIOUS
<1>3. Idle \in Process
  BY <1>1, <1>2 DEF Idle, Process, PC
<1>4. ProcOK(Idle)
  BY DEF ProcOK, Idle
<1> QED
  BY <1>3, <1>4 DEF Idle

\* The types of what a helper writes.
LEMMA PendingType ==
  ASSUME TypeInv, NEW s \in People, issued[s] < MaxTokens
  PROVE  /\ Pending(s) \in Subscriber /\ issued[s] + 1 \in Tokens
         /\ Pending(s).status = "pending"
         /\ Pending(s).token = issued[s] + 1 /\ Pending(s).confirm = issued[s] + 1
BY BoundsAssumption DEF TypeInv, TypeOK, Pending, Subscriber, Tokens

-----------------------------------------------------------------------------
(* TypeInv *)

\* No process is at work at the start.
LEMMA InitTypeInv == Init => TypeInv
<1> SUFFICES ASSUME Init PROVE TypeInv
  OBVIOUS
<1>1. subs \in [People -> Subscriber] /\ campaigns \in [Campaigns -> Campaign]
  BY BoundsAssumption
  DEF Init, NoSub, Member, Subscriber, Tokens, NoCampaign, Draft, Campaign
<1>2. queue \in Seq(QueueLine) /\ proc \in [Workers -> Process]
  BY IdleFacts DEF Init
<1>3. issued \in [People -> Tokens] /\ inbox \subseteq Link /\ confirmed \subseteq People \X Tokens
  <2>1. 1 \in Tokens /\ 0 \in Tokens
    BY BoundsAssumption DEF Tokens
  <2> QED
    BY <2>1, StartAssumption DEF Init, Link
<1>4. /\ told \subseteq People \X Tokens /\ lines \in [Campaigns -> SUBSET People]
      /\ attempted \in [Campaigns -> SUBSET People] /\ mailed \in [Campaigns -> SUBSET People]
      /\ reached \in [Campaigns -> SUBSET People]
      /\ twice \subseteq Campaigns /\ clean \in BOOLEAN
      /\ requests \in 0..MaxRequests /\ kills \in 0..MaxKills
  BY BoundsAssumption DEF Init
<1>5. ProcInv
  BY IdleFacts DEF Init, ProcInv
<1> QED
  BY <1>1, <1>2, <1>3, <1>4, <1>5 DEF TypeInv, TypeOK

\* A process goes on to a record that is one, and the others stay.
LEMMA BecomesFacts ==
  ASSUME TypeInv, NEW w \in Workers, NEW r \in Process, ProcOK(r), Becomes(w, r)
  PROVE  /\ proc' \in [Workers -> Process] /\ ProcInv' /\ proc'[w] = r
         /\ \A v \in Workers \ {w} : proc'[v] = proc[v]
BY DEF TypeInv, TypeOK, ProcInv, Becomes

\* A helper that was idle and will write a list of subscribers.
LEMMA WillWriteFacts ==
  ASSUME NEW list \in [People -> Subscriber]
  PROVE  /\ WillWrite(list) \in Process /\ ProcOK(WillWrite(list))
         /\ WillWrite(list).subs = list /\ WillWrite(list).cmd = "subs"
         /\ WillWrite(list).pc = "openS" /\ WillWrite(list).who = None
         /\ WillWrite(list).out = <<>> /\ WillWrite(list).batch = <<>>
         /\ WillWrite(list).camps = NoCampaigns /\ WillWrite(list).log = <<>>
<1>1. WillWrite(list) \in Process
  BY IdleFacts DEF WillWrite, Process, PC
<1>2. /\ WillWrite(list).subs = list /\ WillWrite(list).cmd = "subs"
      /\ WillWrite(list).pc = "openS" /\ WillWrite(list).who = None
      /\ WillWrite(list).out = <<>> /\ WillWrite(list).batch = <<>>
      /\ WillWrite(list).camps = NoCampaigns /\ WillWrite(list).log = <<>>
  BY IdleFacts DEF WillWrite, Process
<1>3. ProcOK(WillWrite(list))
  BY <1>2 DEF ProcOK
<1> QED
  BY <1>1, <1>2, <1>3

-----------------------------------------------------------------------------
(* Helpers that start *)

\* What every start has in common: a helper that was idle holds a record r made
\* from what the files hold, and no file changes.
Started(w, r) ==
  /\ Start(w) /\ Becomes(w, r)
  /\ UNCHANGED <<files, inbox, told, lines, attempted, mailed, twice, kills>>
  /\ issued' \in [People -> Tokens] /\ reached' \in [Campaigns -> SUBSET People]
  /\ confirmed \subseteq confirmed' /\ confirmed' \subseteq People \X Tokens
  /\ ListOK(subs, confirmed) => ListOK(r.subs, confirmed')

StartsSubs(r) ==
  /\ r.cmd \in {"subs", "unsubscribe"} /\ r.pc \in {"openS", "invite"}
  /\ r.out = <<>> /\ r.batch = <<>> /\ reached' = reached

StartsCamps(r) ==
  /\ r.cmd = "camps" /\ r.pc = "openC" /\ r.out = <<>> /\ r.batch = <<>>
  /\ \A c \in Campaigns :
       \/ r.camps[c] = campaigns[c] /\ reached'[c] = reached[c]
       \/ /\ campaigns[c].status # "sending"
          /\ \/ r.camps[c].status = "absent"
             \/ r.camps[c].status = "draft" /\ reached'[c] = {}

StartsQueue(r) ==
  /\ r.cmd = "queue" /\ r.pc = "readS" /\ r.out = <<>> /\ r.batch = <<>>
  /\ r.camps = campaigns /\ campaigns[r.who].status \in {"draft", "failed"}
  /\ reached' = reached

StartsBatch(r) ==
  /\ r.cmd = "batch" /\ r.pc = "readC" /\ r.log = <<>>
  /\ Taken(r) = queue /\ reached' = reached

StartsAs(r) == StartsSubs(r) \/ StartsCamps(r) \/ StartsQueue(r) \/ StartsBatch(r)

HasStarted(w) == \E r \in Process : ProcOK(r) /\ Started(w, r) /\ StartsAs(r)

\* The empty list of an idle process says nothing.
LEMMA NoSubsOK == \A C : ListOK(NoSubs, C)
BY DEF ListOK, Granted, NoSubs, NoSub

\* A list that one command changes keeps every other record's consent.
LEMMA ReadSubsStarts ==
  ASSUME TypeInv, NEW w \in Workers, NEW list \in [People -> Subscriber],
         ReadSubs(w, list), issued' \in [People -> Tokens],
         ListOK(subs, confirmed) => ListOK(list, confirmed)
  PROVE  HasStarted(w)
<1> DEFINE r == WillWrite(list)
<1>1. /\ r \in Process /\ ProcOK(r) /\ r.subs = list /\ r.cmd = "subs"
      /\ r.pc = "openS" /\ r.out = <<>> /\ r.batch = <<>>
  BY WillWriteFacts
<1>2. Started(w, r)
  BY <1>1 DEF ReadSubs, Started, files, history, TypeInv, TypeOK
<1>3. StartsAs(r)
  BY <1>1 DEF StartsAs, StartsSubs, ReadSubs, history
<1> QED
  BY <1>1, <1>2, <1>3 DEF HasStarted

\* A list with a new pending record.
LEMMA PendingList ==
  ASSUME TypeInv, NEW s \in People, issued[s] < MaxTokens
  PROVE  /\ [subs EXCEPT ![s] = Pending(s)] \in [People -> Subscriber]
         /\ ListOK(subs, confirmed) => ListOK([subs EXCEPT ![s] = Pending(s)], confirmed)
BY PendingType DEF TypeInv, TypeOK, ListOK, Granted

\* Subscribing and subscribing again.
LEMMA SubscribeStarts ==
  ASSUME TypeInv, NEW w \in Workers, NEW s \in People,
         Subscribe(w, s) \/ Resubscribe(w, s)
  PROVE  HasStarted(w)
<1> DEFINE list == [subs EXCEPT ![s] = Pending(s)]
           r1 == [WillWrite(list) EXCEPT !.who = s]
           r2 == [WillWrite(list) EXCEPT !.pc = "invite", !.who = s]
<1>1. /\ list \in [People -> Subscriber] /\ (ListOK(subs, confirmed) => ListOK(list, confirmed))
  BY PendingList DEF Subscribe, Resubscribe
<1> HIDE DEF list
<1>2. /\ WillWrite(list) \in Process /\ WillWrite(list).subs = list
      /\ WillWrite(list).cmd = "subs" /\ WillWrite(list).pc = "openS"
      /\ WillWrite(list).out = <<>> /\ WillWrite(list).batch = <<>>
  BY <1>1, WillWriteFacts
<1>3. issued' \in [People -> Tokens]
  <2>1. issued' = [issued EXCEPT ![s] = @ + 1] /\ issued[s] < MaxTokens
    BY DEF Subscribe, Resubscribe
  <2>2. issued[s] + 1 \in Tokens
    BY <2>1, PendingType
  <2> QED
    BY <2>1, <2>2 DEF TypeInv, TypeOK
<1>4. CASE Subscribe(w, s)
  <2>1. /\ r1 \in Process /\ r1.subs = list /\ r1.cmd = "subs" /\ r1.pc = "openS"
        /\ r1.out = <<>> /\ r1.batch = <<>> /\ r1.who = s
    BY <1>2 DEF Process
  <2>2. Start(w) /\ Becomes(w, r1) /\ UNCHANGED <<files, inbox, history, kills>>
    BY <1>4 DEF Subscribe, list
  <2> HIDE DEF r1
  <2>3. ProcOK(r1)
    BY <2>1 DEF ProcOK
  <2>4. Started(w, r1) /\ StartsAs(r1)
    BY <1>1, <1>3, <2>1, <2>2
    DEF Started, StartsAs, StartsSubs, files, history, TypeInv, TypeOK
  <2> QED
    BY <2>1, <2>3, <2>4 DEF HasStarted
<1>5. CASE Resubscribe(w, s)
  <2>1. /\ r2 \in Process /\ r2.subs = list /\ r2.cmd = "subs" /\ r2.pc = "invite"
        /\ r2.out = <<>> /\ r2.batch = <<>> /\ r2.who = s
    BY <1>2 DEF Process, PC
  <2>2. Start(w) /\ Becomes(w, r2) /\ UNCHANGED <<files, inbox, history, kills>>
    BY <1>5 DEF Resubscribe, list
  <2> HIDE DEF r2
  <2>3. ProcOK(r2)
    BY <2>1 DEF ProcOK
  <2>4. Started(w, r2) /\ StartsAs(r2)
    BY <1>1, <1>3, <2>1, <2>2
    DEF Started, StartsAs, StartsSubs, files, history, TypeInv, TypeOK
  <2> QED
    BY <2>1, <2>3, <2>4 DEF HasStarted
<1> QED
  BY <1>4, <1>5

\* The other commands on subscribers that the owner gives.
LEMMA OwnerStarts ==
  ASSUME TypeInv, NEW w \in Workers,
         \/ \E s \in People : Rename(w, s) \/ newsletterSubscriberDelete(w, s)
                              \/ bounceSuppressAdd(w, s)
         \/ \E S \in SUBSET People : Import(w, S)
  PROVE  HasStarted(w)
<1>1. subs \in [People -> Subscriber] /\ issued \in [People -> Tokens]
  BY DEF TypeInv, TypeOK
<1>2. ASSUME NEW s \in People, Rename(w, s) PROVE HasStarted(w)
  BY <1>1, <1>2, ReadSubsStarts DEF Rename
<1>3. ASSUME NEW s \in People, newsletterSubscriberDelete(w, s) PROVE HasStarted(w)
  <2> DEFINE list == [subs EXCEPT ![s] = NoSub]
  <2>1. list \in [People -> Subscriber]
    BY <1>1, BoundsAssumption DEF NoSub, Subscriber, Tokens
  <2>2. ListOK(subs, confirmed) => ListOK(list, confirmed)
    BY <1>1 DEF ListOK, Granted, NoSub
  <2>3. ReadSubs(w, list) /\ issued' \in [People -> Tokens]
    BY <1>1, <1>3 DEF newsletterSubscriberDelete
  <2> HIDE DEF list
  <2> QED
    BY <2>1, <2>2, <2>3, ReadSubsStarts
<1>4. ASSUME NEW s \in People, bounceSuppressAdd(w, s) PROVE HasStarted(w)
  <2> DEFINE list == IF subs[s].status = "active"
                       THEN [subs EXCEPT ![s].status = "unsubscribed"] ELSE subs
  <2>1. list \in [People -> Subscriber]
    BY <1>1 DEF Subscriber
  <2>2. ListOK(subs, confirmed) => ListOK(list, confirmed)
    BY <1>1 DEF ListOK, Granted, Subscriber
  <2>3. ReadSubs(w, list) /\ issued' \in [People -> Tokens]
    BY <1>1, <1>4 DEF bounceSuppressAdd
  <2> HIDE DEF list
  <2> QED
    BY <2>1, <2>2, <2>3, ReadSubsStarts
<1>5. ASSUME NEW S \in SUBSET People, Import(w, S) PROVE HasStarted(w)
  <2> DEFINE list == [s \in People |-> IF s \in S THEN Pending(s) ELSE subs[s]]
  <2>1. \A s \in S : /\ Pending(s) \in Subscriber /\ Pending(s).status = "pending"
                     /\ Pending(s).token = Pending(s).confirm /\ issued[s] + 1 \in Tokens
    BY <1>5, PendingType DEF Import
  <2>2. list \in [People -> Subscriber]
    BY <1>1, <2>1
  <2>3. ListOK(subs, confirmed) => ListOK(list, confirmed)
    BY <1>1, <2>1 DEF ListOK, Granted
  <2>4. ReadSubs(w, list) /\ issued' \in [People -> Tokens]
    BY <1>1, <1>5, <2>1 DEF Import
  <2> HIDE DEF list
  <2> QED
    BY <2>2, <2>3, <2>4, ReadSubsStarts
<1> QED
  BY <1>2, <1>3, <1>4, <1>5

\* The two public links.
LEMMA LinkStarts ==
  ASSUME TypeInv, NEW w \in Workers, NEW s \in People,
         newsletterPublicConfirm(w, s) \/ newsletterPublicUnsubscribe(w, s)
  PROVE  HasStarted(w)
<1>1. subs \in [People -> Subscriber] /\ issued \in [People -> Tokens]
  BY DEF TypeInv, TypeOK
<1>2. CASE newsletterPublicConfirm(w, s)
  <2> DEFINE rec == [subs[s] EXCEPT !.status = "active", !.confirm = 0]
             list == [subs EXCEPT ![s] = [@ EXCEPT !.status = "active", !.confirm = 0]]
  <2>0. rec \in Subscriber /\ rec.token = subs[s].token /\ rec.confirm = 0
    <3>1. subs[s] \in Subscriber /\ 0 \in Tokens
      BY <1>1, BoundsAssumption DEF Tokens
    <3> QED
      BY <3>1 DEF Subscriber
  <2>a. list = [subs EXCEPT ![s] = rec]
    BY <1>1
  <2> HIDE DEF rec
  <2>1. list \in [People -> Subscriber]
    BY <1>1, <2>0, <2>a
  <2>2. ListOK(subs, confirmed) => ListOK(list, confirmed')
    <3> SUFFICES ASSUME ListOK(subs, confirmed), NEW t \in People
                 PROVE  Granted(t, list[t], confirmed')
      BY DEF ListOK
    <3>1. confirmed' = confirmed \cup {<<s, subs[s].confirm>>} /\ subs[s].confirm # 0
      BY <1>2 DEF newsletterPublicConfirm, HasLink
    <3>2. CASE t = s
      <4>1. subs[s].confirm = subs[s].token
        BY <3>1 DEF ListOK, Granted
      <4>2. list[s].token = subs[s].token /\ list[s].confirm = 0
        BY <1>1, <2>0, <2>a
      <4> QED
        BY <3>1, <3>2, <4>1, <4>2 DEF Granted
    <3>3. CASE t # s
      <4>1. list[t] = subs[t]
        BY <1>1, <3>3
      <4> QED
        BY <3>1, <4>1 DEF ListOK, Granted
    <3> QED
      BY <3>2, <3>3
  <2>3. /\ Start(w) /\ Becomes(w, WillWrite(list))
        /\ UNCHANGED <<files, issued, inbox, told, lines, attempted, mailed, reached,
                       twice, kills>>
        /\ confirmed' = confirmed \cup {<<s, subs[s].confirm>>}
    BY <1>2 DEF newsletterPublicConfirm
  <2> HIDE DEF list
  <2> DEFINE r == WillWrite(list)
  <2>4. /\ r \in Process /\ ProcOK(r) /\ r.subs = list /\ r.cmd = "subs"
        /\ r.pc = "openS" /\ r.out = <<>> /\ r.batch = <<>>
    BY <2>1, WillWriteFacts
  <2>5. confirmed' \subseteq People \X Tokens
    BY <1>1, <2>3 DEF TypeInv, TypeOK, Subscriber
  <2>6. Started(w, r) /\ StartsAs(r)
    BY <1>1, <2>2, <2>3, <2>4, <2>5 DEF Started, StartsAs, StartsSubs, TypeInv, TypeOK
  <2> QED
    BY <2>4, <2>6 DEF HasStarted
<1>3. CASE newsletterPublicUnsubscribe(w, s)
  <2> DEFINE list == [subs EXCEPT ![s].status = "unsubscribed"]
             r == [WillWrite(list) EXCEPT !.cmd = "unsubscribe", !.who = s]
  <2>1. list \in [People -> Subscriber]
    BY <1>1 DEF Subscriber
  <2>2. ListOK(subs, confirmed) => ListOK(list, confirmed)
    BY <1>1 DEF ListOK, Granted, Subscriber
  <2>3. Start(w) /\ Becomes(w, r) /\ UNCHANGED <<files, issued, inbox, history, kills>>
    BY <1>3 DEF newsletterPublicUnsubscribe
  <2> HIDE DEF list
  <2>a. /\ WillWrite(list) \in Process /\ WillWrite(list).subs = list
        /\ WillWrite(list).pc = "openS"
        /\ WillWrite(list).out = <<>> /\ WillWrite(list).batch = <<>>
    BY <2>1, WillWriteFacts
  <2>4. /\ r \in Process /\ r.subs = list /\ r.cmd = "unsubscribe" /\ r.who = s
        /\ r.pc = "openS" /\ r.out = <<>> /\ r.batch = <<>>
    BY <2>a DEF Process
  <2> HIDE DEF r
  <2>5. ProcOK(r)
    BY <2>4 DEF ProcOK
  <2>6. Started(w, r) /\ StartsAs(r)
    BY <1>1, <2>2, <2>3, <2>4
    DEF Started, StartsAs, StartsSubs, files, history, TypeInv, TypeOK
  <2> QED
    BY <2>4, <2>5, <2>6 DEF HasStarted
<1> QED
  BY <1>2, <1>3

\* A campaign that is written, edited or deleted.
LEMMA CampaignStarts ==
  ASSUME TypeInv, NEW w \in Workers, NEW c \in Campaigns,
         newsletterCampaignUpsert(w, c) \/ newsletterCampaignDelete(w, c)
  PROVE  HasStarted(w)
<1>1. /\ campaigns \in [Campaigns -> Campaign] /\ Draft \in Campaign /\ NoCampaign \in Campaign
      /\ reached \in [Campaigns -> SUBSET People]
  BY DEF TypeInv, TypeOK, Draft, NoCampaign, Campaign
<1> DEFINE Kept(l, d) == l[d] = campaigns[d] /\ reached'[d] = reached[d]
           New(l, d) == /\ campaigns[d].status # "sending"
                        /\ \/ l[d].status = "absent"
                           \/ l[d].status = "draft" /\ reached'[d] = {}
           OK(l) == /\ l \in [Campaigns -> Campaign] /\ ReadCampaigns(w, l)
                    /\ \A d \in Campaigns : Kept(l, d) \/ New(l, d)
<1>a. Draft.status = "draft" /\ NoCampaign.status = "absent"
  BY DEF Draft, NoCampaign
<1> DEFINE new == [campaigns EXCEPT ![c] = Draft]
           gone == [campaigns EXCEPT ![c] = NoCampaign]
<1>b. \/ /\ campaigns[c].status = "absent" /\ ReadCampaigns(w, new)
         /\ reached' = [reached EXCEPT ![c] = {}]
      \/ ReadCampaigns(w, campaigns) /\ reached' = reached
      \/ /\ campaigns[c].status # "sending" /\ ReadCampaigns(w, gone)
         /\ reached' = reached
  <2>1. CASE newsletterCampaignUpsert(w, c) /\ campaigns[c].status = "absent"
    BY <2>1 DEF newsletterCampaignUpsert
  <2>2. CASE newsletterCampaignUpsert(w, c) /\ campaigns[c].status # "absent"
    BY <2>2 DEF newsletterCampaignUpsert
  <2>3. CASE newsletterCampaignDelete(w, c)
    BY <2>3 DEF newsletterCampaignDelete
  <2> QED
    BY <2>1, <2>2, <2>3
<1>c. /\ new \in [Campaigns -> Campaign] /\ gone \in [Campaigns -> Campaign]
      /\ \A d \in Campaigns :
           /\ new[d] = IF d = c THEN Draft ELSE campaigns[d]
           /\ gone[d] = IF d = c THEN NoCampaign ELSE campaigns[d]
  BY <1>1
<1>d. reached' \in [Campaigns -> SUBSET People]
  BY <1>1, <1>b
<1>2. PICK list : OK(list)
  <2> HIDE DEF new, gone
  <2>1. ASSUME campaigns[c].status = "absent", ReadCampaigns(w, new),
               reached' = [reached EXCEPT ![c] = {}]
        PROVE  OK(new)
    BY <1>1, <1>a, <1>c, <2>1
  <2>2. ASSUME campaigns[c].status # "sending", ReadCampaigns(w, gone), reached' = reached
        PROVE  OK(gone)
    BY <1>a, <1>c, <2>2
  <2>3. ASSUME ReadCampaigns(w, campaigns), reached' = reached PROVE OK(campaigns)
    BY <1>1, <2>3
  <2> QED
    BY <1>b, <2>1, <2>2, <2>3
<1> DEFINE r == [Idle EXCEPT !.pc = "openC", !.cmd = "camps", !.camps = list]
<1>3. /\ r \in Process /\ r.cmd = "camps" /\ r.pc = "openC" /\ r.out = <<>>
      /\ r.batch = <<>> /\ r.camps = list /\ r.subs = NoSubs
  BY <1>2, IdleFacts DEF Process, PC
<1>4. /\ Start(w) /\ Becomes(w, r)
      /\ UNCHANGED <<files, issued, inbox, confirmed, told, lines, attempted, mailed,
                     twice, kills>>
  BY <1>2 DEF ReadCampaigns
<1> HIDE DEF r
<1>5. ProcOK(r)
  BY <1>3 DEF ProcOK
<1>6. Started(w, r)
  BY <1>3, <1>4, <1>d, NoSubsOK DEF Started, TypeInv, TypeOK
<1>7. StartsAs(r)
  BY <1>2, <1>3 DEF StartsAs, StartsCamps
<1> QED
  BY <1>3, <1>5, <1>6, <1>7 DEF HasStarted

\* A campaign that is queued.
LEMMA QueueStarts ==
  ASSUME TypeInv, NEW w \in Workers, NEW c \in Campaigns, QueueStart(w, c)
  PROVE  HasStarted(w)
<1> DEFINE r == [Idle EXCEPT !.pc = "readS", !.cmd = "queue", !.who = c, !.camps = campaigns]
<1>1. campaigns \in [Campaigns -> Campaign]
  BY DEF TypeInv, TypeOK
<1>2. /\ r \in Process /\ r.cmd = "queue" /\ r.pc = "readS" /\ r.out = <<>> /\ r.who = c
      /\ r.batch = <<>> /\ r.camps = campaigns /\ r.subs = NoSubs
  BY <1>1, IdleFacts DEF Process, PC
<1>3. /\ Start(w) /\ Becomes(w, r) /\ UNCHANGED <<files, issued, inbox, history, kills>>
      /\ campaigns[c].status \in {"draft", "failed"}
  BY DEF QueueStart
<1> HIDE DEF r
<1>4. ProcOK(r)
  BY <1>2 DEF ProcOK
<1>5. Started(w, r) /\ StartsAs(r)
  BY <1>2, <1>3, NoSubsOK DEF Started, StartsAs, StartsQueue, files, history, TypeInv, TypeOK
<1> QED
  BY <1>2, <1>4, <1>5 DEF HasStarted

\* Concatenation, line by line.
LEMMA JoinFacts ==
  ASSUME NEW a \in Seq(QueueLine), NEW b \in Seq(QueueLine)
  PROVE  /\ a \o b \in Seq(QueueLine) /\ Len(a \o b) = Len(a) + Len(b)
         /\ \A i \in 1..Len(a) : i \in 1..Len(a \o b) /\ (a \o b)[i] = a[i]
         /\ \A i \in 1..Len(b) :
              Len(a) + i \in 1..Len(a \o b) /\ (a \o b)[Len(a) + i] = b[i]
OBVIOUS

\* The first lines of a queue.
LEMMA PrefixFacts ==
  ASSUME NEW q \in Seq(QueueLine), NEW n \in 0..Len(q)
  PROVE  /\ SubSeq(q, 1, n) \in Seq(QueueLine) /\ Len(SubSeq(q, 1, n)) = n
         /\ \A i \in 1..n : i \in 1..Len(q) /\ SubSeq(q, 1, n)[i] = q[i]
OBVIOUS

\* The addresses of a list of lines.
LEMMA AddressesFacts ==
  ASSUME NEW q \in Seq(QueueLine)
  PROVE  {q[i].s : i \in 1..Len(q)} \in SUBSET People
<1>1. \A i \in 1..Len(q) : q[i] \in QueueLine
  OBVIOUS
<1> QED
  BY <1>1 DEF QueueLine

\* The lines a batch takes and those it leaves are the queue, and it takes one.
LEMMA TakenFacts ==
  ASSUME NEW q \in Seq(QueueLine), q # <<>>,
         NEW n, n = least(BatchSize, Len(q)),
         NEW a, a = SubSeq(q, 1, n), NEW b, b = SubSeq(q, n + 1, Len(q))
  PROVE  /\ a \in Seq(QueueLine) /\ Len(a) > 0 /\ b \in Seq(QueueLine)
         /\ a \o b = q
<1>1. n \in 1..Len(q)
  BY BatchAssumption DEF least
<1>2. a \in Seq(QueueLine) /\ Len(a) = n /\ \A i \in 1..n : a[i] = q[i]
  BY <1>1
<1>3. /\ b \in Seq(QueueLine) /\ Len(b) = Len(q) - n
      /\ \A i \in 1..(Len(q) - n) : b[i] = q[n + i]
  BY <1>1
<1>4. 1 \in 1..Len(q) + 1 /\ n \in 0..Len(q) /\ Len(q) \in n..Len(q)
  BY <1>1
<1>5. a \o b = SubSeq(q, 1, Len(q))
  BY <1>4, ConcatAdjacentSubSeq, 1 - 1 = 0
<1>6. SubSeq(q, 1, Len(q)) = q
  OBVIOUS
<1>7. Len(a) > 0
  BY <1>1, <1>2
<1> QED
  BY <1>2, <1>3, <1>5, <1>6, <1>7, Zenon

\* A send batch.
LEMMA BatchStarts ==
  ASSUME TypeInv, NEW w \in Workers, BatchStart(w)
  PROVE  HasStarted(w)
<1> DEFINE n == least(BatchSize, Len(queue))
           a == SubSeq(queue, 1, n)
           b == SubSeq(queue, n + 1, Len(queue))
           r == [Idle EXCEPT !.pc = "readC", !.cmd = "batch", !.batch = a, !.out = b]
<1>1. /\ a \in Seq(QueueLine) /\ Len(a) > 0 /\ b \in Seq(QueueLine)
      /\ a \o b = queue
  BY TakenFacts DEF BatchStart, TypeInv, TypeOK
<1>2. Start(w) /\ Becomes(w, r) /\ UNCHANGED <<files, issued, inbox, history, kills>>
  BY DEF BatchStart
<1> HIDE DEF a, b, n
<1>3. /\ r \in Process /\ r.cmd = "batch" /\ r.pc = "readC" /\ r.out = b
      /\ r.batch = a /\ r.log = <<>> /\ r.subs = NoSubs
  BY <1>1, IdleFacts DEF Process, PC
<1> HIDE DEF r
<1>4. ProcOK(r)
  BY <1>1, <1>3 DEF ProcOK
<1>5. Started(w, r) /\ StartsAs(r)
  BY <1>1, <1>2, <1>3, NoSubsOK
  DEF Started, StartsAs, StartsBatch, Taken, files, history, TypeInv, TypeOK
<1> QED
  BY <1>3, <1>4, <1>5 DEF HasStarted

\* Every request of the panel starts a helper this way.
LEMMA RequestStarts ==
  ASSUME TypeInv, NEW w \in Workers, Request(w)
  PROVE  HasStarted(w) /\ requests' \in 0..MaxRequests
<1>1. requests' \in 0..MaxRequests
  BY BoundsAssumption DEF Request, TypeInv, TypeOK
<1>2. HasStarted(w)
  BY SubscribeStarts, OwnerStarts, LinkStarts, CampaignStarts, QueueStarts, BatchStarts
  DEF Request
<1> QED
  BY <1>1, <1>2

-----------------------------------------------------------------------------
(* What each step does to the process that takes it, and TypeInv *)

\* The fields a step leaves as they were.
SameHeld(r1, r) ==
  /\ r1.cmd = r.cmd /\ r1.subs = r.subs /\ r1.camps = r.camps
  /\ r1.out = r.out /\ r1.batch = r.batch /\ r1.log = r.log

Others(w) == \A v \in Workers \ {w} : proc'[v] = proc[v]

\* A helper that starts holds a command and copies of the types it needs.
LEMMA StartType ==
  ASSUME TypeInv, NEW w \in Workers, HasStarted(w), requests' \in 0..MaxRequests
  PROVE  TypeInv'
<1>1. PICK r \in Process : ProcOK(r) /\ Started(w, r)
  BY DEF HasStarted
<1>2. proc' \in [Workers -> Process] /\ ProcInv'
  BY <1>1, BecomesFacts DEF Started
<1> QED
  BY <1>1, <1>2 DEF TypeInv, TypeOK, Started, Start, files

\* A confirmation mail is sent or given up.
LEMMA ConfirmEmailStep ==
  ASSUME TypeInv, NEW w \in Workers, sendConfirmEmail(w)
  PROVE  /\ TypeInv' /\ Others(w)
         /\ \/ proc'[w] = Idle
            \/ proc'[w].pc = "openS" /\ SameHeld(proc'[w], proc[w])
         /\ \E s \in People, t \in Tokens :
              inbox' \subseteq inbox \cup {[kind |-> "confirm", s |-> s, token |-> t]}
         /\ inbox \subseteq inbox'
<1> DEFINE r == proc[w]
           r1 == [r EXCEPT !.pc = "openS", !.who = None]
<1>1. r \in Process /\ ProcOK(r)
  BY DEF TypeInv, TypeOK, ProcInv
<1>2. /\ r.pc \in {"invite", "welcome"}
      /\ Becomes(w, Idle) \/ (r.pc = "invite" /\ Becomes(w, r1))
  <2> DEFINE x == IF r.pc = "invite" THEN r1 ELSE Idle
  <2>1. r.pc \in {"invite", "welcome"} /\ (Becomes(w, x) \/ Becomes(w, Idle))
    BY Zenon DEF sendConfirmEmail
  <2> HIDE DEF r1
  <2>2. x = Idle \/ (r.pc = "invite" /\ x = r1)
    BY Zenon
  <2> HIDE DEF x
  <2> QED
    BY <2>1, <2>2, Zenon DEF Becomes
<1>3. r.who \in People /\ r.cmd = "subs"
  BY <1>1, <1>2 DEF ProcOK
<1>4. r1 \in Process /\ r1.pc = "openS" /\ SameHeld(r1, r) /\ r1.who = None
  BY <1>1 DEF Process, PC, SameHeld
<1>5. r.subs[r.who].confirm \in Tokens
  BY <1>1, <1>3 DEF Process, Subscriber
<1>6. /\ \/ inbox' = inbox \cup {[kind |-> "confirm", s |-> r.who, token |-> r.subs[r.who].confirm]}
         \/ inbox' = inbox
      /\ UNCHANGED <<files, issued, history, clean, requests, kills>>
  BY DEF sendConfirmEmail
<1>7. /\ \E s \in People, t \in Tokens :
           inbox' \subseteq inbox \cup {[kind |-> "confirm", s |-> s, token |-> t]}
      /\ inbox \subseteq inbox'
  BY <1>3, <1>5, <1>6
<1> HIDE DEF r1, r
<1>8. ProcOK(r1)
  BY <1>3, <1>4 DEF ProcOK, SameHeld
<1>9. /\ proc' \in [Workers -> Process] /\ ProcInv' /\ Others(w)
      /\ proc'[w] = Idle \/ proc'[w] = r1
  BY <1>2, <1>4, <1>8, IdleFacts, BecomesFacts DEF Others
<1>10. inbox' \subseteq Link
  BY <1>7 DEF TypeInv, TypeOK, Link
<1>11. TypeInv'
  BY <1>6, <1>9, <1>10 DEF TypeInv, TypeOK, files, history
<1> QED
  BY <1>4, <1>7, <1>9, <1>11 DEF r

\* A helper empties a file before it fills it: the three are alike.
LEMMA OpenStep ==
  ASSUME TypeInv, NEW w \in Workers,
         openSubscribers(w) \/ openQueue(w) \/ openCampaigns(w)
  PROVE  /\ TypeInv' /\ Others(w)
         /\ SameHeld(proc'[w], proc[w]) /\ proc'[w].who = proc[w].who
         /\ openSubscribers(w) => proc'[w].pc = "fillS"
         /\ openQueue(w) => proc'[w].pc = "fillQ"
         /\ openCampaigns(w) => proc'[w].pc = "fillC"
<1> DEFINE r == proc[w]
           to == CASE r.pc = "openS" -> "fillS" [] r.pc = "openQ" -> "fillQ"
                   [] OTHER -> "fillC"
           r1 == [r EXCEPT !.pc = to]
<1>1. r \in Process /\ ProcOK(r)
  BY DEF TypeInv, TypeOK, ProcInv
<1>2. /\ openSubscribers(w) => r.pc = "openS" /\ to = "fillS"
      /\ openQueue(w) => r.pc = "openQ" /\ to = "fillQ"
      /\ openCampaigns(w) => r.pc = "openC" /\ to = "fillC"
  BY DEF openSubscribers, openQueue, openCampaigns
<1>3. Becomes(w, r1)
  BY <1>2 DEF openSubscribers, openQueue, openCampaigns
<1>4. to \in PC
  BY DEF PC
<1> HIDE DEF to
<1>5. r1 \in Process /\ r1.pc = to /\ SameHeld(r1, r) /\ r1.who = r.who
  BY <1>1, <1>4 DEF Process, SameHeld
<1> HIDE DEF r1, r
<1>6. ProcOK(r1)
  BY <1>1, <1>2, <1>5 DEF ProcOK, SameHeld
<1>7. proc' \in [Workers -> Process] /\ ProcInv' /\ Others(w) /\ proc'[w] = r1
  BY <1>3, <1>5, <1>6, BecomesFacts DEF Others
<1>8. /\ subs' \in [People -> Subscriber] /\ queue' \in Seq(QueueLine)
      /\ campaigns' \in [Campaigns -> Campaign]
      /\ lines' \in [Campaigns -> SUBSET People]
      /\ attempted' \in [Campaigns -> SUBSET People]
      /\ mailed' \in [Campaigns -> SUBSET People]
      /\ UNCHANGED <<issued, inbox, confirmed, told, reached, twice, clean, requests, kills>>
  <2>1. CASE openSubscribers(w) \/ openCampaigns(w)
    BY <2>1, IdleFacts DEF openSubscribers, openCampaigns, TypeInv, TypeOK, Process, history
  <2>2. CASE openQueue(w)
    <3>1. r.out \in Seq(QueueLine)
      BY <1>1 DEF Process
    <3>2. queue' \in Seq(QueueLine)
      BY <2>2, <3>1, PrefixFacts DEF openQueue, r
    <3> DEFINE new == {r.out[i].s : i \in 1..Len(r.out)}
    <3>3. new \in SUBSET People
      BY <3>1, AddressesFacts
    <3>4. \/ /\ lines' = [lines EXCEPT ![r.who] = new]
             /\ attempted' = [attempted EXCEPT ![r.who] = {}]
             /\ mailed' = [mailed EXCEPT ![r.who] = reached[r.who]]
             /\ r.cmd = "queue"
          \/ UNCHANGED <<lines, attempted, mailed>>
      BY <2>2, Zenon DEF openQueue, r
    <3>5. r.cmd = "queue" => r.who \in Campaigns
      BY <1>1 DEF ProcOK
    <3> HIDE DEF new
    <3>6. /\ lines' \in [Campaigns -> SUBSET People]
          /\ attempted' \in [Campaigns -> SUBSET People]
          /\ mailed' \in [Campaigns -> SUBSET People]
      BY <3>3, <3>4, <3>5 DEF TypeInv, TypeOK
    <3>7. UNCHANGED <<subs, campaigns, issued, inbox, confirmed, told, reached, twice,
                      clean, requests, kills>>
      BY <2>2 DEF openQueue
    <3> QED
      BY <3>2, <3>6, <3>7 DEF TypeInv, TypeOK
  <2> QED
    BY <2>1, <2>2
<1>9. TypeInv'
  BY <1>7, <1>8 DEF TypeInv, TypeOK
<1> QED
  BY <1>2, <1>5, <1>7, <1>9 DEF r

\* The list of subscribers is written.
LEMMA WriteSubsStep ==
  ASSUME TypeInv, NEW w \in Workers, writeSubscribers(w)
  PROVE  /\ TypeInv' /\ Others(w) /\ subs' = proc[w].subs
         /\ \/ proc'[w] = Idle
            \/ proc'[w].pc = "welcome" /\ SameHeld(proc'[w], proc[w])
<1> DEFINE r == proc[w]
           r1 == [r EXCEPT !.pc = "welcome"]
<1>1. r \in Process /\ ProcOK(r)
  BY DEF TypeInv, TypeOK, ProcInv
<1>2. /\ r.pc = "fillS" /\ subs' = r.subs
      /\ Becomes(w, Idle) \/ (r.cmd = "subs" /\ r.who # None /\ Becomes(w, r1))
      /\ \/ r.cmd = "unsubscribe" /\ told' = told \cup {<<r.who, r.subs[r.who].token>>}
         \/ told' = told
      /\ UNCHANGED <<campaigns, queue, issued, inbox, confirmed, lines, attempted,
                     mailed, reached, twice, clean, requests, kills>>
  <2> DEFINE x == IF r.cmd = "subs" /\ r.who # None THEN r1 ELSE Idle
  <2>1. Becomes(w, x)
    BY Zenon DEF writeSubscribers
  <2> HIDE DEF r1
  <2>2. x = Idle \/ (r.cmd = "subs" /\ r.who # None /\ x = r1)
    BY Zenon
  <2> HIDE DEF x
  <2>3. Becomes(w, Idle) \/ (r.cmd = "subs" /\ r.who # None /\ Becomes(w, r1))
    BY <2>1, <2>2, Zenon DEF Becomes
  <2> QED
    BY <2>3 DEF writeSubscribers
<1>3. r1 \in Process /\ r1.pc = "welcome" /\ SameHeld(r1, r) /\ r1.who = r.who
  BY <1>1 DEF Process, PC, SameHeld
<1> HIDE DEF r1
<1>4. r.cmd = "subs" /\ r.who # None => ProcOK(r1)
  BY <1>1, <1>3 DEF ProcOK, SameHeld
<1>5. /\ proc' \in [Workers -> Process] /\ ProcInv' /\ Others(w)
      /\ proc'[w] = Idle \/ proc'[w] = r1
  BY <1>2, <1>3, <1>4, IdleFacts, BecomesFacts DEF Others
<1>6. subs' \in [People -> Subscriber] /\ told' \subseteq People \X Tokens
  <2>1. r.subs \in [People -> Subscriber]
    BY <1>1 DEF Process
  <2>2. r.cmd = "unsubscribe" => r.who \in People /\ r.subs[r.who].token \in Tokens
    BY <1>1, <2>1 DEF ProcOK, Subscriber
  <2> HIDE DEF r
  <2> QED
    BY <1>2, <2>1, <2>2 DEF TypeInv, TypeOK
<1>7. TypeInv'
  BY <1>2, <1>5, <1>6 DEF TypeInv, TypeOK
<1> QED
  BY <1>2, <1>3, <1>5, <1>7

\* The campaign's lines are made from the subscribers as they are now.
LEMMA QueueReadStep ==
  ASSUME TypeInv, NEW w \in Workers, newsletterCampaignQueue(w)
  PROVE  LET r  == proc[w]
             r1 == proc'[w]
         IN  /\ TypeInv' /\ Others(w) /\ r.pc = "readS" /\ r.cmd = "queue"
             /\ \/ r1 = Idle
                \/ /\ r1.pc = "openQ" /\ r1.cmd = "queue" /\ r1.who = r.who
                   /\ r1.subs = r.subs /\ r1.batch = r.batch
                   /\ r1.out = LinesFor(r.who, subs)
                   /\ r1.camps[r.who].status = "sending"
                   /\ \A c \in Campaigns \ {r.who} : r1.camps[c] = r.camps[c]
<1> DEFINE r == proc[w]
           sending == [status |-> "sending", ok |-> FALSE, bad |-> FALSE]
           r1 == [r EXCEPT !.pc = "openQ", !.out = LinesFor(r.who, subs),
                           !.camps[r.who] = sending]
<1>1. /\ r \in Process /\ ProcOK(r) /\ subs \in [People -> Subscriber]
  BY DEF TypeInv, TypeOK, ProcInv
<1>2. /\ r.pc = "readS" /\ UNCHANGED <<files, issued, inbox, history, clean, requests, kills>>
      /\ Becomes(w, Idle) \/ Becomes(w, r1)
  <2> DEFINE x == IF Active(subs) = {} THEN Idle ELSE r1
  <2>1. proc' = [proc EXCEPT ![w] = x]
    BY Zenon DEF newsletterCampaignQueue, Becomes
  <2> HIDE DEF r1
  <2>2. x = Idle \/ x = r1
    BY Zenon
  <2> HIDE DEF x
  <2> QED
    BY <2>1, <2>2 DEF newsletterCampaignQueue, Becomes
<1>3. r.cmd = "queue" /\ r.who \in Campaigns
  BY <1>1, <1>2 DEF ProcOK
<1>4. LinesFor(r.who, subs) \in Seq(QueueLine)
  BY <1>1, <1>3, LinesForFacts
<1>5. sending \in Campaign /\ sending.status = "sending"
  BY DEF Campaign
<1> HIDE DEF sending
<1>6. r.camps \in [Campaigns -> Campaign]
  BY <1>1 DEF Process
<1>7. /\ [r.camps EXCEPT ![r.who] = sending] \in [Campaigns -> Campaign]
      /\ [r.camps EXCEPT ![r.who] = sending][r.who].status = "sending"
      /\ \A c \in Campaigns \ {r.who} : [r.camps EXCEPT ![r.who] = sending][c] = r.camps[c]
  BY <1>3, <1>5, <1>6
<1>8. /\ r1 \in Process /\ r1.pc = "openQ" /\ r1.cmd = r.cmd /\ r1.who = r.who
      /\ r1.subs = r.subs /\ r1.batch = r.batch /\ r1.out = LinesFor(r.who, subs)
      /\ r1.camps = [r.camps EXCEPT ![r.who] = sending] /\ r1.log = r.log
  <2> DEFINE out == LinesFor(r.who, subs)
             camps == [r.camps EXCEPT ![r.who] = sending]
  <2>1. r1 = [r EXCEPT !.pc = "openQ", !.out = out, !.camps = camps]
    BY <1>1 DEF Process
  <2> HIDE DEF out, camps, r1
  <2>2. out \in Seq(QueueLine) /\ camps \in [Campaigns -> Campaign]
    BY <1>4, <1>7 DEF out, camps
  <2>3. /\ r1 \in Process /\ r1.pc = "openQ" /\ r1.cmd = r.cmd /\ r1.who = r.who
        /\ r1.subs = r.subs /\ r1.batch = r.batch /\ r1.out = out
        /\ r1.camps = camps /\ r1.log = r.log
    BY <1>1, <2>1, <2>2 DEF Process, PC
  <2> QED
    BY <2>3 DEF out, camps
<1> HIDE DEF r1
<1>9. ProcOK(r1)
  BY <1>1, <1>3, <1>8 DEF ProcOK
<1>10. /\ proc' \in [Workers -> Process] /\ ProcInv' /\ Others(w)
       /\ proc'[w] = Idle \/ proc'[w] = r1
  BY <1>2, <1>8, <1>9, IdleFacts, BecomesFacts DEF Others
<1>11. TypeInv'
  BY <1>2, <1>10 DEF TypeInv, TypeOK, files, history
<1> QED
  BY <1>2, <1>3, <1>7, <1>8, <1>10, <1>11

\* The batch reads the campaigns.
LEMMA BatchReadStep ==
  ASSUME TypeInv, NEW w \in Workers, BatchCampaigns(w)
  PROVE  LET r  == proc[w]
             r1 == proc'[w]
         IN  /\ TypeInv' /\ Others(w) /\ r.pc = "readC" /\ r.cmd = "batch"
             /\ r1.pc = "send" /\ r1.cmd = "batch" /\ r1.camps = campaigns
             /\ r1.subs = r.subs /\ r1.batch = r.batch /\ r1.out = r.out /\ r1.log = r.log
<1> DEFINE r == proc[w]
           r1 == [r EXCEPT !.pc = "send", !.camps = campaigns]
<1>1. /\ r \in Process /\ ProcOK(r) /\ campaigns \in [Campaigns -> Campaign]
  BY DEF TypeInv, TypeOK, ProcInv
<1>2. /\ r.pc = "readC" /\ Becomes(w, r1)
      /\ UNCHANGED <<files, issued, inbox, history, clean, requests, kills>>
  BY DEF BatchCampaigns
<1>3. /\ r1 \in Process /\ r1.pc = "send" /\ r1.cmd = r.cmd /\ r1.who = r.who
      /\ r1.subs = r.subs /\ r1.batch = r.batch /\ r1.out = r.out
      /\ r1.camps = campaigns /\ r1.log = r.log
  BY <1>1 DEF Process, PC
<1> HIDE DEF r1
<1>4. ProcOK(r1) /\ r.cmd = "batch"
  BY <1>1, <1>2, <1>3 DEF ProcOK
<1>5. proc' \in [Workers -> Process] /\ ProcInv' /\ Others(w) /\ proc'[w] = r1
  BY <1>2, <1>3, <1>4, BecomesFacts DEF Others
<1>6. TypeInv'
  BY <1>2, <1>5 DEF TypeInv, TypeOK, files, history
<1> QED
  BY <1>2, <1>3, <1>4, <1>5, <1>6

\* One line of the batch is tried.
LEMMA SendStep ==
  ASSUME TypeInv, NEW w \in Workers, sendNewsletterMessage(w)
  PROVE  LET r  == proc[w]
             r1 == proc'[w]
             n  == Len(r.log) + 1
             x  == r.batch[n]
         IN  /\ TypeInv' /\ Others(w) /\ r.pc = "send" /\ r.cmd = "batch"
             /\ n \in 1..Len(r.batch) /\ x \in QueueLine
             /\ r1.pc = (IF n = Len(r.batch) THEN "openQ" ELSE "send")
             /\ r1.cmd = "batch" /\ Len(r1.log) = n
             /\ \A i \in 1..Len(r.log) : r1.log[i] = r.log[i]
             /\ reached' = IF r1.log[n] THEN [reached EXCEPT ![x.c] = @ \cup {x.s}]
                           ELSE reached
             /\ r1.subs = r.subs /\ r1.batch = r.batch /\ r1.out = r.out
             /\ r1.camps = r.camps
             /\ attempted' = [attempted EXCEPT ![x.c] = @ \cup {x.s}]
             /\ \/ /\ inbox' = inbox \cup
                        {[kind |-> "newsletter", s |-> x.s, token |-> x.token]}
                   /\ mailed' = [mailed EXCEPT ![x.c] = @ \cup {x.s}]
                   /\ twice' = IF x.s \in mailed[x.c] THEN twice \cup {x.c} ELSE twice
                \/ UNCHANGED <<inbox, mailed, twice>>
<1> DEFINE r == proc[w]
           n == Len(r.log) + 1
           x == r.batch[n]
           to == IF n = Len(r.batch) THEN "openQ" ELSE "send"
<1>1. /\ r \in Process /\ ProcOK(r) /\ r.pc = "send"
      /\ UNCHANGED <<files, issued, confirmed, told, lines, clean, requests, kills>>
  BY DEF TypeInv, TypeOK, ProcInv, sendNewsletterMessage
<1>2. PICK ok \in BOOLEAN :
        /\ Becomes(w, [r EXCEPT !.log = Append(@, ok), !.pc = to])
        /\ attempted' = [attempted EXCEPT ![x.c] = @ \cup {x.s}]
        /\ reached' = IF ok THEN [reached EXCEPT ![x.c] = @ \cup {x.s}] ELSE reached
        /\ \/ /\ inbox' = inbox \cup
                   {[kind |-> "newsletter", s |-> x.s, token |-> x.token]}
              /\ mailed' = [mailed EXCEPT ![x.c] = @ \cup {x.s}]
              /\ twice' = IF x.s \in mailed[x.c] THEN twice \cup {x.c} ELSE twice
           \/ UNCHANGED <<inbox, mailed, twice>>
  BY Zenon DEF sendNewsletterMessage
<1> DEFINE log == Append(r.log, ok)
           r1 == [r EXCEPT !.log = log, !.pc = to]
<1>3. /\ r.log \in Seq(BOOLEAN) /\ r.batch \in Seq(QueueLine) /\ r.cmd = "batch"
      /\ Len(r.log) < Len(r.batch)
  BY <1>1 DEF ProcOK, Process
<1>4. n \in 1..Len(r.batch) /\ x \in QueueLine
  BY <1>3
<1>5. /\ log \in Seq(BOOLEAN) /\ Len(log) = n /\ log[n] = ok
      /\ \A i \in 1..Len(r.log) : log[i] = r.log[i]
  BY <1>3
<1>6. Becomes(w, r1)
  <2>1. Becomes(w, [r EXCEPT !.log = Append(@, ok), !.pc = to])
    BY <1>2, Zenon
  <2> QED
    BY <1>1, <2>1 DEF Process
<1>7. to \in {"openQ", "send"} /\ to \in PC /\ (to = "openQ" <=> n = Len(r.batch))
  BY DEF PC
<1> HIDE DEF log, to
<1>8. /\ r1 \in Process /\ r1.pc = to /\ r1.cmd = r.cmd /\ r1.who = r.who
      /\ r1.subs = r.subs /\ r1.batch = r.batch /\ r1.out = r.out
      /\ r1.camps = r.camps /\ r1.log = log
  BY <1>1, <1>5, <1>7 DEF Process
<1> HIDE DEF r1, r, n, x
<1>9. ProcOK(r1)
  <2>1. to = "send" => n < Len(r.batch)
    BY <1>4, <1>7
  <2> QED
    BY <1>3, <1>5, <1>7, <1>8, <2>1 DEF ProcOK
<1>10. proc' \in [Workers -> Process] /\ ProcInv' /\ Others(w) /\ proc'[w] = r1
  BY <1>6, <1>8, <1>9, BecomesFacts DEF Others
<1>11. x.c \in Campaigns /\ x.s \in People /\ x.token \in Tokens
  BY <1>4 DEF QueueLine
<1>12. /\ attempted' \in [Campaigns -> SUBSET People]
       /\ mailed' \in [Campaigns -> SUBSET People]
       /\ reached' \in [Campaigns -> SUBSET People]
       /\ inbox' \subseteq Link /\ twice' \subseteq Campaigns
  <2>1. /\ attempted \in [Campaigns -> SUBSET People]
        /\ mailed \in [Campaigns -> SUBSET People]
        /\ reached \in [Campaigns -> SUBSET People]
        /\ inbox \subseteq Link /\ twice \subseteq Campaigns
    BY DEF TypeInv, TypeOK
  <2>2. attempted' \in [Campaigns -> SUBSET People]
    BY <1>2, <1>11, <2>1
  <2>3. mailed' \in [Campaigns -> SUBSET People]
    BY <1>2, <1>11, <2>1
  <2>4. inbox' \subseteq Link
    BY <1>2, <1>11, <2>1 DEF Link
  <2>5. twice' \subseteq Campaigns
    BY <1>2, <1>11, <2>1
  <2>6. reached' \in [Campaigns -> SUBSET People]
    BY <1>2, <1>11, <2>1
  <2> QED
    BY <2>2, <2>3, <2>4, <2>5, <2>6
<1>13. TypeInv'
  BY <1>1, <1>10, <1>12 DEF TypeInv, TypeOK, files
<1>14. reached' = IF proc'[w].log[n] THEN [reached EXCEPT ![x.c] = @ \cup {x.s}] ELSE reached
  <2>1. proc'[w].log[n] = ok
    BY <1>5, <1>8, <1>10
  <2>2. reached' = IF ok THEN [reached EXCEPT ![x.c] = @ \cup {x.s}] ELSE reached
    BY <1>2, Zenon
  <2> QED
    BY <2>1, <2>2, Zenon
<1>15. /\ attempted' = [attempted EXCEPT ![x.c] = @ \cup {x.s}]
       /\ \/ /\ inbox' = inbox \cup
                  {[kind |-> "newsletter", s |-> x.s, token |-> x.token]}
             /\ mailed' = [mailed EXCEPT ![x.c] = @ \cup {x.s}]
             /\ twice' = IF x.s \in mailed[x.c] THEN twice \cup {x.c} ELSE twice
          \/ UNCHANGED <<inbox, mailed, twice>>
  BY <1>2, Zenon
<1> HIDE DEF to
<1>16. /\ proc'[w].pc = to /\ proc'[w].cmd = "batch" /\ Len(proc'[w].log) = n
       /\ \A i \in 1..Len(r.log) : proc'[w].log[i] = r.log[i]
       /\ proc'[w].subs = r.subs /\ proc'[w].batch = r.batch
       /\ proc'[w].out = r.out /\ proc'[w].camps = r.camps
  BY <1>3, <1>5, <1>8, <1>10
<1> QED
  BY <1>1, <1>3, <1>4, <1>10, <1>13, <1>14, <1>15, <1>16, Zenon DEF r, n, x, to

\* A line of campaign c in the batch was counted as sent.
SentOne(r, c) == \E i \in 1..Len(r.batch) : r.batch[i].c = c /\ r.log[i]

\* What a batch makes of a campaign's status: it finishes a sending one of which
\* it took lines and left none, and starts no sending; a campaign that reached
\* anybody has that on record, and does not fail.
LEMMA SettledFacts ==
  ASSUME NEW r \in Process
  PROVE  /\ Settled(r) \in [Campaigns -> Campaign]
         /\ \A c \in Campaigns :
              LET was == r.camps[c].status
                  is  == Settled(r)[c].status
              IN  \/ is = was
                  \/ /\ was = "sending" /\ is \in {"sent", "failed"}
                     /\ Queued(c, r.batch) /\ ~Queued(c, r.out)
         /\ \A c \in Campaigns :
              /\ r.camps[c].ok \/ SentOne(r, c) => Settled(r)[c].ok \/ r.camps[c].status = "absent"
              /\ Settled(r)[c].status = "failed" =>
                   r.camps[c].status = "failed" \/ ~Settled(r)[c].ok
<1> SUFFICES ASSUME NEW c \in Campaigns
             PROVE  LET was == r.camps[c].status
                        is  == Settled(r)[c].status
                    IN  /\ Settled(r)[c] \in Campaign
                        /\ \/ is = was
                           \/ /\ was = "sending" /\ is \in {"sent", "failed"}
                              /\ Queued(c, r.batch) /\ ~Queued(c, r.out)
                        /\ r.camps[c].ok \/ SentOne(r, c) => Settled(r)[c].ok \/ was = "absent"
                        /\ is = "failed" => was = "failed" \/ ~Settled(r)[c].ok
  BY DEF Settled
<1> DEFINE logOf(d) == {i \in 1..Len(r.batch) :
                          \E j \in 1..Len(r.batch) :
                            r.batch[j].c = d /\ r.batch[j].s = r.batch[i].s}
           ok(d)    == r.camps[d].ok \/ \E i \in logOf(d) : r.log[i]
           bad(d)   == r.camps[d].bad \/ \E i \in logOf(d) : ~r.log[i]
           left(d)  == \E i \in 1..Len(r.out) : r.out[i].c = d
           skip(d)  == (\A i \in 1..Len(r.batch) : r.batch[i].c # d)
                         \/ r.camps[d].status = "absent"
           was == r.camps[c].status
           status == IF ~left(c) /\ was = "sending"
                       THEN IF bad(c) /\ ~ok(c) THEN "failed" ELSE "sent"
                       ELSE was
           rec == [status |-> status, ok |-> ok(c), bad |-> bad(c)]
<1>1. r.camps[c] \in Campaign
  BY DEF Process
<1>2. Settled(r)[c] = IF skip(c) THEN r.camps[c] ELSE rec
  BY Zenon DEF Settled
<1>3. (left(c) <=> Queued(c, r.out)) /\ (skip(c) \/ Queued(c, r.batch))
  BY Zenon DEF Queued
<1>4. ok(c) \in BOOLEAN /\ bad(c) \in BOOLEAN
  <2>1. r.camps[c].ok \in BOOLEAN /\ r.camps[c].bad \in BOOLEAN
    BY <1>1 DEF Campaign
  <2> QED
    BY <2>1
<1>a. /\ r.camps[c].ok \/ SentOne(r, c) => ok(c)
      /\ skip(c) => ~SentOne(r, c) \/ was = "absent"
  BY DEF SentOne
<1> HIDE DEF ok, bad, left, skip, was
<1>5. /\ \/ status = was
         \/ was = "sending" /\ ~left(c) /\ status \in {"sent", "failed"}
      /\ status = "failed" => was = "failed" \/ ~ok(c)
  OBVIOUS
<1>6. was \in {"absent", "draft", "sending", "sent", "failed"}
  BY <1>1 DEF Campaign, was
<1> HIDE DEF status
<1>7. rec \in Campaign /\ rec.status = status /\ rec.ok = ok(c)
  BY <1>4, <1>5, <1>6 DEF Campaign
<1> HIDE DEF rec
<1>8. CASE skip(c)
  BY <1>1, <1>2, <1>8, <1>a DEF was
<1>9. CASE ~skip(c)
  BY <1>2, <1>3, <1>5, <1>7, <1>9, <1>a DEF was
<1> QED
  BY <1>8, <1>9

\* The rest of the queue, or a campaign's lines, replace the queue.
LEMMA WriteQueueStep ==
  ASSUME TypeInv, NEW w \in Workers, writeQueueLines(w)
  PROVE  LET r  == proc[w]
             r1 == proc'[w]
         IN  /\ TypeInv' /\ Others(w) /\ r.pc = "fillQ" /\ queue' = r.out
             /\ r1.pc = "openC" /\ r1.cmd = r.cmd /\ r1.who = r.who
             /\ r1.subs = r.subs /\ r1.batch = r.batch /\ r1.out = r.out
             /\ \/ r.cmd = "queue" /\ r.who \in Campaigns /\ r1.camps = r.camps
                \/ r.cmd = "batch" /\ Len(r.log) = Len(r.batch) /\ r1.camps = Settled(r)
<1> DEFINE r == proc[w]
           camps == IF r.cmd = "batch" THEN Settled(r) ELSE r.camps
           r1 == [r EXCEPT !.pc = "openC", !.camps = camps]
<1>1. /\ r \in Process /\ ProcOK(r) /\ r.pc = "fillQ" /\ queue' = r.out
      /\ UNCHANGED <<subs, campaigns, issued, inbox, history, clean, requests, kills>>
  BY DEF TypeInv, TypeOK, ProcInv, writeQueueLines
<1>2. /\ \/ r.cmd = "queue" /\ r.who \in Campaigns
         \/ r.cmd = "batch" /\ Len(r.log) = Len(r.batch)
      /\ r.out \in Seq(QueueLine)
  BY <1>1 DEF ProcOK, Process
<1>3. Becomes(w, r1)
  BY <1>1 DEF writeQueueLines, QueueWritten, Process
<1>4. camps \in [Campaigns -> Campaign]
  <2>1. r.camps \in [Campaigns -> Campaign]
    BY <1>1 DEF Process
  <2> QED
    BY <1>1, <2>1, SettledFacts
<1>5. /\ r.cmd = "queue" => camps = r.camps
      /\ r.cmd = "batch" => camps = Settled(r)
  BY Zenon
<1> HIDE DEF camps
<1>6. /\ r1 \in Process /\ r1.pc = "openC" /\ r1.cmd = r.cmd /\ r1.who = r.who
      /\ r1.subs = r.subs /\ r1.batch = r.batch /\ r1.out = r.out /\ r1.log = r.log
      /\ r1.camps = camps
  BY <1>1, <1>4 DEF Process, PC
<1> HIDE DEF r1, r
<1>7. ProcOK(r1)
  BY <1>2, <1>6 DEF ProcOK
<1>8. proc' \in [Workers -> Process] /\ ProcInv' /\ Others(w) /\ proc'[w] = r1
  BY <1>3, <1>6, <1>7, BecomesFacts DEF Others
<1>9. TypeInv'
  BY <1>1, <1>2, <1>8 DEF TypeInv, TypeOK, history
<1> QED
  BY <1>1, <1>2, <1>5, <1>6, <1>8, <1>9 DEF r

\* The campaigns file is written, or the helper is killed.
LEMMA EndStep ==
  ASSUME TypeInv, NEW w \in Workers, writeCampaigns(w) \/ Kill(w)
  PROVE  /\ TypeInv' /\ Others(w) /\ proc'[w] = Idle
         /\ proc[w].camps \in [Campaigns -> Campaign]
<1>1. proc[w].camps \in [Campaigns -> Campaign]
  BY DEF TypeInv, TypeOK, Process
<1>2. /\ campaigns' \in [Campaigns -> Campaign] /\ Becomes(w, Idle)
      /\ clean' \in BOOLEAN /\ kills' \in 0..MaxKills
      /\ UNCHANGED <<subs, queue, issued, inbox, history, requests>>
  <2>1. CASE writeCampaigns(w)
    BY <1>1, <2>1 DEF writeCampaigns, TypeInv, TypeOK
  <2>2. CASE Kill(w)
    <3>1. kills \in 0..MaxKills /\ kills < MaxKills /\ kills' = kills + 1
      BY <2>2 DEF Kill, TypeInv, TypeOK
    <3>2. kills' \in 0..MaxKills
      BY <3>1, BoundsAssumption
    <3> QED
      BY <2>2, <3>2 DEF Kill, files, TypeInv, TypeOK
  <2> QED
    BY <2>1, <2>2
<1>3. proc' \in [Workers -> Process] /\ ProcInv' /\ Others(w) /\ proc'[w] = Idle
  BY <1>2, IdleFacts, BecomesFacts DEF Others
<1>4. TypeInv'
  BY <1>2, <1>3 DEF TypeInv, TypeOK, history
<1> QED
  BY <1>1, <1>3, <1>4

\* Every step keeps the types.
LEMMA NextTypeInv == TypeInv /\ [Next]_vars => TypeInv'
<1> SUFFICES ASSUME TypeInv, [Next]_vars PROVE TypeInv'
  OBVIOUS
<1>1. ASSUME NEW w \in Workers \ {Cron}, Request(w) PROVE TypeInv'
  BY <1>1, RequestStarts, StartType
<1>2. CASE BatchStart(Cron) /\ UNCHANGED requests
  <2>1. requests' \in 0..MaxRequests
    BY <1>2 DEF TypeInv, TypeOK
  <2> QED
    BY <1>2, <2>1, CronAssumption, BatchStarts, StartType
<1>3. ASSUME NEW w \in Workers, Continue(w) PROVE TypeInv'
  BY <1>3, ConfirmEmailStep, OpenStep, WriteSubsStep, QueueReadStep, BatchReadStep,
     SendStep, WriteQueueStep, EndStep DEF Continue
<1>4. ASSUME NEW w \in Workers, Kill(w) PROVE TypeInv'
  BY <1>4, EndStep
<1>5. CASE UNCHANGED vars
  BY <1>5 DEF TypeInv, TypeOK, ProcInv, vars, files, history
<1> QED
  BY <1>1, <1>2, <1>3, <1>4, <1>5 DEF Next

-----------------------------------------------------------------------------
(* ConfirmedInv: consent, whatever overlaps or dies *)

\* Consent once given stays.
LEMMA ConsentGrows ==
  ASSUME NEW C, NEW D, C \subseteq D
  PROVE  /\ \A list : ListOK(list, C) => ListOK(list, D)
         /\ \A q : LinesOK(q, C) => LinesOK(q, D)
BY DEF ListOK, LinesOK, Granted

\* The process that moves holds what its address allowed, and the others did.
LEMMA HeldStays ==
  ASSUME ConfirmedInv, NEW w \in Workers, Others(w), confirmed \subseteq confirmed',
         HeldOK(proc'[w], confirmed')
  PROVE  \A v \in Workers : HeldOK(proc'[v], confirmed')
BY ConsentGrows DEF ConfirmedInv, HeldOK, Others

\* The empty lists of an idle process.
LEMMA IdleHeld == \A C : HeldOK(Idle, C) /\ LinesOK(<<>>, C)
BY IdleFacts, NoSubsOK DEF HeldOK, LinesOK

\* A helper that starts holds copies of the files.
LEMMA ConfirmedStart ==
  ASSUME TypeInv, ConfirmedInv, NEW w \in Workers, HasStarted(w)
  PROVE  ConfirmedInv'
<1>1. PICK r \in Process : ProcOK(r) /\ Started(w, r) /\ StartsAs(r)
  BY DEF HasStarted
<1>2. proc'[w] = r /\ Others(w)
  BY <1>1, BecomesFacts DEF Started, Others
<1>3. /\ confirmed \subseteq confirmed' /\ UNCHANGED <<subs, queue, inbox>>
      /\ ListOK(r.subs, confirmed')
  BY <1>1 DEF Started, files, ConfirmedInv
<1>4. LinesOK(queue, confirmed') /\ ListOK(subs, confirmed')
  BY <1>3, ConsentGrows DEF ConfirmedInv
<1>5. LinesOK(r.out, confirmed') /\ LinesOK(r.batch, confirmed')
  <2>1. CASE r.out = <<>> /\ r.batch = <<>>
    BY <2>1, IdleHeld
  <2>2. CASE StartsBatch(r)
    <3>1. r.batch \in Seq(QueueLine) /\ r.out \in Seq(QueueLine) /\ r.batch \o r.out = queue
      BY <1>1, <2>2 DEF StartsBatch, Taken, Process
    <3>2. /\ \A i \in 1..Len(r.batch) : i \in 1..Len(queue) /\ queue[i] = r.batch[i]
          /\ \A i \in 1..Len(r.out) :
               Len(r.batch) + i \in 1..Len(queue) /\ queue[Len(r.batch) + i] = r.out[i]
      BY <3>1, JoinFacts
    <3> QED
      BY <1>4, <3>2 DEF LinesOK
  <2> QED
    BY <1>1, <2>1, <2>2 DEF StartsAs, StartsSubs, StartsCamps, StartsQueue
<1>6. HeldOK(proc'[w], confirmed')
  BY <1>2, <1>3, <1>5 DEF HeldOK
<1>7. \A v \in Workers : HeldOK(proc'[v], confirmed')
  BY <1>2, <1>3, <1>6, HeldStays
<1>8. OnlyConfirmedMailed'
  BY <1>3 DEF ConfirmedInv, OnlyConfirmedMailed
<1> QED
  BY <1>3, <1>4, <1>7, <1>8 DEF ConfirmedInv

\* A step that brings no new lists: what it leaves in the files was held or there.
LEMMA ConfirmedPlain ==
  ASSUME ConfirmedInv, NEW w \in Workers, Others(w), confirmed' = confirmed,
         proc'[w] = Idle \/ (/\ proc'[w].subs = proc[w].subs /\ proc'[w].out = proc[w].out
                             /\ proc'[w].batch = proc[w].batch),
         subs' \in {subs, NoSubs, proc[w].subs},
         queue' \in {queue, proc[w].out} \/ LinesOK(queue', confirmed),
         \A m \in inbox' \ inbox : m.kind # "newsletter"
  PROVE  ConfirmedInv'
<1>1. HeldOK(proc'[w], confirmed')
  BY IdleHeld DEF ConfirmedInv, HeldOK
<1>2. \A v \in Workers : HeldOK(proc'[v], confirmed')
  BY <1>1, HeldStays
<1>3. ListOK(subs', confirmed') /\ LinesOK(queue', confirmed')
  BY NoSubsOK, IdleHeld DEF ConfirmedInv, HeldOK
<1>4. OnlyConfirmedMailed'
  BY DEF ConfirmedInv, OnlyConfirmedMailed
<1> QED
  BY <1>2, <1>3, <1>4 DEF ConfirmedInv

\* Every step keeps it.
LEMMA NextConfirmed == TypeInv /\ ConfirmedInv /\ [Next]_vars => ConfirmedInv'
<1> SUFFICES ASSUME TypeInv, ConfirmedInv, [Next]_vars PROVE ConfirmedInv'
  OBVIOUS
<1>1. ASSUME NEW w \in Workers \ {Cron}, Request(w) PROVE ConfirmedInv'
  BY <1>1, RequestStarts, ConfirmedStart
<1>2. CASE BatchStart(Cron) /\ UNCHANGED requests
  BY <1>2, CronAssumption, BatchStarts, ConfirmedStart
<1>3. ASSUME NEW w \in Workers, Continue(w) PROVE ConfirmedInv'
  <2>1. CASE sendConfirmEmail(w)
    <3>1. \A m \in inbox' \ inbox : m.kind # "newsletter"
      <4>1. PICK s \in People, t \in Tokens :
              inbox' \subseteq inbox \cup {[kind |-> "confirm", s |-> s, token |-> t]}
        BY <2>1, ConfirmEmailStep
      <4> QED
        BY <4>1
    <3>2. UNCHANGED <<subs, queue, confirmed>>
      BY <2>1 DEF sendConfirmEmail, files, history
    <3> QED
      BY <2>1, <3>1, <3>2, ConfirmEmailStep, ConfirmedPlain DEF SameHeld
  <2>2. CASE openSubscribers(w) \/ openQueue(w) \/ openCampaigns(w)
    <3>1. subs' \in {subs, NoSubs} /\ UNCHANGED <<confirmed, inbox>>
      BY <2>2 DEF openSubscribers, openQueue, openCampaigns, history
    <3>2. queue' = queue \/ LinesOK(queue', confirmed)
      <4>1. CASE openQueue(w)
        <5>1. proc[w].out \in Seq(QueueLine) /\ LinesOK(proc[w].out, confirmed)
          BY DEF TypeInv, TypeOK, Process, ConfirmedInv, HeldOK
        <5>2. PICK n \in 0..Len(proc[w].out) : queue' = SubSeq(proc[w].out, 1, n)
          BY <4>1 DEF openQueue
        <5>3. /\ Len(queue') = n
              /\ \A i \in 1..n : i \in 1..Len(proc[w].out) /\ queue'[i] = proc[w].out[i]
          BY <5>1, <5>2, PrefixFacts
        <5> QED
          BY <5>1, <5>3 DEF LinesOK
      <4>2. CASE openSubscribers(w) \/ openCampaigns(w)
        BY <4>2 DEF openSubscribers, openCampaigns
      <4> QED
        BY <2>2, <4>1, <4>2
    <3> QED
      BY <2>2, <3>1, <3>2, OpenStep, ConfirmedPlain DEF SameHeld
  <2>3. CASE writeSubscribers(w)
    <3>1. UNCHANGED <<queue, confirmed, inbox>>
      BY <2>3 DEF writeSubscribers
    <3> QED
      BY <2>3, <3>1, WriteSubsStep, ConfirmedPlain DEF SameHeld
  <2>4. CASE newsletterCampaignQueue(w)
    <3> DEFINE r == proc[w]
               r1 == proc'[w]
    <3>1. UNCHANGED <<subs, queue, confirmed, inbox>>
      BY <2>4 DEF newsletterCampaignQueue, files, history
    <3>2. CASE r1 = Idle
      BY <2>4, <3>1, <3>2, QueueReadStep, ConfirmedPlain
    <3>3. CASE r1 # Idle
      <4>1. /\ r1.subs = r.subs /\ r1.batch = r.batch /\ r1.out = LinesFor(r.who, subs)
            /\ Others(w) /\ r.cmd = "queue"
        BY <2>4, <3>3, QueueReadStep
      <4>2. r.who \in Campaigns /\ subs \in [People -> Subscriber]
        BY <4>1 DEF TypeInv, TypeOK, ProcInv, ProcOK
      <4>3. \A i \in 1..Len(r1.out) : /\ r1.out[i].s \in People /\ subs[r1.out[i].s].status = "active"
                                      /\ r1.out[i].token = subs[r1.out[i].s].token
        BY <4>1, <4>2, LinesForFacts DEF Active
      <4>4. LinesOK(r1.out, confirmed)
        BY <4>3 DEF LinesOK, ConfirmedInv, ListOK, Granted
      <4>5. HeldOK(r1, confirmed')
        BY <3>1, <4>1, <4>4 DEF ConfirmedInv, HeldOK
      <4>6. \A v \in Workers : HeldOK(proc'[v], confirmed')
        BY <3>1, <4>1, <4>5, HeldStays
      <4> QED
        BY <3>1, <4>6 DEF ConfirmedInv, OnlyConfirmedMailed
    <3> QED
      BY <3>2, <3>3
  <2>5. CASE BatchCampaigns(w)
    <3>1. UNCHANGED <<subs, queue, confirmed, inbox>>
      BY <2>5 DEF BatchCampaigns, files, history
    <3> QED
      BY <2>5, <3>1, BatchReadStep, ConfirmedPlain
  <2>6. CASE sendNewsletterMessage(w)
    <3> DEFINE r == proc[w]
               r1 == proc'[w]
               n == Len(r.log) + 1
               x == r.batch[n]
    <3>1. UNCHANGED <<subs, queue, confirmed>>
      BY <2>6 DEF sendNewsletterMessage, files
    <3>2. /\ Others(w) /\ r1.subs = r.subs /\ r1.batch = r.batch /\ r1.out = r.out
          /\ n \in 1..Len(r.batch)
          /\ inbox' \subseteq inbox \cup {[kind |-> "newsletter", s |-> x.s, token |-> x.token]}
      BY <2>6, SendStep
    <3>3. <<x.s, x.token>> \in confirmed
      BY <3>2 DEF ConfirmedInv, HeldOK, LinesOK
    <3>4. OnlyConfirmedMailed'
      BY <3>1, <3>2, <3>3 DEF ConfirmedInv, OnlyConfirmedMailed
    <3>5. HeldOK(r1, confirmed')
      BY <3>1, <3>2 DEF ConfirmedInv, HeldOK
    <3>6. \A v \in Workers : HeldOK(proc'[v], confirmed')
      BY <3>1, <3>2, <3>5, HeldStays
    <3> QED
      BY <3>1, <3>4, <3>6 DEF ConfirmedInv
  <2>7. CASE writeQueueLines(w)
    <3>1. UNCHANGED <<subs, confirmed, inbox>>
      BY <2>7 DEF writeQueueLines, history
    <3> QED
      BY <2>7, <3>1, WriteQueueStep, ConfirmedPlain
  <2>8. CASE writeCampaigns(w)
    <3>1. UNCHANGED <<subs, queue, confirmed, inbox>>
      BY <2>8 DEF writeCampaigns, history
    <3> QED
      BY <2>8, <3>1, EndStep, ConfirmedPlain
  <2> QED
    BY <1>3, <2>1, <2>2, <2>3, <2>4, <2>5, <2>6, <2>7, <2>8 DEF Continue
<1>4. ASSUME NEW w \in Workers, Kill(w) PROVE ConfirmedInv'
  <2>1. UNCHANGED <<subs, queue, confirmed, inbox>>
    BY <1>4 DEF Kill, files, history
  <2> QED
    BY <1>4, <2>1, EndStep, ConfirmedPlain
<1>5. CASE UNCHANGED vars
  BY <1>5 DEF ConfirmedInv, OnlyConfirmedMailed, vars, files, history
<1> QED
  BY <1>1, <1>2, <1>3, <1>4, <1>5 DEF Next

\* At the start the members have confirmed.
LEMMA InitConfirmed == Init => ConfirmedInv
<1> SUFFICES ASSUME Init PROVE ConfirmedInv
  OBVIOUS
<1>1. ListOK(subs, confirmed)
  BY DEF Init, ListOK, Granted, Member, NoSub
<1>2. LinesOK(queue, confirmed) /\ \A w \in Workers : HeldOK(proc[w], confirmed)
  BY IdleHeld DEF Init
<1>3. OnlyConfirmedMailed
  BY DEF Init, OnlyConfirmedMailed
<1> QED
  BY <1>1, <1>2, <1>3 DEF ConfirmedInv

-----------------------------------------------------------------------------
(* CleanInv: one helper at a time *)

\* Everyone but w is at rest.
Rest(w) == \A v \in Workers \ {w} : proc[v] = Idle

\* The queue and the campaigns file as they are when r is the only helper.
QueueOK(r) ==
  ~Batching(r) =>
    /\ Distinct(queue) /\ Unsent(queue, 0, mailed)
    /\ \A c \in Campaigns :
         \/ StatusOK(c, campaigns[c].status, queue, 0, lines, attempted)
         \/ Settling(r) /\ r.who = c
    /\ \A c \in Campaigns :
         \/ KnownOK(c, campaigns[c], queue) /\ CountOK(c, campaigns[c], FALSE, reached)
         \/ Owing(r)

OneOK(r) == BatchOK(r) /\ QueuingOK(r) /\ CampsOK(r) /\ QueueOK(r)

\* An idle process takes part in nothing.
LEMMA IdleOK ==
  /\ ~Batching(Idle) /\ ~Settling(Idle) /\ ~Owing(Idle)
  /\ BatchOK(Idle) /\ QueuingOK(Idle) /\ CampsOK(Idle)
BY IdleFacts DEF Batching, Settling, Owing, BatchOK, QueuingOK, CampsOK

\* While it has not been disturbed, a helper at work is the only one.
LEMMA WorkingAlone ==
  ASSUME TypeInv, CleanInv, clean, NEW w \in Workers,
         Working(w) \/ \A v \in Workers : ~Working(v)
  PROVE  Rest(w) /\ twice = {} /\ OneOK(proc[w])
<1>1. Rest(w)
  BY DEF CleanInv, Alone, Working, Rest, TypeInv, ProcInv, ProcOK
<1>2. twice = {} /\ BatchOK(proc[w]) /\ QueuingOK(proc[w]) /\ CampsOK(proc[w])
  BY DEF CleanInv, HelperInv
<1>3. ASSUME ~Batching(proc[w]) PROVE \A v \in Workers : ~Batching(proc[v])
  BY <1>1, <1>3, IdleOK DEF Rest
<1>4. \A v \in Workers : Settling(proc[v]) \/ Owing(proc[v]) => v = w
  BY <1>1, IdleOK DEF Rest
<1>5. QueueOK(proc[w])
  BY <1>3, <1>4 DEF QueueOK, CleanInv, QueueInv
<1> QED
  BY <1>1, <1>2, <1>5 DEF OneOK

\* It is enough to look at the helper that moved.
LEMMA OneIsAll ==
  ASSUME NEW w \in Workers, Rest(w)', twice' = {}, OneOK(proc[w])'
  PROVE  CleanInv'
<1>1. \A v \in Workers : v # w => proc'[v] = Idle
  BY DEF Rest
<1>2. Alone'
  BY <1>1, IdleFacts DEF Alone, Working
<1>3. HelperInv'
  <2> SUFFICES ASSUME NEW v \in Workers
               PROVE  (BatchOK(proc[v]) /\ QueuingOK(proc[v]) /\ CampsOK(proc[v]))'
    BY DEF HelperInv
  <2>1. CASE v = w
    BY <2>1 DEF OneOK
  <2>2. CASE v # w
    BY <1>1, <2>2, IdleFacts DEF BatchOK, QueuingOK, CampsOK, Batching
  <2> QED
    BY <2>1, <2>2
<1>4. QueueInv'
  BY DEF OneOK, QueueOK, QueueInv
<1> QED
  BY <1>2, <1>3, <1>4 DEF CleanInv

\* A step that concerns neither queue nor campaigns.
LEMMA AsideOK ==
  ASSUME NEW w \in Workers, ~Batching(proc[w]), ~Settling(proc[w]), ~Owing(proc[w]),
         OneOK(proc[w]),
         UNCHANGED <<queue, campaigns, lines, attempted, mailed, reached>>,
         ~Batching(proc'[w]), proc'[w].cmd # "queue",
         proc'[w].pc \notin {"openC", "fillC"}
  PROVE  OneOK(proc[w])'
BY DEF OneOK, BatchOK, QueuingOK, CampsOK, QueueOK, Batching, Settling, Owing, StatusOK,
       CountOK

\* A helper starts after the others have ended.
LEMMA CleanStart ==
  ASSUME TypeInv, CleanInv, NEW w \in Workers, HasStarted(w)
  PROVE  CleanInv'
<1> SUFFICES ASSUME clean' PROVE CleanInv'
  BY DEF CleanInv
<1>1. PICK r \in Process : ProcOK(r) /\ Started(w, r) /\ StartsAs(r)
  BY DEF HasStarted
<1>2. proc'[w] = r /\ Others(w)
  BY <1>1, BecomesFacts DEF Started, Others
<1>3. clean /\ \A v \in Workers : ~Working(v)
  BY <1>1 DEF Started, Start, Working
<1>4. Rest(w) /\ twice = {} /\ OneOK(proc[w])
  BY <1>3, WorkingAlone
<1>5. /\ UNCHANGED <<files, lines, attempted, mailed, twice>>
      /\ Rest(w)'
  BY <1>1, <1>2, <1>4 DEF Started, Others, Rest
<1>6. ~Batching(proc[w]) /\ ~Settling(proc[w]) /\ ~Owing(proc[w])
  BY <1>3 DEF Working, Batching, Settling, Owing
<1>7. /\ Distinct(queue) /\ Unsent(queue, 0, mailed)
      /\ \A c \in Campaigns :
           /\ StatusOK(c, campaigns[c].status, queue, 0, lines, attempted)
           /\ KnownOK(c, campaigns[c], queue) /\ CountOK(c, campaigns[c], FALSE, reached)
  BY <1>4, <1>6 DEF OneOK, QueueOK
<1>8. OneOK(r)'
  <2>1. CASE StartsSubs(r)
    <3>1. \A c \in Campaigns : CountOK(c, campaigns[c], FALSE, reached')
      BY <1>5, <1>7, <2>1 DEF StartsSubs, CountOK, files
    <3> QED
      BY <1>5, <1>7, <2>1, <3>1
      DEF StartsSubs, OneOK, BatchOK, QueuingOK, CampsOK, QueueOK, Batching, files
  <2>2. CASE StartsCamps(r)
    <3>1. \A c \in Campaigns : StatusOK(c, r.camps[c].status, queue, 0, lines, attempted)
      BY <1>7, <2>2 DEF StartsCamps, StatusOK
    <3>2. \A c \in Campaigns : KnownOK(c, r.camps[c], queue) /\ CountOK(c, r.camps[c], FALSE, reached')
      BY <1>7, <2>2 DEF StartsCamps, KnownOK, CountOK
    <3>3. Owing(r)
      BY <2>2 DEF StartsCamps, Owing
    <3> QED
      BY <1>5, <1>7, <2>2, <3>1, <3>2, <3>3
      DEF StartsCamps, OneOK, BatchOK, QueuingOK, CampsOK, QueueOK, Batching, files
  <2>3. CASE StartsQueue(r)
    <3>1. \A c \in Campaigns : CountOK(c, campaigns[c], FALSE, reached')
      BY <1>5, <1>7, <2>3 DEF StartsQueue, CountOK, files
    <3>2. r.who \in Campaigns
      BY <1>1, <2>3 DEF StartsQueue, ProcOK
    <3>3. reached'[r.who] = {}
      BY <1>7, <2>3, <3>2 DEF StartsQueue, CountOK
    <3>4. QueueOK(r)'
      BY <1>5, <1>7, <3>1 DEF QueueOK, files
    <3> QED
      BY <1>5, <2>3, <3>3, <3>4
      DEF StartsQueue, OneOK, BatchOK, QueuingOK, CampsOK, Batching, Settling, files
  <2>4. CASE StartsBatch(r)
    <3>1. Len(r.log) = 0
      BY <2>4 DEF StartsBatch
    <3>2. \A c \in Campaigns : CountOK(c, campaigns[c], LoggedOk(r, c), reached')
      BY <1>5, <1>7, <2>4 DEF StartsBatch, CountOK, files
    <3> QED
      BY <1>5, <1>7, <2>4, <3>1, <3>2
      DEF StartsBatch, OneOK, BatchOK, QueuingOK, CampsOK, QueueOK, Batching, files
  <2> QED
    BY <1>1, <2>1, <2>2, <2>3, <2>4 DEF StartsAs
<1>9. OneOK(proc[w])'
  BY <1>2, <1>8
<1> QED
  BY <1>4, <1>5, <1>9, OneIsAll

\* What every step of a helper that goes on has in common.
LEMMA CleanContinue ==
  ASSUME TypeInv, CleanInv, NEW w \in Workers, Continue(w), clean'
  PROVE  /\ clean /\ Rest(w) /\ Rest(w)' /\ Others(w) /\ twice = {} /\ OneOK(proc[w])
         /\ proc[w] \in Process /\ ProcOK(proc[w])
<1>1. Others(w)
  BY ConfirmEmailStep, OpenStep, WriteSubsStep, QueueReadStep, BatchReadStep,
     SendStep, WriteQueueStep, EndStep DEF Continue
<1>2. clean /\ Working(w)
  BY DEF Continue, sendConfirmEmail, openSubscribers, writeSubscribers,
         newsletterCampaignQueue, BatchCampaigns, sendNewsletterMessage, openQueue,
         writeQueueLines, openCampaigns, writeCampaigns, Working
<1>3. Rest(w) /\ twice = {} /\ OneOK(proc[w])
  BY <1>2, WorkingAlone
<1> QED
  BY <1>1, <1>2, <1>3 DEF Rest, Others, TypeInv, TypeOK, ProcInv

\* Commands on subscribers touch no queue and no campaign.
LEMMA CleanSubs ==
  ASSUME TypeInv, CleanInv, NEW w \in Workers, clean', Continue(w),
         sendConfirmEmail(w) \/ openSubscribers(w) \/ writeSubscribers(w)
  PROVE  CleanInv'
<1>1. /\ Rest(w)' /\ twice = {} /\ OneOK(proc[w])
      /\ proc[w] \in Process /\ ProcOK(proc[w])
  BY CleanContinue
<1>2. /\ UNCHANGED <<queue, campaigns, lines, attempted, mailed, reached, twice>>
      /\ proc[w].pc \in {"invite", "welcome", "openS", "fillS"}
  BY DEF sendConfirmEmail, openSubscribers, writeSubscribers, files, history
<1>3. proc[w].cmd \in {"subs", "unsubscribe"}
  BY <1>1, <1>2 DEF ProcOK
<1>4. ~Batching(proc[w]) /\ ~Settling(proc[w]) /\ ~Owing(proc[w])
  BY <1>2, <1>3 DEF Batching, Settling, Owing
<1>5. \/ proc'[w] = Idle
      \/ proc'[w].cmd = proc[w].cmd /\ proc'[w].pc \in {"openS", "welcome", "fillS"}
  BY ConfirmEmailStep, OpenStep, WriteSubsStep DEF SameHeld
<1>6. /\ ~Batching(proc'[w]) /\ proc'[w].cmd # "queue"
      /\ proc'[w].pc \notin {"openC", "fillC"}
  BY <1>3, <1>5, IdleFacts DEF Batching
<1>7. OneOK(proc[w])'
  BY <1>1, <1>2, <1>4, <1>6, AsideOK
<1> QED
  BY <1>1, <1>2, <1>7, OneIsAll

\* A campaign's lines are for distinct addresses.
LEMMA CleanQueueRead ==
  ASSUME TypeInv, CleanInv, NEW w \in Workers, clean', Continue(w),
         newsletterCampaignQueue(w)
  PROVE  CleanInv'
<1> DEFINE r == proc[w]
           r1 == proc'[w]
<1>1. Rest(w)' /\ twice = {} /\ OneOK(r) /\ ProcOK(r)
  BY CleanContinue
<1>2. UNCHANGED <<queue, campaigns, lines, attempted, mailed, reached, twice, subs>>
  BY DEF newsletterCampaignQueue, files, history
<1>3. r.pc = "readS" /\ r.cmd = "queue" /\ ~Batching(r) /\ ~Settling(r) /\ ~Owing(r)
  BY QueueReadStep DEF Batching, Settling, Owing
<1>4. CASE r1 = Idle
  BY <1>1, <1>2, <1>3, <1>4, AsideOK, IdleFacts, IdleOK, OneIsAll
<1>5. CASE r1 # Idle
  <2>1. /\ r1.pc = "openQ" /\ r1.cmd = "queue" /\ r1.who = r.who
        /\ r1.out = LinesFor(r.who, subs) /\ r1.camps[r.who].status = "sending"
        /\ \A c \in Campaigns \ {r.who} : r1.camps[c] = r.camps[c]
    BY <1>5, QueueReadStep
  <2>2. r.who \in Campaigns /\ subs \in [People -> Subscriber]
    BY <1>1, <1>3 DEF ProcOK, TypeInv, TypeOK
  <2>3. Distinct(r1.out) /\ \A i \in 1..Len(r1.out) : r1.out[i].c = r.who
    BY <2>1, <2>2, LinesForFacts
  <2>4. r.camps = campaigns /\ reached[r.who] = {}
    BY <1>1, <1>3 DEF OneOK, QueuingOK
  <2>a. \A c \in Campaigns : CountOK(c, campaigns[c], FALSE, reached')
    BY <1>1, <1>2, <1>3 DEF OneOK, QueueOK, CountOK
  <2>5. QueuingOK(proc[w])'
    BY <1>2, <2>1, <2>3, <2>4, <2>a DEF QueuingOK, Settling
  <2>6. BatchOK(proc[w])' /\ CampsOK(proc[w])'
    BY <2>1 DEF BatchOK, CampsOK, Batching
  <2>7. QueueOK(proc[w])'
    BY <1>1, <1>2, <1>3, <2>a DEF OneOK, QueueOK
  <2>8. OneOK(proc[w])'
    BY <2>5, <2>6, <2>7 DEF OneOK
  <2> QED
    BY <1>1, <1>2, <2>8, OneIsAll
<1> QED
  BY <1>4, <1>5

\* A batch reads the campaigns as they are.
LEMMA CleanBatchRead ==
  ASSUME TypeInv, CleanInv, NEW w \in Workers, clean', Continue(w), BatchCampaigns(w)
  PROVE  CleanInv'
<1> DEFINE r == proc[w]
           r1 == proc'[w]
<1>1. Rest(w)' /\ twice = {} /\ OneOK(r)
  BY CleanContinue
<1>2. UNCHANGED <<queue, campaigns, lines, attempted, mailed, reached, twice>>
  BY DEF BatchCampaigns, files, history
<1>3. /\ r.pc = "readC" /\ r.cmd = "batch" /\ r1.pc = "send" /\ r1.cmd = "batch"
      /\ r1.camps = campaigns /\ r1.batch = r.batch /\ r1.out = r.out /\ r1.log = r.log
  BY BatchReadStep
<1>4. Batching(r) /\ Batching(r1)
  BY <1>3 DEF Batching
<1>5. BatchOK(proc[w])'
  BY <1>1, <1>2, <1>3, <1>4 DEF OneOK, BatchOK, Taken, CountOK, LoggedOk
<1>6. QueuingOK(proc[w])' /\ CampsOK(proc[w])' /\ QueueOK(proc[w])'
  BY <1>3, <1>4 DEF QueuingOK, CampsOK, QueueOK
<1>7. OneOK(proc[w])'
  BY <1>5, <1>6 DEF OneOK
<1> QED
  BY <1>1, <1>2, <1>7, OneIsAll

\* The lines of a batch, those it took and those it left.
LEMMA TakenLines ==
  ASSUME NEW r \in Process
  PROVE  /\ Taken(r) \in Seq(QueueLine) /\ Len(Taken(r)) = Len(r.batch) + Len(r.out)
         /\ Len(r.batch) \in Nat /\ Len(r.out) \in Nat
         /\ \A i \in 1..Len(r.batch) : i \in 1..Len(Taken(r)) /\ Taken(r)[i] = r.batch[i]
         /\ \A i \in 1..Len(r.out) : /\ Len(r.batch) + i \in 1..Len(Taken(r))
                                     /\ Taken(r)[Len(r.batch) + i] = r.out[i]
<1>1. r.batch \in Seq(QueueLine) /\ r.out \in Seq(QueueLine)
  BY DEF Process
<1> DEFINE a == r.batch
           b == r.out
<1>2. Taken(r) = a \o b
  BY DEF Taken
<1>3. a \in Seq(QueueLine) /\ b \in Seq(QueueLine) /\ Len(a) \in Nat /\ Len(b) \in Nat
  BY <1>1
<1> HIDE DEF a, b
<1>4. /\ a \o b \in Seq(QueueLine) /\ Len(a \o b) = Len(a) + Len(b)
      /\ \A i \in 1..Len(a) : i \in 1..Len(a \o b) /\ (a \o b)[i] = a[i]
      /\ \A i \in 1..Len(b) :
           Len(a) + i \in 1..Len(a \o b) /\ (a \o b)[Len(a) + i] = b[i]
  BY <1>3, JoinFacts
<1> QED
  BY <1>2, <1>3, <1>4, Zenon DEF a, b

\* One more line of the batch is tried: its address had not had the campaign, and
\* every other line is still to come.
LEMMA CleanSend ==
  ASSUME TypeInv, CleanInv, NEW w \in Workers, clean', Continue(w),
         sendNewsletterMessage(w)
  PROVE  CleanInv'
<1> DEFINE r == proc[w]
           r1 == proc'[w]
           q == Taken(r)
           n == Len(r.log) + 1
           x == r.batch[n]
<1>1. Rest(w)' /\ twice = {} /\ OneOK(r) /\ r \in Process
  BY CleanContinue
<1>2. UNCHANGED <<queue, campaigns, lines>>
  BY DEF sendNewsletterMessage, files
<1>3. /\ r.pc = "send" /\ r.cmd = "batch" /\ n \in 1..Len(r.batch) /\ x \in QueueLine
      /\ r1.pc \in {"openQ", "send"} /\ r1.cmd = "batch" /\ Len(r1.log) = n
      /\ r1.batch = r.batch /\ r1.out = r.out /\ r1.camps = r.camps
      /\ \A i \in 1..Len(r.log) : r1.log[i] = r.log[i]
      /\ attempted' = [attempted EXCEPT ![x.c] = @ \cup {x.s}]
      /\ reached' = IF r1.log[n] THEN [reached EXCEPT ![x.c] = @ \cup {x.s}] ELSE reached
      /\ \/ /\ mailed' = [mailed EXCEPT ![x.c] = @ \cup {x.s}]
            /\ twice' = IF x.s \in mailed[x.c] THEN twice \cup {x.c} ELSE twice
         \/ UNCHANGED <<mailed, twice>>
  BY SendStep
<1>4. Batching(r) /\ Batching(r1) /\ Taken(r1) = q
  BY <1>3 DEF Batching, Taken
<1>5. /\ Distinct(q) /\ Unsent(q, Len(r.log), mailed) /\ r.camps = campaigns
      /\ \A c \in Campaigns :
           /\ StatusOK(c, campaigns[c].status, q, Len(r.log), lines, attempted)
           /\ KnownOK(c, campaigns[c], q) /\ CountOK(c, campaigns[c], LoggedOk(r, c), reached)
  <2>1. BatchOK(r) /\ r.pc # "readC"
    BY <1>1, <1>3 DEF OneOK
  <2> HIDE DEF r
  <2> QED
    BY <1>4, <2>1 DEF BatchOK
<1>6. /\ q \in Seq(QueueLine) /\ n \in 1..Len(q) /\ q[n] = x
  BY <1>1, <1>3, TakenLines
<1>7. /\ attempted \in [Campaigns -> SUBSET People] /\ mailed \in [Campaigns -> SUBSET People]
      /\ reached \in [Campaigns -> SUBSET People]
      /\ x.c \in Campaigns /\ x.s \in People /\ Len(r.log) \in Nat
  <2>1. /\ attempted \in [Campaigns -> SUBSET People] /\ mailed \in [Campaigns -> SUBSET People]
        /\ reached \in [Campaigns -> SUBSET People]
    BY DEF TypeInv, TypeOK
  <2>2. x.c \in Campaigns /\ x.s \in People
    <3> HIDE DEF x
    <3> QED
      BY <1>3 DEF QueueLine
  <2>3. Len(r.log) \in Nat
    <3>1. r.log \in Seq(BOOLEAN)
      <4> HIDE DEF r
      <4> QED
        BY <1>1 DEF Process
    <3> QED
      BY <3>1, LenProperties
  <2> QED
    BY <2>1, <2>2, <2>3
<1> HIDE DEF q, x, r, r1
<1>8. x.s \notin mailed[x.c]
  BY <1>5, <1>6, <1>7 DEF Unsent
<1>9. twice' = {}
  BY <1>1, <1>3, <1>8
<1>10. Unsent(q, n, mailed')
  <2> SUFFICES ASSUME NEW i \in 1..Len(q), i > n PROVE q[i].s \notin mailed'[q[i].c]
    BY DEF Unsent
  <2>1. q[i].s \notin mailed[q[i].c] /\ ~(q[i].c = x.c /\ q[i].s = x.s)
    BY <1>5, <1>6, <1>7 DEF Unsent, Distinct
  <2>2. q[i] \in QueueLine
    BY <1>6
  <2>3. q[i].c \in Campaigns
    BY <2>2 DEF QueueLine
  <2> QED
    BY <1>3, <1>7, <2>1, <2>3
<1>11. \A c \in Campaigns : StatusOK(c, campaigns[c].status, q, n, lines, attempted')
  <2> SUFFICES ASSUME NEW c \in Campaigns
               PROVE  StatusOK(c, campaigns[c].status, q, n, lines, attempted')
    OBVIOUS
  <2>1. attempted[c] \subseteq attempted'[c] /\ x.s \in attempted'[x.c]
    BY <1>3, <1>7
  <2>2. ToTry(c, q, Len(r.log)) \subseteq attempted'[c] \cup ToTry(c, q, n)
    <3> SUFFICES ASSUME NEW s \in ToTry(c, q, Len(r.log)), s \notin ToTry(c, q, n)
                 PROVE  s \in attempted'[c]
      OBVIOUS
    <3>1. PICK i \in 1..Len(q) : i > Len(r.log) /\ q[i].c = c /\ q[i].s = s
      BY DEF ToTry
    <3>2. ~(i > n)
      BY <3>1 DEF ToTry
    <3>3. i = n
      BY <1>7, <3>1, <3>2
    <3> QED
      BY <1>6, <2>1, <3>1, <3>3
  <2> QED
    BY <1>5, <2>1, <2>2 DEF StatusOK
<1>a. \A c \in Campaigns : CountOK(c, campaigns[c], LoggedOk(r1, c), reached')
  <2> SUFFICES ASSUME NEW c \in Campaigns
               PROVE  CountOK(c, campaigns[c], LoggedOk(r1, c), reached')
    OBVIOUS
  <2>1. LoggedOk(r, c) => LoggedOk(r1, c)
    BY <1>3, <1>7 DEF LoggedOk
  <2>2. CASE reached'[c] = reached[c]
    BY <1>2, <1>5, <2>1, <2>2 DEF CountOK, r1
  <2>3. CASE reached'[c] # reached[c]
    <3>1. c = x.c /\ r1.log[n]
      BY <1>3, <1>7, <2>3
    <3>2. LoggedOk(r1, c)
      BY <1>3, <3>1 DEF LoggedOk, x
    <3>3. campaigns[c].status = "sending"
      BY <1>5, <1>6, <3>1 DEF KnownOK, Queued
    <3> QED
      BY <1>2, <3>2, <3>3 DEF CountOK, r1
  <2> QED
    BY <2>2, <2>3
<1>12. BatchOK(proc[w])'
  BY <1>2, <1>3, <1>4, <1>5, <1>10, <1>11, <1>a DEF BatchOK, r1
<1>13. QueuingOK(proc[w])' /\ CampsOK(proc[w])' /\ QueueOK(proc[w])'
  BY <1>3, <1>4 DEF QueuingOK, CampsOK, QueueOK, r1
<1>14. OneOK(proc[w])'
  BY <1>12, <1>13 DEF OneOK, r1
<1> QED
  BY <1>1, <1>9, <1>14, OneIsAll

\* The queue file holds a part of the lines, or none: they are in memory.
LEMMA CleanOpenBatch ==
  ASSUME TypeInv, CleanInv, NEW w \in Workers, clean', Continue(w), openQueue(w),
         proc[w].cmd = "batch"
  PROVE  CleanInv'
<1> DEFINE r == proc[w]
           r1 == proc'[w]
<1>1. Rest(w)' /\ twice = {} /\ OneOK(r)
  BY CleanContinue
<1>2. /\ UNCHANGED <<campaigns, lines, attempted, mailed, reached, twice>>
      /\ r.pc = "openQ"
  BY DEF openQueue
<1>3. /\ r1.pc = "fillQ" /\ SameHeld(r1, r) /\ r1.who = r.who
  BY OpenStep
<1>4. Batching(r) /\ Batching(r1) /\ Taken(r1) = Taken(r) /\ r1.cmd = "batch"
  BY <1>2, <1>3 DEF Batching, SameHeld, Taken
<1>5. \A c \in Campaigns : LoggedOk(r1, c) = LoggedOk(r, c)
  BY <1>3 DEF SameHeld, LoggedOk
<1>6. BatchOK(proc[w])'
  BY <1>1, <1>2, <1>3, <1>4, <1>5 DEF OneOK, BatchOK, SameHeld, CountOK
<1>7. QueuingOK(proc[w])' /\ CampsOK(proc[w])' /\ QueueOK(proc[w])'
  BY <1>3, <1>4 DEF QueuingOK, CampsOK, QueueOK
<1>8. OneOK(proc[w])'
  BY <1>6, <1>7 DEF OneOK
<1> QED
  BY <1>1, <1>2, <1>8, OneIsAll

\* Nothing else is in the queue then: the campaigns but k keep what they were
\* tried on, and are not queued.
LEMMA StatusWithout ==
  ASSUME NEW k, NEW c \in Campaigns, c # k, NEW status, NEW q, NEW q2, NEW n,
         NEW had, NEW want,
         \A i \in 1..Len(q2) : q2[i].c = k,
         StatusOK(c, status, q, n, want, had)
  PROVE  StatusOK(c, status, q2, 0, want, had)
BY DEF StatusOK, Queued

\* A campaign is being queued: it starts anew.
LEMMA CleanOpenNew ==
  ASSUME TypeInv, CleanInv, NEW w \in Workers, clean', Continue(w), openQueue(w),
         proc[w].cmd = "queue"
  PROVE  CleanInv'
<1> DEFINE r == proc[w]
           r1 == proc'[w]
           k == r.who
           new == {r.out[i].s : i \in 1..Len(r.out)}
<1>1. Rest(w)' /\ twice = {} /\ OneOK(r) /\ r \in Process /\ ProcOK(r)
  BY CleanContinue
<1>2. UNCHANGED <<campaigns, reached, twice>> /\ r.pc = "openQ"
  BY DEF openQueue
<1>3. /\ r1.pc = "fillQ" /\ r1.cmd = "queue" /\ r1.who = k /\ k \in Campaigns
      /\ r1.camps = r.camps /\ r1.out = r.out
  BY <1>1, OpenStep DEF SameHeld, ProcOK
<1>4. /\ lines' = [lines EXCEPT ![k] = new]
      /\ attempted' = [attempted EXCEPT ![k] = {}]
      /\ mailed' = [mailed EXCEPT ![k] = reached[k]]
  BY DEF openQueue
<1>5. /\ lines \in [Campaigns -> SUBSET People] /\ attempted \in [Campaigns -> SUBSET People]
      /\ mailed \in [Campaigns -> SUBSET People]
  BY DEF TypeInv, TypeOK
<1>6. /\ Distinct(r.out) /\ (\A i \in 1..Len(r.out) : r.out[i].c = k) /\ reached[k] = {}
      /\ \A c \in Campaigns \ {k} : r.camps[c] = campaigns[c] /\ CountOK(c, r.camps[c], FALSE, reached)
      /\ r.camps[k].status = "sending"
  BY <1>1, <1>2 DEF OneOK, QueuingOK
<1>7. /\ ~Batching(r) /\ ~Settling(r)
      /\ ~Batching(r1) /\ Settling(r1) /\ Owing(r1)
  BY <1>2, <1>3 DEF Batching, Settling, Owing
<1> HIDE DEF new
<1>8. /\ lines'[k] = new /\ mailed'[k] = {}
      /\ \A c \in Campaigns \ {k} : lines'[c] = lines[c] /\ attempted'[c] = attempted[c]
  BY <1>3, <1>4, <1>5, <1>6
<1>9. /\ Distinct(queue') /\ \A i \in 1..Len(queue') : queue'[i].c = k
  <2>1. r.out \in Seq(QueueLine)
    BY <1>1 DEF Process
  <2>2. PICK n \in 0..Len(r.out) : queue' = SubSeq(r.out, 1, n)
    BY DEF openQueue
  <2>3. /\ Len(queue') = n
        /\ \A i \in 1..n : i \in 1..Len(r.out) /\ queue'[i] = r.out[i]
    BY <2>1, <2>2, PrefixFacts
  <2> QED
    BY <1>6, <2>3 DEF Distinct
<1>10. Unsent(queue', 0, mailed')
  BY <1>8, <1>9 DEF Unsent
<1>11. \A c \in Campaigns \ {k} :
         StatusOK(c, campaigns[c].status, queue', 0, lines', attempted')
  <2> SUFFICES ASSUME NEW c \in Campaigns \ {k}
               PROVE  StatusOK(c, campaigns[c].status, queue', 0, lines', attempted')
    OBVIOUS
  <2>1. StatusOK(c, campaigns[c].status, queue, 0, lines, attempted)
    BY <1>1, <1>7 DEF OneOK, QueueOK
  <2>2. StatusOK(c, campaigns[c].status, queue, 0, lines', attempted')
    BY <1>8, <2>1 DEF StatusOK
  <2> QED
    BY <1>9, <2>2, StatusWithout
<1>12. QueueOK(proc[w])'
  BY <1>2, <1>3, <1>7, <1>9, <1>10, <1>11 DEF QueueOK
<1>13. \A c \in Campaigns \ {k} : CountOK(c, r.camps[c], FALSE, reached')
  BY <1>2, <1>3, <1>6 DEF CountOK
<1>14. QueuingOK(proc[w])'
  <2>1. lines'[k] = {r1.out[i].s : i \in 1..Len(r1.out)}
    BY <1>3, <1>8 DEF new
  <2>2. /\ reached'[r1.who] = {} /\ mailed'[r1.who] = {}
        /\ Distinct(r1.out) /\ \A i \in 1..Len(r1.out) : r1.out[i].c = r1.who
        /\ r1.camps[r1.who].status = "sending"
    BY <1>2, <1>3, <1>6, <1>8
  <2>3. \A c \in Campaigns \ {r1.who} :
          r1.camps[c] = campaigns'[c] /\ CountOK(c, r1.camps[c], FALSE, reached')
    BY <1>2, <1>3, <1>6, <1>13
  <2> QED
    BY <1>3, <2>1, <2>2, <2>3, Zenon DEF QueuingOK
<1>15. CampsOK(proc[w])' /\ BatchOK(proc[w])'
  BY <1>3, <1>7 DEF CampsOK, BatchOK
<1>16. OneOK(proc[w])'
  BY <1>12, <1>14, <1>15 DEF OneOK
<1> QED
  BY <1>1, <1>2, <1>16, OneIsAll

\* A campaign's lines are in the queue; its status is not in the file yet.
LEMMA CleanQueueWritten ==
  ASSUME TypeInv, CleanInv, NEW w \in Workers, clean', Continue(w), writeQueueLines(w),
         proc[w].cmd = "queue"
  PROVE  CleanInv'
<1> DEFINE r == proc[w]
           r1 == proc'[w]
           k == r.who
<1>1. Rest(w)' /\ twice = {} /\ OneOK(r) /\ r \in Process
  BY CleanContinue
<1>2. /\ UNCHANGED <<campaigns, lines, attempted, mailed, reached, twice>>
      /\ r.pc = "fillQ" /\ queue' = r.out
  BY DEF writeQueueLines, history
<1>3. /\ r1.pc = "openC" /\ r1.cmd = "queue" /\ r1.who = k /\ k \in Campaigns
      /\ r1.camps = r.camps
  BY WriteQueueStep
<1>5. /\ Distinct(r.out) /\ (\A i \in 1..Len(r.out) : r.out[i].c = k) /\ reached[k] = {}
      /\ \A c \in Campaigns \ {k} : r.camps[c] = campaigns[c] /\ CountOK(c, r.camps[c], FALSE, reached)
      /\ r.camps[k].status = "sending"
      /\ lines[k] = {r.out[i].s : i \in 1..Len(r.out)} /\ mailed[k] = {}
  BY <1>1, <1>2 DEF OneOK, QueuingOK
<1>6. /\ ~Batching(r) /\ ~Batching(r1) /\ Settling(r1) /\ Owing(r1)
  BY <1>2, <1>3 DEF Batching, Settling, Owing
<1>8. \A c \in Campaigns \ {k} :
        StatusOK(c, campaigns[c].status, queue', 0, lines', attempted')
  <2> SUFFICES ASSUME NEW c \in Campaigns \ {k}
               PROVE  StatusOK(c, campaigns[c].status, queue', 0, lines', attempted')
    OBVIOUS
  <2>1. StatusOK(c, campaigns[c].status, queue, 0, lines, attempted)
    BY <1>1, <1>6 DEF OneOK, QueueOK
  <2>2. \A i \in 1..Len(r.out) : r.out[i].c = k
    BY <1>5
  <2> QED
    BY <1>2, <2>1, <2>2, StatusWithout
<1>9. Unsent(queue', 0, mailed')
  BY <1>2, <1>5 DEF Unsent
<1>10. lines'[k] \subseteq ToTry(k, queue', 0)
  <2>1. ToTry(k, r.out, 0) = {r.out[i].s : i \in {j \in 1..Len(r.out) : j > 0 /\ r.out[j].c = k}}
    BY Zenon DEF ToTry
  <2>2. \A i \in 1..Len(r.out) : i > 0
    BY <1>1 DEF Process
  <2> QED
    BY <1>2, <1>5, <2>1, <2>2
<1>11. QueueOK(proc[w])'
  BY <1>2, <1>3, <1>5, <1>6, <1>8, <1>9 DEF QueueOK
<1>12. QueuingOK(proc[w])'
  BY <1>2, <1>3, <1>5, <1>10 DEF QueuingOK
<1>a. \A c \in Campaigns : KnownOK(c, r.camps[c], r.out) /\ CountOK(c, r.camps[c], FALSE, reached')
  <2> SUFFICES ASSUME NEW c \in Campaigns
               PROVE  KnownOK(c, r.camps[c], r.out) /\ CountOK(c, r.camps[c], FALSE, reached)
    BY <1>2
  <2>1. CASE c = k
    BY <1>5, <2>1 DEF KnownOK, CountOK
  <2>2. CASE c # k
    BY <1>5, <2>2 DEF KnownOK, Queued
  <2> QED
    BY <2>1, <2>2
<1>13. CampsOK(proc[w])'
  BY <1>2, <1>3, <1>5, <1>6, <1>8, <1>a DEF CampsOK
<1>14. BatchOK(proc[w])'
  BY <1>6 DEF BatchOK
<1>15. OneOK(proc[w])'
  BY <1>11, <1>12, <1>13, <1>14 DEF OneOK
<1> QED
  BY <1>1, <1>2, <1>15, OneIsAll

\* A batch has tried all it took and leaves the rest.
LEMMA CleanBatchWritten ==
  ASSUME TypeInv, CleanInv, NEW w \in Workers, clean', Continue(w), writeQueueLines(w),
         proc[w].cmd = "batch"
  PROVE  CleanInv'
<1> DEFINE r == proc[w]
           r1 == proc'[w]
           q == Taken(r)
           n == Len(r.batch)
<1>1. Rest(w)' /\ twice = {} /\ OneOK(r) /\ r \in Process
  BY CleanContinue
<1>2. /\ UNCHANGED <<campaigns, lines, attempted, mailed, reached, twice>>
      /\ r.pc = "fillQ" /\ queue' = r.out
  BY DEF writeQueueLines, history
<1>3. /\ r1.pc = "openC" /\ r1.cmd = "batch" /\ Len(r.log) = n
      /\ r1.camps = Settled(r)
  BY WriteQueueStep
<1>4. Batching(r) /\ ~Batching(r1) /\ Owing(r1)
  BY <1>2, <1>3 DEF Batching, Owing
<1>5. /\ Distinct(q) /\ Unsent(q, n, mailed) /\ r.camps = campaigns
      /\ \A c \in Campaigns :
           /\ StatusOK(c, campaigns[c].status, q, n, lines, attempted)
           /\ KnownOK(c, campaigns[c], q) /\ CountOK(c, campaigns[c], LoggedOk(r, c), reached)
  BY <1>1, <1>2, <1>3, <1>4 DEF OneOK, BatchOK
<1>6. /\ n \in Nat /\ Len(r.out) \in Nat /\ Len(q) = n + Len(r.out)
      /\ \A i \in 1..Len(r.out) : n + i \in 1..Len(q) /\ q[n + i] = r.out[i]
      /\ \A i \in 1..n : i \in 1..Len(q) /\ q[i] = r.batch[i]
  BY <1>1, TakenLines
<1> HIDE DEF q
<1> HIDE DEF n
<1>7. Distinct(r.out)
  <2> SUFFICES ASSUME NEW i \in 1..Len(r.out), NEW j \in 1..Len(r.out),
                      r.out[i].c = r.out[j].c, r.out[i].s = r.out[j].s
               PROVE  i = j
    BY DEF Distinct
  <2>1. /\ n + i \in 1..Len(q) /\ q[n + i] = r.out[i]
        /\ n + j \in 1..Len(q) /\ q[n + j] = r.out[j]
    BY <1>6
  <2>2. n + i = n + j
    BY <1>5, <2>1 DEF Distinct
  <2> QED
    BY <1>6, <2>2
<1>8. Unsent(r.out, 0, mailed)
  <2> SUFFICES ASSUME NEW i \in 1..Len(r.out)
               PROVE  r.out[i].s \notin mailed[r.out[i].c]
    BY DEF Unsent
  <2>1. n + i \in 1..Len(q) /\ q[n + i] = r.out[i] /\ n + i > n
    BY <1>6
  <2> QED
    BY <1>5, <2>1 DEF Unsent
<1>9. \A c \in Campaigns : ToTry(c, q, n) \subseteq ToTry(c, r.out, 0)
  <2> SUFFICES ASSUME NEW c \in Campaigns, NEW s \in ToTry(c, q, n)
               PROVE  s \in ToTry(c, r.out, 0)
    OBVIOUS
  <2>1. PICK i \in 1..Len(q) : i > n /\ q[i].c = c /\ q[i].s = s
    BY DEF ToTry
  <2>2. PICK j \in 1..Len(r.out) : i = n + j
    <3> DEFINE j == i - n
    <3>1. j \in 1..Len(r.out) /\ i = n + j
      BY <1>6, <2>1
    <3> HIDE DEF j
    <3> QED
      BY <3>1
  <2>3. q[n + j] = r.out[j] /\ j > 0
    BY <1>6
  <2>4. r.out[j].c = c /\ r.out[j].s = s
    BY <2>1, <2>2, <2>3
  <2> QED
    BY <2>3, <2>4 DEF ToTry
<1>10. \A c \in Campaigns : /\ Queued(c, r.out) => Queued(c, q)
                            /\ Queued(c, r.batch) => Queued(c, q)
                            /\ ~Queued(c, r.out) => ToTry(c, r.out, 0) = {}
  <2> SUFFICES ASSUME NEW c \in Campaigns
               PROVE  /\ Queued(c, r.out) => Queued(c, q)
                      /\ Queued(c, r.batch) => Queued(c, q)
                      /\ ~Queued(c, r.out) => ToTry(c, r.out, 0) = {}
    OBVIOUS
  <2>1. Queued(c, r.out) => Queued(c, q)
    BY <1>6 DEF Queued
  <2>2. Queued(c, r.batch) => Queued(c, q)
    BY <1>6 DEF Queued, n
  <2>3. ~Queued(c, r.out) => ToTry(c, r.out, 0) = {}
    BY DEF Queued, ToTry
  <2> QED
    BY <2>1, <2>2, <2>3
<1>11. \A c \in Campaigns : StatusOK(c, campaigns[c].status, r.out, 0, lines, attempted)
  BY <1>5, <1>9, <1>10 DEF StatusOK
<1>12. \A c \in Campaigns : StatusOK(c, r1.camps[c].status, r.out, 0, lines, attempted)
  <2> SUFFICES ASSUME NEW c \in Campaigns
               PROVE  StatusOK(c, Settled(r)[c].status, r.out, 0, lines, attempted)
    BY <1>3
  <2>1. \/ Settled(r)[c].status = campaigns[c].status
        \/ /\ campaigns[c].status = "sending" /\ Settled(r)[c].status \in {"sent", "failed"}
           /\ Queued(c, r.batch) /\ ~Queued(c, r.out)
    BY <1>1, <1>5, SettledFacts
  <2>2. CASE Settled(r)[c].status = campaigns[c].status
    BY <1>11, <2>2
  <2>3. CASE Settled(r)[c].status # campaigns[c].status
    <3>1. lines[c] \subseteq attempted[c] \cup ToTry(c, q, n)
      BY <1>5, <1>10, <2>1, <2>3 DEF StatusOK
    <3>2. ToTry(c, q, n) = {}
      BY <1>9, <1>10, <2>1, <2>3
    <3> QED
      BY <2>1, <2>3, <3>1, <3>2 DEF StatusOK
  <2> QED
    BY <2>2, <2>3
<1>13. QueueOK(proc[w])'
  BY <1>2, <1>3, <1>4, <1>7, <1>8, <1>11 DEF QueueOK
<1>a. \A c \in Campaigns : /\ KnownOK(c, Settled(r)[c], r.out)
                            /\ CountOK(c, Settled(r)[c], FALSE, reached')
  <2> SUFFICES ASSUME NEW c \in Campaigns
               PROVE  KnownOK(c, Settled(r)[c], r.out) /\ CountOK(c, Settled(r)[c], FALSE, reached')
    OBVIOUS
  <2> DEFINE was == campaigns[c]
             is == Settled(r)[c]
  <2>1. /\ \/ is.status = was.status
           \/ /\ was.status = "sending" /\ is.status \in {"sent", "failed"}
              /\ ~Queued(c, r.out)
        /\ was.ok \/ SentOne(r, c) => is.ok \/ was.status = "absent"
        /\ is.status = "failed" => was.status = "failed" \/ ~is.ok
    BY <1>1, <1>5, SettledFacts
  <2>2. LoggedOk(r, c) => SentOne(r, c)
    BY <1>3 DEF LoggedOk, SentOne, n
  <2>3. KnownOK(c, was, q) /\ CountOK(c, was, LoggedOk(r, c), reached)
    BY <1>5
  <2>4. KnownOK(c, is, r.out)
    BY <1>10, <2>1, <2>3 DEF KnownOK
  <2> HIDE DEF was, is
  <2>5. CountOK(c, is, FALSE, reached)
    BY <2>1, <2>2, <2>3 DEF CountOK
  <2> QED
    BY <1>2, <2>4, <2>5 DEF is
<1>14. CampsOK(proc[w])'
  BY <1>2, <1>3, <1>12, <1>a DEF CampsOK
<1>15. BatchOK(proc[w])' /\ QueuingOK(proc[w])'
  BY <1>3, <1>4 DEF BatchOK, QueuingOK
<1>16. OneOK(proc[w])'
  BY <1>13, <1>14, <1>15 DEF OneOK
<1> QED
  BY <1>1, <1>2, <1>16, OneIsAll

\* The campaigns file is empty for a moment, then it says what the helper held.
LEMMA CleanCampaigns ==
  ASSUME TypeInv, CleanInv, NEW w \in Workers, clean', Continue(w),
         openCampaigns(w) \/ writeCampaigns(w)
  PROVE  CleanInv'
<1> DEFINE r == proc[w]
           r1 == proc'[w]
<1>1. Rest(w)' /\ twice = {} /\ OneOK(r) /\ ProcOK(r)
  BY CleanContinue
<1>2. /\ UNCHANGED <<queue, lines, attempted, mailed, reached, twice>>
      /\ r.pc \in {"openC", "fillC"}
  BY DEF openCampaigns, writeCampaigns, history
<1>3. ~Batching(r)
  BY <1>2 DEF Batching
<1>4. Distinct(queue) /\ Unsent(queue, 0, mailed)
  BY <1>1, <1>3 DEF OneOK, QueueOK
<1>5. CASE openCampaigns(w)
  <2>1. r1.pc = "fillC" /\ SameHeld(r1, r) /\ r1.who = r.who
    BY <1>5, OpenStep
  <2>2. \A c \in Campaigns : campaigns'[c].status = "absent"
    BY <1>5 DEF openCampaigns, NoCampaigns, NoCampaign
  <2>3. QueueOK(proc[w])'
    BY <1>2, <1>4, <2>1, <2>2 DEF QueueOK, StatusOK, Owing
  <2>4. CampsOK(proc[w])'
    BY <1>1, <1>2, <2>1 DEF OneOK, CampsOK, SameHeld, Settling, CountOK
  <2>5. QueuingOK(proc[w])'
    BY <1>1, <1>2, <2>1 DEF OneOK, QueuingOK, SameHeld, Settling
  <2>6. BatchOK(proc[w])'
    BY <2>1 DEF BatchOK, Batching
  <2>7. OneOK(proc[w])'
    BY <2>3, <2>4, <2>5, <2>6 DEF OneOK
  <2> QED
    BY <1>1, <1>2, <2>7, OneIsAll
<1>6. CASE writeCampaigns(w)
  <2>1. r1 = Idle /\ campaigns' = r.camps
    BY <1>6, EndStep DEF writeCampaigns
  <2>2. \A c \in Campaigns : StatusOK(c, r.camps[c].status, queue, 0, lines, attempted)
    <3> SUFFICES ASSUME NEW c \in Campaigns, Settling(r), r.who = c
                 PROVE  StatusOK(c, r.camps[c].status, queue, 0, lines, attempted)
      BY <1>1, <1>2 DEF OneOK, CampsOK
    <3>1. r.camps[c].status = "sending" /\ lines[c] \subseteq ToTry(c, queue, 0)
      BY <1>1, <1>2 DEF OneOK, QueuingOK, Settling
    <3> QED
      BY <3>1 DEF StatusOK
  <2>a. \A c \in Campaigns : KnownOK(c, r.camps[c], queue) /\ CountOK(c, r.camps[c], FALSE, reached')
    BY <1>1, <1>2 DEF OneOK, CampsOK, CountOK
  <2>3. QueueOK(proc[w])'
    BY <1>2, <1>4, <2>1, <2>2, <2>a DEF QueueOK
  <2>4. BatchOK(proc[w])' /\ QueuingOK(proc[w])' /\ CampsOK(proc[w])'
    BY <2>1, IdleFacts DEF BatchOK, QueuingOK, CampsOK, Batching
  <2>5. OneOK(proc[w])'
    BY <2>3, <2>4 DEF OneOK
  <2> QED
    BY <1>1, <1>2, <2>5, OneIsAll
<1> QED
  BY <1>5, <1>6

\* Every step keeps it, or is a disturbance.
LEMMA NextClean == TypeInv /\ CleanInv /\ [Next]_vars => CleanInv'
<1> SUFFICES ASSUME TypeInv, CleanInv, [Next]_vars PROVE CleanInv'
  OBVIOUS
<1>1. ASSUME NEW w \in Workers \ {Cron}, Request(w) PROVE CleanInv'
  BY <1>1, RequestStarts, CleanStart
<1>2. CASE BatchStart(Cron) /\ UNCHANGED requests
  BY <1>2, CronAssumption, BatchStarts, CleanStart
<1>3. ASSUME NEW w \in Workers, Continue(w) PROVE CleanInv'
  <2> SUFFICES ASSUME clean' PROVE CleanInv'
    BY DEF CleanInv
  <2>1. CASE sendConfirmEmail(w) \/ openSubscribers(w) \/ writeSubscribers(w)
    BY <1>3, <2>1, CleanSubs
  <2>2. CASE newsletterCampaignQueue(w)
    BY <1>3, <2>2, CleanQueueRead
  <2>3. CASE BatchCampaigns(w)
    BY <1>3, <2>3, CleanBatchRead
  <2>4. CASE sendNewsletterMessage(w)
    BY <1>3, <2>4, CleanSend
  <2>5. CASE openQueue(w)
    <3>1. proc[w].cmd = "queue" \/ proc[w].cmd = "batch"
      BY <2>5 DEF openQueue, TypeInv, ProcInv, ProcOK
    <3> QED
      BY <1>3, <2>5, <3>1, CleanOpenBatch, CleanOpenNew
  <2>6. CASE writeQueueLines(w)
    <3>1. proc[w].cmd = "queue" \/ proc[w].cmd = "batch"
      BY <2>6 DEF writeQueueLines, TypeInv, ProcInv, ProcOK
    <3> QED
      BY <1>3, <2>6, <3>1, CleanQueueWritten, CleanBatchWritten
  <2>7. CASE openCampaigns(w) \/ writeCampaigns(w)
    BY <1>3, <2>7, CleanCampaigns
  <2> QED
    BY <1>3, <2>1, <2>2, <2>3, <2>4, <2>5, <2>6, <2>7 DEF Continue
<1>4. ASSUME NEW w \in Workers, Kill(w) PROVE CleanInv'
  BY <1>4 DEF Kill, CleanInv
<1>5. CASE UNCHANGED vars
  BY <1>5 DEF vars, files, history, CleanInv, Alone, Working, HelperInv, QueueInv,
              BatchOK, QueuingOK, CampsOK, CountOK
<1> QED
  BY <1>1, <1>2, <1>3, <1>4, <1>5 DEF Next

\* Nothing has been queued at the start.
LEMMA InitClean == Init => CleanInv
<1> SUFFICES ASSUME Init PROVE CleanInv
  OBVIOUS
<1>1. \A w \in Workers : proc[w] = Idle
  BY DEF Init
<1>2. Alone /\ HelperInv
  BY <1>1, IdleFacts, IdleOK DEF Alone, Working, HelperInv
<1>3. Distinct(queue) /\ Unsent(queue, 0, mailed)
  BY DEF Init, Distinct, Unsent
<1>4. \A c \in Campaigns : StatusOK(c, campaigns[c].status, queue, 0, lines, attempted)
  BY DEF Init, StatusOK, Queued, Draft, NoCampaign
<1>a. \A c \in Campaigns : KnownOK(c, campaigns[c], queue) /\ CountOK(c, campaigns[c], FALSE, reached)
  BY DEF Init, KnownOK, CountOK, Queued
<1>5. QueueInv
  BY <1>3, <1>4, <1>a DEF QueueInv
<1> QED
  BY <1>2, <1>5 DEF CleanInv, Init

-----------------------------------------------------------------------------
(* The theorems *)

\* The inductive invariant holds in every state the newsletter reaches.
THEOREM InductiveInvariant == Spec => []NInv
<1>1. Init => NInv
  BY InitTypeInv, InitConfirmed, InitClean DEF NInv
<1>2. NInv /\ [Next]_vars => NInv'
  BY NextTypeInv, NextConfirmed, NextClean DEF NInv
<1> QED
  BY <1>1, <1>2, PTL DEF Spec

\* Files, helpers and histories keep their types.
THEOREM TypeCorrect == Spec => []TypeOK
<1>1. NInv => TypeOK
  BY DEF NInv, TypeInv
<1> QED
  BY <1>1, InductiveInvariant, PTL

\* Double opt-in: however helpers overlap, whichever of them die and whatever old
\* copies they write back, a newsletter only goes to an address that confirmed it.
THEOREM OnlyConfirmed == Spec => []OnlyConfirmedMailed
<1>1. NInv => OnlyConfirmedMailed
  BY DEF NInv, ConfirmedInv
<1> QED
  BY <1>1, InductiveInvariant, PTL

\* Without an overlap and without a kill no address gets a campaign twice in one
\* queueing, and none gets it again that it was counted as sent to, however often
\* the campaign is edited and queued: one that is counted as sent to anybody never
\* ends "failed", the only end from which it can be queued again.  (A message that
\* arrived though its sendmail was given up is not counted.)
THEOREM DuplicatesAreExplained == Spec => []DuplicatesExplained
<1>1. NInv => DuplicatesExplained
  BY DEF NInv, CleanInv, DuplicatesExplained
<1> QED
  BY <1>1, InductiveInvariant, PTL

\* Without an overlap and without a kill, a campaign that the file calls sent or
\* failed has been tried on every address it was queued for.
THEOREM FinishedAreAttempted == Spec => []FinishedMeansAttempted
<1>1. NInv => FinishedMeansAttempted
  <2> SUFFICES ASSUME NInv, NEW c \in Campaigns, clean,
                      campaigns[c].status \in {"sent", "failed"},
                      \A w \in Workers : proc[w].cmd = "queue" => proc[w].who # c
               PROVE  lines[c] \subseteq attempted[c]
    BY DEF FinishedMeansAttempted
  <2>1. HelperInv /\ QueueInv
    BY DEF NInv, CleanInv
  <2>2. CASE \A w \in Workers : ~Batching(proc[w])
    BY <2>1, <2>2 DEF QueueInv, Settling, StatusOK
  <2>3. CASE \E w \in Workers : Batching(proc[w])
    BY <2>1, <2>3 DEF HelperInv, BatchOK, StatusOK
  <2> QED
    BY <2>2, <2>3
<1> QED
  BY <1>1, InductiveInvariant, PTL

=============================================================================
