------------------------- MODULE AcapyMailboxProofs -------------------------
(***************************************************************************)
(* The backchannel implements the mailbox: every step of AcapyBackchannel  *)
(* is a step of Mailbox or leaves the mailbox alone.  The liveness half of *)
(* MailboxSpec is left to TLC.                                             *)
(***************************************************************************)
EXTENDS AcapyBackchannelProofs

\* A pair without a list in the dictionary has nothing waiting, so that a poll
\* that finds no list may answer {} like one that finds an empty list.
NoListNoWebhook == \A b \in Boxes : store.list[b] # <<>> => b \in store.has

MailInv == TypeInv /\ NoListNoWebhook

MB == Mbox!MNext \/ UNCHANGED Mbox!mboxVars

----------------------------------------------------------------------------
(* What the store operations do to the lists.                              *)

NoGhost(st) == \A b \in Boxes : st.list[b] # <<>> => b \in st.has

\* su is st with m filed in box b.
FiledIn(su, st, b, m) ==
  /\ su \in Stores /\ DOMAIN su.list = Boxes
  /\ \A c \in Boxes \ {b} : su.list[c] = st.list[c]
  /\ su.list[b] = Append(st.list[b], m)
  /\ NoGhost(su)

\* push_resource files one webhook and creates the list that holds it.
LEMMA PushFiles ==
  ASSUME NEW st \in Stores, NEW id \in DataIds, NEW type \in DataTypes,
         NEW m \in Messages, NoGhost(st)
  PROVE  FiledIn(push_resource(st, id, type, m), st, <<id, type>>, m)
<1> DEFINE su == push_resource(st, id, type, m)
           b  == <<id, type>>
<1>1. Appended(su.list, st.list, b, m)
  BY PushAppends
<1>2. su.has = st.has \cup {b}
  BY DEF push_resource
<1>3. su \in Stores
  BY PushStore
<1> HIDE DEF su, b
<1>4. FiledIn(su, st, b, m)
  BY <1>1, <1>2, <1>3 DEF Appended, Stores, FiledIn, NoGhost
<1> QED
  BY <1>4 DEF su, b

\* The receiving half of Mailbox, from its effect on the lists.
LEMMA Delivers ==
  ASSUME NEW m \in Messages, DOMAIN store'.list = Boxes,
         store'.list \in [Boxes -> Seq(Messages)],
         \A b \in Boxes : store'.list[b] \in {store.list[b], Append(store.list[b], m)},
         UNCHANGED requestVars
  PROVE  Mbox!Deliver
<1>1. Mbox!MBoxes = Boxes
  BY DEF Mbox!MBoxes, Boxes
<1>2. store'.list = [b \in Boxes |-> store'.list[b]]
  OBVIOUS
<1>3. KeyedPoll' = KeyedPoll /\ UNCHANGED <<box, resp>>
  BY DEF KeyedPoll, requestVars
<1> QED
  BY <1>1, <1>2, <1>3 DEF Mbox!Deliver

\* Receiving a webhook delivers it, to one box or two.
LEMMA ReceiveDelivers ==
  ASSUME MailInv, NEW m \in inflight, ReceiveRecord(m)
  PROVE  NoListNoWebhook' /\ MB
<1> DEFINE x    == m.ex
           type == TypeOf(Protocol[m.ex])
           rev  == "revocation-registry-msg"
           st   == push_resource(store, x, type, m)
           su   == push_resource(st, x, rev, m)
<1>1. /\ m \in Messages /\ x \in Exchanges /\ x \in DataIds /\ store \in Stores
      /\ rev \in DataTypes /\ NoGhost(store)
  BY DEF MailInv, NoListNoWebhook, NoGhost, TypeInv, TypeOK, Messages, DataIds, DataTypes
<1>2. type \in DataTypes /\ <<x, type>> \in Boxes /\ <<x, rev>> \in Boxes
  BY <1>1, ConstantsAssumption DEF TypeOf, DataTypes, Protocols, Boxes
<1>3. CarriesRevocation(m) => type # rev
  BY DEF CarriesRevocation, TypeOf
<1>4. store' \in {store, st} \/ (store' = su /\ type # rev)
  BY <1>3 DEF ReceiveRecord, Filed
<1>5. UNCHANGED requestVars
  BY DEF ReceiveRecord
<1> HIDE DEF x, type, rev
<1>6. FiledIn(st, store, <<x, type>>, m)
  BY <1>1, <1>2, PushFiles
<1>7. st \in Stores /\ NoGhost(st)
  BY <1>6 DEF FiledIn
<1> HIDE DEF st
<1>8. FiledIn(su, st, <<x, rev>>, m)
  BY <1>1, <1>7, PushFiles
<1> HIDE DEF su
<1>9. NoListNoWebhook'
  BY <1>1, <1>4, <1>6, <1>8 DEF NoListNoWebhook, FiledIn, NoGhost
<1>10. ASSUME store' = store PROVE MB
  BY <1>5, <1>10 DEF MB, Mbox!mboxVars, KeyedPoll, requestVars
<1>11. ASSUME store' # store PROVE MB
  <2>1. \A b \in Boxes : store'.list[b] \in {store.list[b], Append(store.list[b], m)}
    BY <1>2, <1>4, <1>6, <1>8, <1>11 DEF FiledIn
  <2>2. store' \in Stores /\ DOMAIN store'.list = Boxes
    BY <1>4, <1>6, <1>8, <1>11 DEF FiledIn
  <2>3. Mbox!Deliver
    BY <1>1, <1>5, <2>1, <2>2, Delivers DEF Stores
  <2> QED
    BY <2>3 DEF MB, Mbox!MNext
<1> QED
  BY <1>9, <1>10, <1>11

\* An anoncreds handler delivers the webhook it finishes with.
LEMMA FinishDelivers ==
  ASSUME MailInv, NEW f \in fetching, FinishAnoncreds(f)
  PROVE  NoListNoWebhook' /\ MB
<1> DEFINE x   == f.thread
           rev == "revocation-registry-msg"
           st  == push_resource(store, x, rev, f.msg)
<1>1. /\ f.msg \in Messages /\ x \in DataIds /\ store \in Stores
      /\ rev \in DataTypes /\ NoGhost(store)
  BY DEF MailInv, NoListNoWebhook, NoGhost, TypeInv, TypeOK, DataTypes
<1>2. store' \in {store, st} /\ UNCHANGED requestVars
  BY DEF FinishAnoncreds
<1> HIDE DEF x, rev
<1>3. FiledIn(st, store, <<x, rev>>, f.msg)
  BY <1>1, PushFiles
<1> HIDE DEF st
<1>4. NoListNoWebhook'
  BY <1>1, <1>2, <1>3 DEF NoListNoWebhook, FiledIn, NoGhost
<1>5. ASSUME store' = store PROVE MB
  BY <1>2, <1>5 DEF MB, Mbox!mboxVars, KeyedPoll, requestVars
<1>6. ASSUME store' = st PROVE MB
  <2>1. \A b \in Boxes : store'.list[b] \in {store.list[b], Append(store.list[b], f.msg)}
    BY <1>3, <1>6 DEF FiledIn
  <2>2. Mbox!Deliver
    BY <1>1, <1>2, <1>3, <1>6, <2>1, Delivers DEF Stores, FiledIn
  <2> QED
    BY <2>2 DEF MB, Mbox!MNext
<1> QED
  BY <1>2, <1>4, <1>5, <1>6

----------------------------------------------------------------------------
(* The requests of the harness.                                            *)

\* Nothing of the mailbox changes.
LEMMA Stutters ==
  ASSUME UNCHANGED <<store, box, resp>>, KeyedPoll' = KeyedPoll
  PROVE  MB
BY DEF MB, Mbox!mboxVars

\* A request that is no poll begins or ends without a webhook.
LEMMA OtherRequests ==
  ASSUME ~KeyedPoll, ~KeyedPoll', UNCHANGED store, resp'.msg = Nothing
  PROVE  MB
<1>1. Mbox!OtherRequest
  BY DEF Mbox!OtherRequest
<1> QED
  BY <1>1 DEF MB, Mbox!MNext

\* A look of a poll answers with the head of its box, or with nothing, or goes on.
LEMMA KeyedPolls ==
  ASSUME MailInv, BeginPoll \/ WakePoll
  PROVE  NoListNoWebhook' /\ MB
<1>1. /\ KeyedPoll /\ box \in Boxes /\ box \in Mbox!MBoxes
      /\ store \in Stores /\ DOMAIN store.list = Boxes
  BY DEF BeginPoll, WakePoll, KeyedPoll, MailInv, TypeInv, TypeOK, PollHasBox, Stores,
         Mbox!MBoxes, Boxes
<1>2. ASSUME TakeHead(box) PROVE NoListNoWebhook' /\ MB
  <2>1. /\ store.list[box] # <<>> /\ box \in store.has
        /\ store'.list = [store.list EXCEPT ![box] = Tail(@)] /\ store'.has = store.has
        /\ resp'.msg = Head(store.list[box]) /\ ~KeyedPoll'
    BY <1>1, <1>2, PopStore
       DEF TakeHead, CanPop, PoppedHead, pop_resource, Respond, KeyedPoll, Stores
  <2>2. Mbox!AnswerOldest(box)
    BY <1>1, <2>1 DEF Mbox!AnswerOldest
  <2>3. NoListNoWebhook'
    BY <1>1, <2>1 DEF MailInv, NoListNoWebhook
  <2> QED
    BY <1>1, <2>2, <2>3 DEF MB, Mbox!MNext, Mbox!Answer
<1>3. ASSUME NEW t, ~CanPop(store, box), FindNothing("polling", t)
      PROVE  NoListNoWebhook' /\ MB
  <2>1. UNCHANGED store /\ NoListNoWebhook'
    BY <1>3 DEF FindNothing, webhookVars, MailInv, NoListNoWebhook
  <2>2. ASSUME Suspend("polling", t) PROVE MB
    BY <1>1, <2>1, <2>2, Stutters DEF Suspend, KeyedPoll
  <2>3. ASSUME Respond(Response("empty")) PROVE MB
    <3>1. store.list[box] = <<>>
      BY <1>1, <1>3 DEF CanPop, MailInv, NoListNoWebhook
    <3>2. Mbox!AnswerEmpty(box)
      BY <1>1, <2>1, <2>3, <3>1 DEF Mbox!AnswerEmpty, Respond, Response, KeyedPoll
    <3> QED
      BY <1>1, <3>2 DEF MB, Mbox!MNext, Mbox!Answer
  <2> QED
    BY <1>3, <2>1, <2>2, <2>3 DEF FindNothing
<1> QED
  BY <1>2, <1>3 DEF BeginPoll, WakePoll

\* A look of the implicit path withdraws the newest webhook of a box.
LEMMA ImplicitPolls ==
  ASSUME MailInv, NEW type \in {"didexchange-msg", "connection-msg"}, NEW t,
         TakeLatest(type, t), ~KeyedPoll
  PROVE  NoListNoWebhook' /\ MB
<1> DEFINE b == LatestBox(store, type)
<1>1. store \in Stores /\ DOMAIN store.list = Boxes /\ type \in DataTypes
  BY DEF MailInv, TypeInv, TypeOK, Stores, DataTypes
<1>2. CASE /\ ~LatestRaises(store) /\ CanPop(store, b)
           /\ store' = pop_resource_latest(store, b)
           /\ Respond([kind |-> "message", msg |-> PoppedTail(store, b)])
  <2>1. b \in Boxes /\ b[2] = type
    BY <1>1, <1>2, PopLatestStore DEF LatestBox
  <2>2. /\ store.list[b] # <<>> /\ b \in store.has
        /\ store'.list = [store.list EXCEPT ![b] = SubSeq(@, 1, Len(@) - 1)]
        /\ store'.has = store.has
        /\ resp'.msg = store.list[b][Len(store.list[b])] /\ ~KeyedPoll'
    BY <1>1, <1>2, PopLatestStore
       DEF CanPop, PoppedTail, pop_resource_latest, Respond, KeyedPoll, Stores
  <2> HIDE DEF b
  <2>3. Mbox!WithdrawNewest(b)
    BY <2>1, <2>2 DEF Mbox!WithdrawNewest
  <2>4. NoListNoWebhook'
    BY <1>1, <2>1, <2>2 DEF MailInv, NoListNoWebhook
  <2> QED
    BY <2>1, <2>3, <2>4 DEF MB, Mbox!MNext, Mbox!MBoxes, Boxes
<1>3. CASE /\ UNCHANGED webhookVars
           /\ Suspend("implicit-next", t) \/ Respond(Response("empty"))
                \/ Respond(Response("index-error"))
  <2>1. UNCHANGED store /\ NoListNoWebhook'
    BY <1>3 DEF webhookVars, MailInv, NoListNoWebhook
  <2>2. ASSUME Suspend("implicit-next", t) PROVE MB
    BY <2>1, <2>2, Stutters DEF Suspend, KeyedPoll
  <2>3. ASSUME Respond(Response("empty")) \/ Respond(Response("index-error")) PROVE MB
    BY <2>1, <2>3, OtherRequests DEF Respond, Response, KeyedPoll
  <2> QED
    BY <1>3, <2>1, <2>2, <2>3
<1> QED
  BY <1>2, <1>3 DEF TakeLatest, FindNothing

\* The other operations are other requests, or invisible.
LEMMA Posts ==
  ASSUME BeginPost \/ WakeSwap \/ CheckState \/ SendPost
  PROVE  MB
<1>1. UNCHANGED store /\ ~KeyedPoll
  BY DEF BeginPost, WakeSwap, CheckState, SendPost, SwapLook, KeyedPoll, webhookVars
<1>2. ASSUME NEW k, Respond(Response(k)) PROVE MB
  BY <1>1, <1>2, OtherRequests DEF Respond, Response, KeyedPoll
<1>3. ASSUME NEW p \in {"swapping", "settling", "checking"}, NEW t, Suspend(p, t) PROVE MB
  BY <1>1, <1>3, Stutters DEF Suspend, KeyedPoll
<1>4. ASSUME NEW x, Proceed(x) PROVE MB
  BY <1>1, <1>4, Stutters DEF Proceed, KeyedPoll
<1>5. ASSUME NEW t, SwapLook(t) PROVE MB
  BY <1>2, <1>3, <1>4, <1>5 DEF SwapLook
<1> QED
  BY <1>2, <1>3, <1>4, <1>5 DEF BeginPost, WakeSwap, CheckState, SendPost

\* Every step of the backchannel is a step of the mailbox or a stutter.
LEMMA StepMailbox == MailInv /\ [Next]_vars => MailInv' /\ MB
<1> SUFFICES ASSUME MailInv, [Next]_vars PROVE NoListNoWebhook' /\ MB
  BY StepTypes DEF MailInv
<1>1. CASE UNCHANGED <<store, requestVars>>
  BY <1>1, Stutters DEF MailInv, NoListNoWebhook, KeyedPoll, requestVars
<1>2. ASSUME NEW topic \in ResponseTopics, NEW x \in Exchanges, RequestPoll(topic, x)
      PROVE  NoListNoWebhook' /\ MB
  <2>1. /\ <<x, ResponseType(topic)>> \in Mbox!MBoxes
        /\ UNCHANGED store /\ ~KeyedPoll /\ KeyedPoll' /\ resp'.msg = Nothing
        /\ box' = <<x, ResponseType(topic)>>
    BY <1>2 DEF RequestPoll, Accept, webhookVars, KeyedPoll, Response, Mbox!MBoxes, DataIds,
                ResponseType, DataTypes, ResponseTopics
  <2>2. Mbox!Ask(<<x, ResponseType(topic)>>)
    BY <2>1 DEF Mbox!Ask
  <2> QED
    BY <2>1, <2>2 DEF MB, Mbox!MNext, MailInv, NoListNoWebhook
<1>3. ASSUME RequestImplicit \/ \E o \in Ops, x \in Exchanges : RequestPost(o, x)
      PROVE  NoListNoWebhook' /\ MB
  <2>1. UNCHANGED store /\ ~KeyedPoll /\ ~KeyedPoll' /\ resp'.msg = Nothing
    BY <1>3 DEF RequestImplicit, RequestPost, Accept, webhookVars, KeyedPoll, Response
  <2> QED
    BY <2>1, OtherRequests DEF MailInv, NoListNoWebhook
<1>4. ASSUME BeginImplicit PROVE NoListNoWebhook' /\ MB
  BY <1>4, Stutters DEF BeginImplicit, Suspend, KeyedPoll, webhookVars, MailInv, NoListNoWebhook
<1>5. ASSUME WakeImplicitFirst \/ WakeImplicitNext PROVE NoListNoWebhook' /\ MB
  BY <1>5, ImplicitPolls DEF WakeImplicitFirst, WakeImplicitNext, KeyedPoll
<1>6. ASSUME BeginPost \/ WakeSwap \/ CheckState \/ SendPost PROVE NoListNoWebhook' /\ MB
  <2>1. UNCHANGED store
    BY <1>6 DEF BeginPost, WakeSwap, CheckState, SendPost, SwapLook, webhookVars
  <2> QED
    BY <1>6, <2>1, Posts DEF MailInv, NoListNoWebhook
<1>7. Agent \/ (\E m \in inflight : ReceiveAnoncreds(m)) \/ UNCHANGED vars
        => UNCHANGED <<store, requestVars>>
  BY DEF Agent, ReceiveAnoncreds, vars, webhookVars
<1> QED
  BY <1>1, <1>2, <1>3, <1>4, <1>5, <1>6, <1>7, KeyedPolls, ReceiveDelivers, FinishDelivers
     DEF Next, Webhook, Harness, Serve

\* The backchannel starts as an empty mailbox.
LEMMA InitMailbox == Init => MailInv /\ Mbox!MInit
<1> SUFFICES ASSUME Init PROVE MailInv /\ Mbox!MInit
  OBVIOUS
<1>1. store.list = [b \in Boxes |-> <<>>] /\ ~KeyedPoll /\ resp.msg = Nothing
  BY DEF Init, EmptyStore, KeyedPoll, Response
<1>2. NoListNoWebhook
  BY <1>1 DEF NoListNoWebhook
<1>3. Mbox!MInit
  BY <1>1 DEF Mbox!MInit, Mbox!MBoxes, Boxes
<1> QED
  BY <1>2, <1>3, InitTypes DEF MailInv

\* Every poll is answered by the oldest webhook of its box or by {} when none
\* waits there, and nothing else disturbs the order of arrival: the backchannel
\* implements the safety half of Mailbox.
THEOREM ImplementsMailbox == Spec => Mbox!MSafety
<1>1. MailInv /\ [Next]_vars => MailInv' /\ [Mbox!MNext]_(Mbox!mboxVars)
  BY StepMailbox DEF MB
<1> QED
  BY <1>1, InitMailbox, PTL DEF Spec, Safety, Mbox!MSafety
=============================================================================
