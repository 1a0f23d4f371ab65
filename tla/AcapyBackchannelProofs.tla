----------------------- MODULE AcapyBackchannelProofs -----------------------
(***************************************************************************)
(* Proofs about AcapyBackchannel, for any exchanges, flags and timeouts.   *)
(***************************************************************************)
EXTENDS AcapyBackchannel, Integers, TLAPS

----------------------------------------------------------------------------
(* The operations of the store.                                            *)

\* push_resource appends to one list and leaves the others alone.
LEMMA PushStore ==
  ASSUME NEW st \in Stores, NEW id \in DataIds, NEW type \in DataTypes,
         NEW m \in Messages
  PROVE  /\ push_resource(st, id, type, m) \in Stores
         /\ push_resource(st, id, type, m).list
              = [st.list EXCEPT ![<<id, type>>] = Append(@, m)]
<1>1. /\ st.order \in Seq(DataIds) /\ st.has \in SUBSET Boxes
      /\ st.list \in [Boxes -> Seq(Messages)]
  BY DEF Stores
<1>2. <<id, type>> \in Boxes
  BY DEF Boxes
<1>3. Append(st.order, id) \in Seq(DataIds)
  BY <1>1
<1>4. Append(st.list[<<id, type>>], m) \in Seq(Messages)
  BY <1>1, <1>2
<1> QED
  BY <1>1, <1>2, <1>3, <1>4 DEF push_resource, Stores

\* pop_resource drops the head of one list that is not empty.
LEMMA PopStore ==
  ASSUME NEW st \in Stores, NEW b \in Boxes, CanPop(st, b)
  PROVE  /\ pop_resource(st, b) \in Stores
         /\ pop_resource(st, b).list = [st.list EXCEPT ![b] = Tail(@)]
         /\ PoppedHead(st, b) \in Messages
<1>1. /\ st.order \in Seq(DataIds) /\ st.has \in SUBSET Boxes
      /\ st.list \in [Boxes -> Seq(Messages)]
  BY DEF Stores
<1>2. /\ st.list[b] \in Seq(Messages) /\ st.list[b] # <<>>
  BY <1>1 DEF CanPop
<1>3. Tail(st.list[b]) \in Seq(Messages) /\ Head(st.list[b]) \in Messages
  BY <1>2
<1> QED
  BY <1>1, <1>3 DEF pop_resource, Stores, PoppedHead

\* pop_resource_latest drops the last element of one list that is not empty.
LEMMA PopLatestStore ==
  ASSUME NEW st \in Stores, NEW type \in DataTypes, ~LatestRaises(st),
         CanPop(st, LatestBox(st, type))
  PROVE  LET b == LatestBox(st, type) IN
         /\ b \in Boxes
         /\ pop_resource_latest(st, b) \in Stores
         /\ pop_resource_latest(st, b).list
              = [st.list EXCEPT ![b] = SubSeq(@, 1, Len(@) - 1)]
         /\ PoppedTail(st, b) \in Messages
<1> DEFINE b == LatestBox(st, type)
<1>1. /\ st.order \in Seq(DataIds) /\ st.has \in SUBSET Boxes
      /\ st.list \in [Boxes -> Seq(Messages)]
  BY DEF Stores
<1>2. st.order[Len(st.order)] \in DataIds
  BY <1>1 DEF LatestRaises
<1>3. b \in Boxes
  BY <1>2 DEF LatestBox, Boxes
<1>4. /\ st.list[b] \in Seq(Messages) /\ st.list[b] # <<>>
  BY <1>1, <1>3 DEF CanPop
<1>5. st.list[b][Len(st.list[b])] \in Messages
  BY <1>4
<1>6. SubSeq(st.list[b], 1, Len(st.list[b]) - 1) \in Seq(Messages)
  BY <1>4
<1> QED
  BY <1>1, <1>3, <1>5, <1>6 DEF pop_resource_latest, Stores, PoppedTail

----------------------------------------------------------------------------
(* Types.                                                                  *)

\* While a poll is served it names a box.
PollHasBox == KeyedPoll => box \in Boxes

TypeInv == TypeOK /\ PollHasBox

\* Init has the types.
LEMMA InitTypes == Init => TypeInv
<1> SUFFICES ASSUME Init PROVE TypeInv
  OBVIOUS
<1>1. EmptyStore \in Stores
  BY DEF EmptyStore, Stores
<1> QED
  BY <1>1 DEF Init, TypeInv, TypeOK, PollHasBox, KeyedPoll, RecordStates, Deleted,
              HandlerPoints, Ops, Responses, Response

\* A move of the agent keeps the types of its record and of the network.
LEMMA MoveTypes ==
  ASSUME TypeOK, NEW x \in Exchanges, NEW s \in RecordStates, Move(x, s)
  PROVE  record' \in [Exchanges -> RecordStates] /\ inflight' \in SUBSET Messages
<1>1. Webhooks(x, s) \subseteq Messages
  BY DEF Webhooks, Messages
<1> QED
  BY <1>1 DEF Move, TypeOK

\* Filing a webhook gives a store.
LEMMA FiledTypes ==
  ASSUME TypeOK, NEW m \in Messages
  PROVE  Filed(m) \in Stores
<1> DEFINE type == TypeOf(Protocol[m.ex])
           st   == push_resource(store, m.ex, type, m)
<1>1. m.ex \in Exchanges /\ m.ex \in DataIds
  BY DEF Messages, DataIds
<1>2. type \in DataTypes
  BY <1>1, ConstantsAssumption DEF TypeOf, DataTypes, Protocols
<1>3. st \in Stores
  BY <1>1, <1>2, PushStore DEF TypeOK
<1>4. "revocation-registry-msg" \in DataTypes
  BY DEF DataTypes
<1>5. push_resource(st, m.ex, "revocation-registry-msg", m) \in Stores
  BY <1>1, <1>3, <1>4, PushStore
<1> QED
  BY <1>3, <1>5 DEF Filed, TypeOK

\* The ways a segment of a request handler ends.
LEMMA RespondTypes ==
  ASSUME TypeInv, NEW r \in Responses, Respond(r)
  PROVE  /\ handler' = "idle" /\ handler' \in HandlerPoints /\ op' \in Ops
         /\ target' \in Exchanges /\ subject' \in Exchanges
         /\ box' \in Boxes \cup {NoBox} /\ tries' \in Nat /\ resp' \in Responses
         /\ served' \in Nat /\ PollHasBox'
BY DEF Respond, TypeInv, TypeOK, HandlerPoints, Ops, PollHasBox, KeyedPoll

\* A segment that ends in a sleep keeps the types of the request.
LEMMA SuspendTypes ==
  ASSUME TypeInv, NEW p \in HandlerPoints, NEW t \in Nat, Suspend(p, t),
         p \in {"poll", "polling"} => KeyedPoll
  PROVE  /\ handler' \in HandlerPoints /\ op' \in Ops
         /\ target' \in Exchanges /\ subject' \in Exchanges
         /\ box' \in Boxes \cup {NoBox} /\ tries' \in Nat /\ resp' \in Responses
         /\ served' \in Nat /\ PollHasBox'
BY DEF Suspend, TypeInv, TypeOK, PollHasBox, KeyedPoll

\* The responses without a message are responses.
LEMMA PlainResponses ==
  ASSUME NEW k \in {"none", "message", "empty", "index-error", "timeout",
                    "state-error", "done", "refused"}
  PROVE  Response(k) \in Responses
BY DEF Response, Responses

\* A webhook handed out is a response.
LEMMA MessageResponse ==
  ASSUME NEW m \in Messages
  PROVE  [kind |-> "message", msg |-> m] \in Responses
BY DEF Responses

\* The points a handler is suspended at, spelled out.
LEMMA PointsKnown ==
  {"idle", "poll", "polling", "implicit", "implicit-first", "implicit-next",
   "post", "swapping", "checking", "settling"} = HandlerPoints
BY DEF HandlerPoints

\* A look that finds nothing keeps the types.
LEMMA FindNothingTypes ==
  ASSUME TypeInv, NEW p \in HandlerPoints, NEW t \in Nat, FindNothing(p, t),
         p \in {"poll", "polling"} => KeyedPoll
  PROVE  TypeInv'
<1>1. /\ UNCHANGED <<agentVars, webhookVars>>
      /\ Suspend(p, t) \/ Respond(Response("empty"))
  BY DEF FindNothing
<1>2. CASE Suspend(p, t)
  BY <1>1, <1>2, SuspendTypes DEF TypeInv, TypeOK, agentVars, webhookVars
<1>3. CASE Respond(Response("empty"))
  BY <1>1, <1>3, RespondTypes, PlainResponses DEF TypeInv, TypeOK, agentVars, webhookVars
<1> QED
  BY <1>1, <1>2, <1>3

\* A turn of the swap loop keeps the types: the webhook it reads names an exchange.
LEMMA SwapLookTypes ==
  ASSUME TypeInv, NEW t \in Nat, SwapLook(t), target \in Exchanges
  PROVE  TypeInv'
<1>1. UNCHANGED <<agentVars, webhookVars>>
  BY DEF SwapLook
<1>2. CASE Respond(Response("timeout")) \/ Respond(Response("index-error"))
  BY <1>1, <1>2, RespondTypes, PlainResponses DEF TypeInv, TypeOK, agentVars, webhookVars
<1>3. CASE Suspend("swapping", t)
  BY <1>1, <1>3, SuspendTypes, PointsKnown DEF TypeInv, TypeOK, agentVars, webhookVars
<1>4. CASE /\ store.list[ThreadBox] # <<>>
           /\ Proceed(Head(store.list[ThreadBox]).ex)
  <2>1. ThreadBox \in Boxes
    BY ConstantsAssumption DEF ThreadBox, Boxes, DataIds, TypeOf, DataTypes, Protocols
  <2>2. store.list[ThreadBox] \in Seq(Messages)
    BY <2>1 DEF TypeInv, TypeOK, Stores
  <2>3. Head(store.list[ThreadBox]) \in Messages
    BY <1>4, <2>2
  <2>4. Head(store.list[ThreadBox]).ex \in Exchanges
    BY <2>3 DEF Messages
  <2> QED
    BY <1>1, <1>4, <2>4 DEF Proceed, TypeInv, TypeOK, agentVars, webhookVars,
                            HandlerPoints, PollHasBox, KeyedPoll
<1> QED
  BY <1>2, <1>3, <1>4 DEF SwapLook

\* Every step keeps the types.
LEMMA StepTypes == TypeInv /\ [Next]_vars => TypeInv'
<1> SUFFICES ASSUME TypeInv, [Next]_vars PROVE TypeInv'
  OBVIOUS
<1> USE DEF TypeInv
<1>1. ASSUME Agent PROVE TypeInv'
  BY <1>1, MoveTypes DEF Agent, TypeOK, PollHasBox, KeyedPoll, webhookVars, requestVars
<1>2. ASSUME NEW m \in inflight, ReceiveRecord(m) PROVE TypeInv'
  <2>1. m \in Messages /\ m.ex \in Exchanges
    BY DEF TypeOK, Messages
  <2>2. Filed(m) \in Stores
    BY <2>1, FiledTypes
  <2> QED
    BY <1>2, <2>1, <2>2 DEF ReceiveRecord, TypeOK, PollHasBox, KeyedPoll, requestVars
<1>3. ASSUME NEW m \in inflight, ReceiveAnoncreds(m) PROVE TypeInv'
  <2>1. m \in Messages /\ m.ex \in DataIds /\ NoThread \in DataIds
    BY DEF TypeOK, Messages, DataIds
  <2>2. fetching' \in SUBSET [msg : Messages, thread : DataIds]
    BY <1>3, <2>1 DEF ReceiveAnoncreds, TypeOK
  <2> QED
    BY <1>3, <2>2 DEF ReceiveAnoncreds, TypeOK, PollHasBox, KeyedPoll, requestVars
<1>4. ASSUME NEW f \in fetching, FinishAnoncreds(f) PROVE TypeInv'
  <2>1. f.msg \in Messages /\ f.thread \in DataIds /\ "revocation-registry-msg" \in DataTypes
    BY DEF TypeOK, DataTypes
  <2>2. push_resource(store, f.thread, "revocation-registry-msg", f.msg) \in Stores
    BY <2>1, PushStore DEF TypeOK
  <2> QED
    BY <1>4, <2>2 DEF FinishAnoncreds, TypeOK, PollHasBox, KeyedPoll, requestVars
<1>5. ASSUME NEW topic \in ResponseTopics, NEW x \in Exchanges, RequestPoll(topic, x)
      PROVE  TypeInv'
  <2>1. <<x, ResponseType(topic)>> \in Boxes
    BY DEF Boxes, DataIds, ResponseType, DataTypes, ResponseTopics
  <2> QED
    BY <1>5, <2>1, PlainResponses DEF RequestPoll, Accept, TypeOK, PollHasBox, KeyedPoll,
       HandlerPoints, agentVars, webhookVars
<1>6. ASSUME RequestImplicit PROVE TypeInv'
  BY <1>6, PlainResponses DEF RequestImplicit, Accept, TypeOK, PollHasBox, KeyedPoll,
     HandlerPoints, agentVars, webhookVars
<1>7. ASSUME NEW o \in Ops, NEW x \in Exchanges, RequestPost(o, x) PROVE TypeInv'
  BY <1>7, PlainResponses DEF RequestPost, Accept, TypeOK, PollHasBox, KeyedPoll,
     HandlerPoints, agentVars, webhookVars
<1>8. ASSUME BeginPoll \/ WakePoll PROVE TypeInv'
  <2>1. box \in Boxes /\ KeyedPoll
    BY <1>8 DEF BeginPoll, WakePoll, PollHasBox, KeyedPoll
  <2>2. ASSUME TakeHead(box) PROVE TypeInv'
    <3>1. /\ pop_resource(store, box) \in Stores /\ PoppedHead(store, box) \in Messages
      BY <2>1, <2>2, PopStore DEF TakeHead, TypeOK
    <3> QED
      BY <2>1, <2>2, <3>1, RespondTypes, MessageResponse DEF TakeHead, TypeOK, agentVars
  <2>3. ASSUME NEW t \in Nat, FindNothing("polling", t) PROVE TypeInv'
    BY <2>1, <2>3, FindNothingTypes, PointsKnown
  <2> QED
    BY <1>8, <2>2, <2>3 DEF BeginPoll, WakePoll, TypeOK
<1>9. ASSUME BeginImplicit PROVE TypeInv'
  BY <1>9, SuspendTypes, PointsKnown DEF BeginImplicit, TypeOK, agentVars, webhookVars
<1>10. ASSUME NEW type \in DataTypes, NEW t \in Nat, TakeLatest(type, t)
       PROVE  TypeInv'
  <2> DEFINE b == LatestBox(store, type)
  <2>1. CASE Respond(Response("index-error")) /\ UNCHANGED <<agentVars, webhookVars>>
    BY <2>1, RespondTypes, PlainResponses DEF TypeOK, agentVars, webhookVars
  <2>2. CASE /\ ~LatestRaises(store) /\ CanPop(store, b)
             /\ store' = pop_resource_latest(store, b)
             /\ taken' = taken \cup {<<b, PoppedTail(store, b)>>}
             /\ Respond([kind |-> "message", msg |-> PoppedTail(store, b)])
             /\ UNCHANGED <<agentVars, fetching, mapped>>
    <3>1. /\ b \in Boxes
          /\ pop_resource_latest(store, b) \in Stores
          /\ PoppedTail(store, b) \in Messages
      BY <2>2, PopLatestStore DEF TypeOK
    <3> QED
      BY <2>2, <3>1, RespondTypes, MessageResponse DEF TypeOK, agentVars
  <2>3. CASE FindNothing("implicit-next", t)
    BY <2>3, FindNothingTypes, PointsKnown
  <2> QED
    BY <1>10, <2>1, <2>2, <2>3 DEF TakeLatest
<1>11. ASSUME WakeImplicitFirst \/ WakeImplicitNext PROVE TypeInv'
  BY <1>10, <1>11 DEF WakeImplicitFirst, WakeImplicitNext, DataTypes, TypeOK
<1>12. ASSUME BeginPost PROVE TypeInv'
  <2>1. CASE Respond(Response("done")) /\ UNCHANGED <<agentVars, webhookVars>>
    BY <2>1, RespondTypes, PlainResponses DEF TypeOK, agentVars, webhookVars
  <2>2. CASE SwapLook(0)
    BY <2>2, SwapLookTypes DEF TypeOK
  <2>3. CASE Proceed(target) /\ UNCHANGED <<agentVars, webhookVars>>
    BY <2>3 DEF Proceed, TypeOK, PollHasBox, KeyedPoll, HandlerPoints, agentVars, webhookVars
  <2> QED
    BY <1>12, <2>1, <2>2, <2>3 DEF BeginPost
<1>13. ASSUME WakeSwap PROVE TypeInv'
  BY <1>13, SwapLookTypes DEF WakeSwap, TypeOK
<1>14. ASSUME CheckState PROVE TypeInv'
  <2>1. CASE \E p \in {"settling", "checking"}, t \in Nat : Suspend(p, t)
    BY <1>14, <2>1, SuspendTypes, PointsKnown DEF CheckState, TypeOK, agentVars, webhookVars
  <2>2. CASE Respond(Response("state-error"))
    BY <1>14, <2>2, RespondTypes, PlainResponses DEF CheckState, TypeOK, agentVars, webhookVars
  <2> QED
    BY <1>14, <2>1, <2>2 DEF CheckState, TypeOK
<1>15. ASSUME SendPost PROVE TypeInv'
  <2>1. UNCHANGED webhookVars
    BY <1>15 DEF SendPost
  <2>2. CASE Move(subject, AgentStep(op)[2]) /\ Respond(Response("done"))
    <3>1. AgentStep(op)[2] \in RecordStates
      BY DEF AgentStep, TypeOK, Ops, RecordStates, Started, Awaited, Acted, Deleted
    <3> QED
      BY <2>1, <2>2, <3>1, MoveTypes, RespondTypes, PlainResponses DEF TypeOK, webhookVars
  <2>3. CASE Respond(Response("refused")) /\ UNCHANGED agentVars
    BY <2>1, <2>3, RespondTypes, PlainResponses DEF TypeOK, webhookVars, agentVars
  <2> QED
    BY <1>15, <2>2, <2>3 DEF SendPost
<1>16. CASE UNCHANGED vars
  BY <1>16 DEF TypeOK, PollHasBox, KeyedPoll, vars, agentVars, webhookVars, requestVars
<1> QED
  BY <1>1, <1>2, <1>3, <1>4, <1>5, <1>6, <1>7, <1>8, <1>9, <1>11, <1>12, <1>13, <1>14,
     <1>15, <1>16 DEF Next, Webhook, Harness, Serve

\* Every reachable state has the types of TypeOK, whatever the exchanges, the
\* flags and the timeouts are.
THEOREM TypeCorrect == Spec => []TypeOK
<1>1. TypeInv => TypeOK
  BY DEF TypeInv
<1> QED
  BY <1>1, InitTypes, StepTypes, PTL DEF Spec, Safety

----------------------------------------------------------------------------
(* No webhook is handed out twice.                                         *)
(*                                                                         *)
(* HandedOnce is not inductive.  A webhook may leave the network for an    *)
(* anoncreds handler and wait there for its await, so the handlers belong  *)
(* to the invariant; and a new webhook differs from every earlier one only *)
(* because records never move back, so the invariant bounds the state that *)
(* any webhook carries by the state of its record.                         *)
(* L: the lists, I: the network, F: the anoncreds handlers, T: taken.      *)

Delivered(L, I, F, T) ==
  /\ \A b \in Boxes : \A i \in DOMAIN L[b] :
       /\ L[b][i] \notin I
       /\ <<b, L[b][i]>> \notin T
       /\ \A j \in DOMAIN L[b] : L[b][i] = L[b][j] => i = j
  /\ \A b \in Boxes, m \in I : <<b, m>> \notin T
  /\ \A f \in F :
       /\ f.msg \notin I
       /\ \A b \in Boxes : <<b, f.msg>> \notin T
       /\ \A b \in Boxes : \A i \in DOMAIN L[b] : L[b][i] # f.msg
       /\ \A g \in F : f.msg = g.msg => f = g

Lists == [Boxes -> Seq(Messages)]

\* K is L with m appended to the list of b.
Appended(K, L, b, m) ==
  /\ K \in Lists
  /\ K[b] = Append(L[b], m)
  /\ \A c \in Boxes \ {b} : K[c] = L[c]

\* A webhook that is nowhere yet may be appended to a list.
LEMMA AppendDelivered ==
  ASSUME NEW L \in Lists, NEW I, NEW F, NEW T, NEW b \in Boxes, NEW m \in Messages,
         NEW K, Appended(K, L, b, m),
         Delivered(L, I, F, T),
         m \notin I, <<b, m>> \notin T,
         \A i \in DOMAIN L[b] : L[b][i] # m,
         \A f \in F : f.msg # m
  PROVE  Delivered(K, I, F, T)
<1>1. K \in Lists /\ \A c \in Boxes \ {b} : K[c] = L[c]
  BY DEF Appended
<1>2. /\ L[b] \in Seq(Messages)
      /\ K[b] = Append(L[b], m)
  BY DEF Appended, Lists
<1>3. /\ DOMAIN K[b] = 1..(Len(L[b]) + 1) /\ DOMAIN L[b] = 1..Len(L[b])
      /\ Len(L[b]) \in Nat
      /\ K[b][Len(L[b]) + 1] = m
      /\ \A i \in DOMAIN L[b] : K[b][i] = L[b][i]
  BY <1>2
<1>4. \A i \in DOMAIN K[b] : i \in DOMAIN L[b] \/ i = Len(L[b]) + 1
  BY <1>3
<1>5. ASSUME NEW i \in DOMAIN K[b]
      PROVE  /\ K[b][i] \notin I
             /\ <<b, K[b][i]>> \notin T
             /\ \A j \in DOMAIN K[b] : K[b][i] = K[b][j] => i = j
             /\ \A f \in F : K[b][i] # f.msg
  BY <1>3, <1>4 DEF Delivered
<1>6. ASSUME NEW c \in Boxes, c # b, NEW i \in DOMAIN K[c]
      PROVE  /\ K[c][i] \notin I
             /\ <<c, K[c][i]>> \notin T
             /\ \A j \in DOMAIN K[c] : K[c][i] = K[c][j] => i = j
             /\ \A f \in F : K[c][i] # f.msg
  <2>1. K[c] = L[c] /\ i \in DOMAIN L[c]
    BY <1>1, <1>6
  <2> QED
    BY <2>1 DEF Delivered
<1>7. \A c \in Boxes : \A i \in DOMAIN K[c] :
        /\ K[c][i] \notin I
        /\ <<c, K[c][i]>> \notin T
        /\ \A j \in DOMAIN K[c] : K[c][i] = K[c][j] => i = j
        /\ \A f \in F : K[c][i] # f.msg
  BY <1>5, <1>6
<1> QED
  BY <1>7 DEF Delivered

\* Taking one end of a list and handing it out.
LEMMA PopDelivered ==
  ASSUME NEW L \in Lists, NEW I, NEW F, NEW T, NEW b \in Boxes, NEW K \in Lists,
         Delivered(L, I, F, T), L[b] # <<>>,
         \/ K = [L EXCEPT ![b] = Tail(@)]
         \/ K = [L EXCEPT ![b] = SubSeq(@, 1, Len(@) - 1)],
         NEW m,
         \/ K = [L EXCEPT ![b] = Tail(@)] /\ m = Head(L[b])
         \/ K = [L EXCEPT ![b] = SubSeq(@, 1, Len(@) - 1)] /\ m = L[b][Len(L[b])]
  PROVE  Delivered(K, I, F, T \cup {<<b, m>>})
<1>1. /\ L[b] \in Seq(Messages) /\ K[b] \in Seq(Messages)
      /\ \A c \in Boxes \ {b} : K[c] = L[c]
  BY DEF Lists
<1>2. PICK d \in {0, 1}, k \in DOMAIN L[b] :
        /\ m = L[b][k]
        /\ \A i \in DOMAIN K[b] : /\ i + d \in DOMAIN L[b] /\ i \in Int
                                  /\ K[b][i] = L[b][i + d] /\ i + d # k
  <2>1. CASE K = [L EXCEPT ![b] = Tail(@)] /\ m = Head(L[b])
    <3>1. K[b] = Tail(L[b])
      BY <2>1 DEF Lists
    <3>2. /\ 1 \in DOMAIN L[b] /\ m = L[b][1]
          /\ \A i \in DOMAIN K[b] : /\ i + 1 \in DOMAIN L[b] /\ i \in Int
                                    /\ K[b][i] = L[b][i + 1] /\ i + 1 # 1
      <4>1. /\ Len(L[b]) \in Nat \ {0} /\ DOMAIN L[b] = 1..Len(L[b])
            /\ m = L[b][1]
        BY <1>1, <2>1
      <4>2. /\ DOMAIN K[b] = 1..(Len(L[b]) - 1)
            /\ \A i \in 1..(Len(L[b]) - 1) : K[b][i] = L[b][i + 1]
        BY <1>1, <3>1, <4>1
      <4> QED
        BY <4>1, <4>2
    <3> QED
      BY <3>2
  <2>2. CASE K = [L EXCEPT ![b] = SubSeq(@, 1, Len(@) - 1)] /\ m = L[b][Len(L[b])]
    <3>1. K[b] = SubSeq(L[b], 1, Len(L[b]) - 1)
      BY <2>2 DEF Lists
    <3>2. /\ Len(L[b]) \in DOMAIN L[b] /\ m = L[b][Len(L[b])]
          /\ \A i \in DOMAIN K[b] : /\ i + 0 \in DOMAIN L[b] /\ i \in Int
                                    /\ K[b][i] = L[b][i + 0] /\ i + 0 # Len(L[b])
      BY <1>1, <2>2, <3>1
    <3> QED
      BY <3>2
  <2> QED
    BY <2>1, <2>2
<1>3. \A i \in DOMAIN L[b] :
        /\ L[b][i] \notin I
        /\ <<b, L[b][i]>> \notin T
        /\ \A j \in DOMAIN L[b] : L[b][i] = L[b][j] => i = j
        /\ \A f \in F : L[b][i] # f.msg
  BY DEF Delivered
<1>4. ASSUME NEW i \in DOMAIN K[b]
      PROVE  /\ K[b][i] \notin I
             /\ <<b, K[b][i]>> \notin T
             /\ K[b][i] # m
             /\ \A j \in DOMAIN K[b] : K[b][i] = K[b][j] => i = j
             /\ \A f \in F : K[b][i] # f.msg
  <2>1. /\ i + d \in DOMAIN L[b] /\ K[b][i] = L[b][i + d] /\ i + d # k /\ i \in Int
    BY <1>2
  <2>2. ASSUME NEW j \in DOMAIN K[b], K[b][i] = K[b][j] PROVE i = j
    <3>1. j + d \in DOMAIN L[b] /\ K[b][j] = L[b][j + d] /\ j \in Int
      BY <1>2
    <3>2. i + d = j + d
      BY <1>3, <2>1, <2>2, <3>1
    <3> QED
      BY <2>1, <3>1, <3>2
  <2>3. K[b][i] # m
    BY <1>2, <1>3, <2>1
  <2> QED
    BY <1>3, <2>1, <2>2, <2>3
<1>5. m \notin I /\ \A f \in F : f.msg # m
  BY <1>2, <1>3
<1> DEFINE U == T \cup {<<b, m>>}
<1>6. \A c \in Boxes : \A i \in DOMAIN K[c] :
        /\ K[c][i] \notin I
        /\ <<c, K[c][i]>> \notin U
        /\ \A j \in DOMAIN K[c] : K[c][i] = K[c][j] => i = j
        /\ \A f \in F : K[c][i] # f.msg
  <2>1. ASSUME NEW c \in Boxes, c # b, NEW i \in DOMAIN K[c]
        PROVE  /\ K[c][i] \notin I
               /\ <<c, K[c][i]>> \notin U
               /\ \A j \in DOMAIN K[c] : K[c][i] = K[c][j] => i = j
               /\ \A f \in F : K[c][i] # f.msg
    <3>1. K[c] = L[c] /\ i \in DOMAIN L[c]
      BY <1>1, <2>1
    <3>2. /\ L[c][i] \notin I
          /\ <<c, L[c][i]>> \notin T
          /\ \A j \in DOMAIN L[c] : L[c][i] = L[c][j] => i = j
          /\ \A f \in F : L[c][i] # f.msg
      BY <3>1 DEF Delivered
    <3>3. <<c, L[c][i]>> \notin U
      BY <2>1, <3>2
    <3> QED
      BY <3>1, <3>2, <3>3
  <2> QED
    BY <1>4, <2>1
<1>7. /\ \A c \in Boxes, n \in I : <<c, n>> \notin U
      /\ \A f \in F : \A c \in Boxes : <<c, f.msg>> \notin U
  BY <1>5 DEF Delivered
<1>8. \A f \in F : f.msg \notin I /\ \A g \in F : f.msg = g.msg => f = g
  BY DEF Delivered
<1> HIDE DEF U
<1>9. Delivered(K, I, F, U)
  BY <1>6, <1>7, <1>8 DEF Delivered
<1> QED
  BY <1>9 DEF U

\* What leaves the network or joins an anoncreds handler stays delivered once.
LEMMA LeaveDelivered ==
  ASSUME NEW L, NEW I, NEW F, NEW T, NEW m \in I, Delivered(L, I, F, T)
  PROVE  Delivered(L, I \ {m}, F, T)
BY DEF Delivered

\* The webhooks that wait in a box, and what the operations make of them.
Elems(L, b) == {L[b][i] : i \in DOMAIN L[b]}

\* Appending to a list adds one element to it.
LEMMA AppendElems ==
  ASSUME NEW L \in Lists, NEW b \in Boxes, NEW m \in Messages, NEW K,
         Appended(K, L, b, m), NEW c \in Boxes, NEW n \in Elems(K, c)
  PROVE  n \in Elems(L, c) \/ (n = m /\ c = b)
<1>1. PICK i \in DOMAIN K[c] : n = K[c][i]
  BY DEF Elems
<1>2. CASE c = b
  <2>1. L[b] \in Seq(Messages) /\ K[c] = Append(L[b], m)
    BY <1>2 DEF Appended, Lists
  <2>2. (i \in DOMAIN L[b] /\ n = L[b][i]) \/ n = m
    BY <1>1, <2>1
  <2> QED
    BY <1>2, <2>2 DEF Elems
<1>3. CASE c # b
  BY <1>1, <1>3 DEF Appended, Elems
<1> QED
  BY <1>2, <1>3

\* A list that loses an end keeps no other elements than it had.
LEMMA PopElems ==
  ASSUME NEW L \in Lists, NEW b \in Boxes, L[b] # <<>>, NEW c \in Boxes
  PROVE  /\ Head(L[b]) \in Elems(L, b) /\ L[b][Len(L[b])] \in Elems(L, b)
         /\ Elems([L EXCEPT ![b] = Tail(@)], c) \subseteq Elems(L, c)
         /\ Elems([L EXCEPT ![b] = SubSeq(@, 1, Len(@) - 1)], c) \subseteq Elems(L, c)
<1> DEFINE K == [L EXCEPT ![b] = Tail(@)]
           J == [L EXCEPT ![b] = SubSeq(@, 1, Len(@) - 1)]
<1>1. /\ L[b] \in Seq(Messages) /\ K[b] = Tail(L[b])
      /\ J[b] = SubSeq(L[b], 1, Len(L[b]) - 1)
      /\ \A d \in Boxes \ {b} : K[d] = L[d] /\ J[d] = L[d]
  BY DEF Lists
<1>2. /\ Len(L[b]) \in Nat \ {0} /\ DOMAIN L[b] = 1..Len(L[b])
      /\ Head(L[b]) = L[b][1]
  BY <1>1
<1>3. /\ DOMAIN K[b] = 1..(Len(L[b]) - 1)
      /\ \A i \in 1..(Len(L[b]) - 1) : K[b][i] = L[b][i + 1]
  BY <1>1, <1>2
<1>4. /\ DOMAIN J[b] = 1..(Len(L[b]) - 1)
      /\ \A i \in 1..(Len(L[b]) - 1) : J[b][i] = L[b][i]
  BY <1>1, <1>2
<1>5. Elems(K, b) \subseteq Elems(L, b)
  <2>1. ASSUME NEW i \in DOMAIN K[b] PROVE K[b][i] = L[b][i + 1] /\ i + 1 \in DOMAIN L[b]
    BY <1>2, <1>3
  <2> QED
    BY <2>1 DEF Elems
<1>6. Elems(J, b) \subseteq Elems(L, b)
  BY <1>2, <1>4 DEF Elems
<1>7. Head(L[b]) \in Elems(L, b) /\ L[b][Len(L[b])] \in Elems(L, b)
  BY <1>2 DEF Elems
<1> QED
  BY <1>1, <1>5, <1>6, <1>7 DEF Elems

\* No webhook is ahead of the record it reports, wherever it is.
Bounded ==
  /\ \A m \in inflight : m.state <= record[m.ex]
  /\ \A f \in fetching : f.msg.state <= record[f.msg.ex]
  /\ \A t \in taken : t[2].state <= record[t[2].ex]
  /\ \A b \in Boxes : \A m \in Elems(store.list, b) : m.state <= record[m.ex]

\* A list that hangs below an exchange holds webhooks of that exchange only.
Owned ==
  /\ \A b \in Boxes : b[1] \in Exchanges => \A m \in Elems(store.list, b) : m.ex = b[1]
  /\ \A f \in fetching : f.thread \in Exchanges => f.thread = f.msg.ex

DeliveryInv ==
  /\ TypeInv
  /\ Delivered(store.list, inflight, fetching, taken)
  /\ Bounded
  /\ Owned

\* Nothing has been sent or filed at the start.
LEMMA InitDelivery == Init => DeliveryInv
<1> SUFFICES ASSUME Init PROVE DeliveryInv
  OBVIOUS
<1>1. TypeInv
  BY InitTypes
<1>2. \A b \in Boxes : store.list[b] = <<>>
  BY DEF Init, EmptyStore
<1>3. \A b \in Boxes : DOMAIN store.list[b] = {}
  BY <1>2
<1>4. \A b \in Boxes : Elems(store.list, b) = {}
  BY <1>3 DEF Elems
<1> QED
  BY <1>1, <1>3, <1>4 DEF Init, DeliveryInv, Delivered, Bounded, Owned

\* A record moves forward only, so its webhooks are new.
LEMMA MoveDelivery ==
  ASSUME DeliveryInv, NEW x \in Exchanges, NEW s \in RecordStates, record[x] < s,
         Move(x, s), UNCHANGED webhookVars
  PROVE  Delivered(store.list, inflight, fetching, taken)' /\ Bounded' /\ Owned'
<1> DEFINE W == Webhooks(x, s)
<1>1. W \subseteq Messages /\ \A w \in W : w.ex = x /\ w.state = s
  BY DEF Webhooks, Messages
<1>2. /\ record \in [Exchanges -> RecordStates] /\ record[x] \in Nat /\ s \in Nat
      /\ record' = [record EXCEPT ![x] = s] /\ inflight' = inflight \cup W
      /\ UNCHANGED <<fetching, store, taken>>
  BY DEF Move, DeliveryInv, TypeInv, TypeOK, RecordStates, webhookVars
<1>3. \A n \in Messages : n.state <= record[n.ex] => n \notin W
  BY <1>1, <1>2 DEF Messages, RecordStates
<1>4. /\ \A b \in Boxes : \A m \in Elems(store.list, b) : m \in Messages
      /\ \A f \in fetching : f.msg \in Messages
      /\ \A t \in taken : t[2] \in Messages
      /\ inflight \subseteq Messages
  BY DEF DeliveryInv, TypeInv, TypeOK, Stores, Elems
<1>5. \A n \in Messages : n.state <= record[n.ex] => n.state <= record'[n.ex]
  BY <1>2 DEF Messages, RecordStates
<1>6. Bounded'
  BY <1>1, <1>2, <1>4, <1>5 DEF Bounded, DeliveryInv
<1>7. Owned'
  BY <1>2 DEF Owned, DeliveryInv
<1>8. Delivered(store.list, inflight \cup W, fetching, taken)
  <2>1. \A b \in Boxes : \A i \in DOMAIN store.list[b] : store.list[b][i] \notin W
    BY <1>3, <1>4 DEF Elems, DeliveryInv, Bounded
  <2>2. \A b \in Boxes : \A w \in W : <<b, w>> \notin taken
    BY <1>3, <1>4 DEF DeliveryInv, Bounded
  <2>3. \A f \in fetching : f.msg \notin W
    BY <1>3, <1>4 DEF DeliveryInv, Bounded
  <2> QED
    BY <2>1, <2>2, <2>3 DEF Delivered, DeliveryInv
<1> QED
  BY <1>2, <1>6, <1>7, <1>8

\* The steps that touch no webhook.
LEMMA IdleDelivery ==
  ASSUME DeliveryInv, UNCHANGED <<record, inflight, fetching, store, taken>>
  PROVE  Delivered(store.list, inflight, fetching, taken)' /\ Bounded' /\ Owned'
BY DEF DeliveryInv, Delivered, Bounded, Owned

\* push_resource appends, in the sense of Appended.
LEMMA PushAppends ==
  ASSUME NEW st \in Stores, NEW id \in DataIds, NEW type \in DataTypes, NEW m \in Messages
  PROVE  /\ st.list \in Lists /\ <<id, type>> \in Boxes
         /\ Appended(push_resource(st, id, type, m).list, st.list, <<id, type>>, m)
<1> DEFINE b == <<id, type>>
           K == [st.list EXCEPT ![b] = Append(@, m)]
<1>1. st.list \in Lists /\ b \in Boxes
  BY DEF Stores, Lists, Boxes
<1>2. push_resource(st, id, type, m).list = K
  BY DEF push_resource
<1> HIDE DEF b
<1>3. K \in Lists /\ K[b] = Append(st.list[b], m) /\ \A c \in Boxes \ {b} : K[c] = st.list[c]
  BY <1>1 DEF Lists
<1>4. Appended(K, st.list, b, m)
  BY <1>3 DEF Appended
<1> QED
  BY <1>1, <1>2, <1>4 DEF b

\* Filing one webhook changes one box.
LEMMA PushElems ==
  ASSUME NEW st \in Stores, NEW id \in DataIds, NEW type \in DataTypes,
         NEW m \in Messages, NEW d \in Boxes,
         NEW n \in Elems(push_resource(st, id, type, m).list, d)
  PROVE  n \in Elems(st.list, d) \/ (n = m /\ d = <<id, type>>)
<1> DEFINE K == push_resource(st, id, type, m).list
           L == st.list
           b == <<id, type>>
<1>1. L \in Lists /\ b \in Boxes /\ Appended(K, L, b, m) /\ n \in Elems(K, d)
  BY PushAppends
<1> HIDE DEF K, L, b
<1>2. n \in Elems(L, d) \/ (n = m /\ d = b)
  BY <1>1, AppendElems
<1> QED
  BY <1>2 DEF L, b

\* Filing one webhook, once no copy of it is left on the network or in a handler.
LEMMA PushDelivery ==
  ASSUME NEW st \in Stores, NEW id \in DataIds, NEW type \in DataTypes,
         NEW m \in Messages, NEW I, NEW F, NEW T,
         Delivered(st.list, I, F, T), m \notin I, <<<<id, type>>, m>> \notin T,
         m \notin Elems(st.list, <<id, type>>), \A f \in F : f.msg # m
  PROVE  Delivered(push_resource(st, id, type, m).list, I, F, T)
<1>1. \A i \in DOMAIN st.list[<<id, type>>] : st.list[<<id, type>>][i] # m
  BY DEF Elems
<1> QED
  BY <1>1, PushAppends, AppendDelivered

\* Filing a webhook, under one type or two, files it once.
LEMMA ReceiveRecordDelivery ==
  ASSUME DeliveryInv, NEW m \in inflight, ReceiveRecord(m)
  PROVE  Delivered(store.list, inflight, fetching, taken)' /\ Bounded' /\ Owned'
<1> DEFINE x    == m.ex
           type == TypeOf(Protocol[m.ex])
           rev  == "revocation-registry-msg"
           I    == inflight \ {m}
           st   == push_resource(store, x, type, m)
           su   == push_resource(st, x, rev, m)
<1>1. /\ m \in Messages /\ x \in Exchanges /\ x \in DataIds /\ store \in Stores
      /\ rev \in DataTypes
  BY DEF DeliveryInv, TypeInv, TypeOK, Messages, DataIds, DataTypes
<1>2. type \in DataTypes
  BY <1>1, ConstantsAssumption DEF TypeOf, DataTypes, Protocols
<1>3. <<x, type>> \in Boxes /\ <<x, rev>> \in Boxes
  BY <1>1, <1>2 DEF Boxes
<1>4. /\ Delivered(store.list, I, fetching, taken)
      /\ m \notin I
      /\ \A d \in Boxes : <<d, m>> \notin taken /\ m \notin Elems(store.list, d)
      /\ \A f \in fetching : f.msg # m
  BY LeaveDelivered DEF DeliveryInv, Delivered, Elems
<1>5. CarriesRevocation(m) => type # rev
  BY DEF CarriesRevocation, TypeOf
<1>6. store' \in {store, st} \/ (store' = su /\ type # rev)
  BY <1>5 DEF ReceiveRecord, Filed
<1> HIDE DEF x, type, rev, I
<1>7. st \in Stores /\ Delivered(st.list, I, fetching, taken)
  BY <1>1, <1>2, <1>3, <1>4, PushStore, PushDelivery
<1>8. \A d \in Boxes : \A n \in Elems(st.list, d) :
        n \in Elems(store.list, d) \/ (n = m /\ d = <<x, type>>)
  BY <1>1, <1>2, PushElems
<1>9. type # rev => m \notin Elems(st.list, <<x, rev>>)
  BY <1>3, <1>4, <1>8
<1> HIDE DEF st
<1>10. type # rev => Delivered(su.list, I, fetching, taken)
  BY <1>1, <1>3, <1>4, <1>7, <1>9, PushDelivery
<1>11. \A d \in Boxes : \A n \in Elems(su.list, d) :
         n \in Elems(st.list, d) \/ (n = m /\ d = <<x, rev>>)
  BY <1>1, <1>7, PushElems
<1> HIDE DEF su
<1>12. \A d \in Boxes : \A n \in Elems(store'.list, d) :
         n \in Elems(store.list, d) \/ (n = m /\ d[1] = x)
  BY <1>6, <1>8, <1>11
<1>13. UNCHANGED <<record, fetching, taken>> /\ inflight' = I
  BY DEF ReceiveRecord, I
<1>14. Bounded' /\ Owned'
  BY <1>12, <1>13 DEF DeliveryInv, Bounded, Owned, I, x
<1> QED
  BY <1>4, <1>6, <1>7, <1>10, <1>13, <1>14

\* A webhook handed to an anoncreds handler is nowhere else.
LEMMA ReceiveAnoncredsDelivery ==
  ASSUME DeliveryInv, NEW m \in inflight, ReceiveAnoncreds(m)
  PROVE  Delivered(store.list, inflight, fetching, taken)' /\ Bounded' /\ Owned'
<1> DEFINE I == inflight \ {m}
           f == [msg |-> m, thread |-> IF mapped = {} THEN NoThread ELSE m.ex]
<1>1. /\ UNCHANGED <<record, store, taken>> /\ inflight' = I
      /\ fetching' \in {fetching, fetching \cup {f}}
      /\ f.msg = m /\ f.thread \in {NoThread, m.ex}
  BY DEF ReceiveAnoncreds
<1>2. Delivered(store.list, I, fetching, taken)
  BY LeaveDelivered DEF DeliveryInv
<1>3. /\ m \notin I
      /\ \A b \in Boxes : <<b, m>> \notin taken
      /\ \A b \in Boxes : \A i \in DOMAIN store.list[b] : store.list[b][i] # m
      /\ \A g \in fetching : g.msg # m
  BY DEF DeliveryInv, Delivered
<1>4. Delivered(store.list, I, fetching \cup {f}, taken)
  <2> HIDE DEF f, I
  <2> QED
    BY <1>1, <1>2, <1>3 DEF Delivered
<1>5. Bounded' /\ Owned'
  BY <1>1, ConstantsAssumption DEF DeliveryInv, Bounded, Owned
<1> QED
  BY <1>1, <1>2, <1>4, <1>5

\* An anoncreds handler files its webhook once, at the end.
LEMMA FinishAnoncredsDelivery ==
  ASSUME DeliveryInv, NEW f \in fetching, FinishAnoncreds(f)
  PROVE  Delivered(store.list, inflight, fetching, taken)' /\ Bounded' /\ Owned'
<1> DEFINE x   == f.thread
           m   == f.msg
           rev == "revocation-registry-msg"
           F   == fetching \ {f}
           st  == push_resource(store, x, rev, m)
<1>1. /\ m \in Messages /\ x \in DataIds /\ rev \in DataTypes /\ store \in Stores
      /\ <<x, rev>> \in Boxes
  BY DEF DeliveryInv, TypeInv, TypeOK, DataTypes, Boxes
<1>2. /\ Delivered(store.list, inflight, F, taken)
      /\ m \notin inflight /\ <<<<x, rev>>, m>> \notin taken
      /\ m \notin Elems(store.list, <<x, rev>>)
      /\ \A g \in F : g.msg # m
  BY <1>1 DEF DeliveryInv, Delivered, Elems
<1>3. /\ UNCHANGED <<record, inflight, taken>> /\ fetching' = F /\ store' \in {store, st}
  BY DEF FinishAnoncreds
<1> HIDE DEF x, m, rev, F
<1>4. Delivered(st.list, inflight, F, taken)
  BY <1>1, <1>2, PushDelivery
<1>5. \A d \in Boxes : \A n \in Elems(st.list, d) :
        n \in Elems(store.list, d) \/ (n = m /\ d = <<x, rev>>)
  BY <1>1, PushElems
<1> HIDE DEF st
<1>6. \A d \in Boxes : \A n \in Elems(store'.list, d) :
        n \in Elems(store.list, d) \/ (n = m /\ d[1] = x)
  BY <1>3, <1>5
<1>7. Bounded' /\ Owned'
  BY <1>3, <1>6 DEF DeliveryInv, Bounded, Owned, F, x, m
<1> QED
  BY <1>2, <1>3, <1>4, <1>7

\* Handing out one end of a list.
LEMMA TakeDelivery ==
  ASSUME DeliveryInv, NEW b \in Boxes, NEW m, store.list[b] # <<>>,
         \/ store'.list = [store.list EXCEPT ![b] = Tail(@)] /\ m = Head(store.list[b])
         \/ /\ store'.list = [store.list EXCEPT ![b] = SubSeq(@, 1, Len(@) - 1)]
            /\ m = store.list[b][Len(store.list[b])],
         store' \in Stores, taken' = taken \cup {<<b, m>>},
         UNCHANGED <<record, inflight, fetching>>
  PROVE  Delivered(store.list, inflight, fetching, taken)' /\ Bounded' /\ Owned'
<1> DEFINE L == store.list
           K == store'.list
<1>1. L \in Lists /\ K \in Lists
  BY DEF DeliveryInv, TypeInv, TypeOK, Stores, Lists
<1>2. Delivered(K, inflight, fetching, taken \cup {<<b, m>>})
  BY <1>1, PopDelivered DEF DeliveryInv
<1>3. m \in Elems(L, b) /\ \A c \in Boxes : Elems(K, c) \subseteq Elems(L, c)
  BY <1>1, PopElems
<1>4. Bounded' /\ Owned'
  BY <1>3 DEF DeliveryInv, Bounded, Owned
<1> QED
  BY <1>2, <1>4

\* A poll hands out the head of a list for the first time.
LEMMA TakeHeadDelivery ==
  ASSUME DeliveryInv, NEW b \in Boxes, TakeHead(b)
  PROVE  Delivered(store.list, inflight, fetching, taken)' /\ Bounded' /\ Owned'
<1> DEFINE m == PoppedHead(store, b)
<1>1. /\ store \in Stores /\ CanPop(store, b) /\ store' = pop_resource(store, b)
      /\ taken' = taken \cup {<<b, m>>} /\ UNCHANGED <<record, inflight, fetching>>
  BY DEF DeliveryInv, TypeInv, TypeOK, TakeHead, agentVars
<1>2. /\ store' \in Stores /\ store'.list = [store.list EXCEPT ![b] = Tail(@)]
      /\ m = Head(store.list[b]) /\ store.list[b] # <<>>
  BY <1>1, PopStore DEF PoppedHead, CanPop
<1> HIDE DEF m
<1> QED
  BY <1>1, <1>2, TakeDelivery

\* The implicit path hands out the tail of a list for the first time.
LEMMA TakeLatestDelivery ==
  ASSUME DeliveryInv, NEW type \in DataTypes, NEW t, TakeLatest(type, t)
  PROVE  Delivered(store.list, inflight, fetching, taken)' /\ Bounded' /\ Owned'
<1> DEFINE b == LatestBox(store, type)
           m == PoppedTail(store, b)
<1>1. CASE /\ ~LatestRaises(store) /\ CanPop(store, b)
           /\ store' = pop_resource_latest(store, b)
           /\ taken' = taken \cup {<<b, m>>}
           /\ UNCHANGED <<agentVars, fetching, mapped>>
  <2>1. store \in Stores
    BY DEF DeliveryInv, TypeInv, TypeOK
  <2>2. /\ b \in Boxes /\ store' \in Stores
        /\ store'.list = [store.list EXCEPT ![b] = SubSeq(@, 1, Len(@) - 1)]
        /\ m = store.list[b][Len(store.list[b])] /\ store.list[b] # <<>>
    BY <1>1, <2>1, PopLatestStore DEF PoppedTail, CanPop
  <2>3. UNCHANGED <<record, inflight, fetching>> /\ taken' = taken \cup {<<b, m>>}
    BY <1>1 DEF agentVars
  <2> HIDE DEF b, m
  <2> QED
    BY <2>2, <2>3, TakeDelivery
<1>2. CASE UNCHANGED <<record, inflight, fetching, store, taken>>
  BY <1>2, IdleDelivery
<1> QED
  BY <1>1, <1>2 DEF TakeLatest, FindNothing, agentVars, webhookVars

\* Every step keeps the invariant of delivery.
LEMMA StepDelivery == DeliveryInv /\ [Next]_vars => DeliveryInv'
<1> SUFFICES ASSUME DeliveryInv, [Next]_vars
             PROVE  Delivered(store.list, inflight, fetching, taken)' /\ Bounded' /\ Owned'
  BY StepTypes DEF DeliveryInv
<1> DEFINE Goal == Delivered(store.list, inflight, fetching, taken)' /\ Bounded' /\ Owned'
<1>1. ASSUME Agent PROVE Goal
  <2>1. PICK x \in Exchanges, s \in RecordStates : AgentMoves(x, s) /\ Move(x, s)
    BY <1>1 DEF Agent
  <2>2. record[x] < s
    BY <2>1 DEF AgentMoves, Started, Awaited, Acted, Done, Abandoned, Deleted
  <2> QED
    BY <1>1, <2>1, <2>2, MoveDelivery DEF Agent
<1>2. ASSUME NEW m \in inflight, ReceiveRecord(m) PROVE Goal
  BY <1>2, ReceiveRecordDelivery
<1>3. ASSUME NEW m \in inflight, ReceiveAnoncreds(m) PROVE Goal
  BY <1>3, ReceiveAnoncredsDelivery
<1>4. ASSUME NEW f \in fetching, FinishAnoncreds(f) PROVE Goal
  BY <1>4, FinishAnoncredsDelivery
<1>5. ASSUME BeginPoll \/ WakePoll PROVE Goal
  <2>1. box \in Boxes
    BY <1>5 DEF BeginPoll, WakePoll, DeliveryInv, TypeInv, PollHasBox, KeyedPoll
  <2>2. CASE UNCHANGED <<record, inflight, fetching, store, taken>>
    BY <2>2, IdleDelivery
  <2> QED
    BY <1>5, <2>1, <2>2, TakeHeadDelivery
       DEF BeginPoll, WakePoll, FindNothing, agentVars, webhookVars
<1>6. ASSUME WakeImplicitFirst \/ WakeImplicitNext PROVE Goal
  BY <1>6, TakeLatestDelivery DEF WakeImplicitFirst, WakeImplicitNext, DataTypes
<1>7. ASSUME SendPost PROVE Goal
  <2>1. CASE record[subject] = AgentStep(op)[1] /\ Move(subject, AgentStep(op)[2])
    <3>1. /\ AgentStep(op)[2] \in RecordStates /\ record[subject] < AgentStep(op)[2]
      BY <2>1 DEF AgentStep, DeliveryInv, TypeInv, TypeOK, Ops, RecordStates, Started,
                  Awaited, Acted, Deleted
    <3>2. subject \in Exchanges
      BY DEF DeliveryInv, TypeInv, TypeOK
    <3> QED
      BY <1>7, <2>1, <3>1, <3>2, MoveDelivery DEF SendPost
  <2>2. CASE UNCHANGED agentVars
    BY <1>7, <2>2, IdleDelivery DEF SendPost, agentVars, webhookVars
  <2> QED
    BY <1>7, <2>1, <2>2 DEF SendPost
<1>8. CASE UNCHANGED <<record, inflight, fetching, store, taken>>
  BY <1>8, IdleDelivery
<1>9. Harness \/ BeginImplicit \/ BeginPost \/ WakeSwap \/ CheckState \/ UNCHANGED vars
        => UNCHANGED <<record, inflight, fetching, store, taken>>
  BY DEF Harness, RequestPoll, RequestImplicit, RequestPost, Accept, BeginImplicit,
         BeginPost, WakeSwap, SwapLook, CheckState, vars, agentVars, webhookVars
<1> QED
  BY <1>1, <1>2, <1>3, <1>4, <1>5, <1>6, <1>7, <1>8, <1>9 DEF Next, Webhook, Serve

\* No webhook is handed to the harness twice, or waits for it twice, whatever the
\* order of webhooks, polls and agent moves.
THEOREM NoWebhookTwice == Spec => []HandedOnce
<1>1. DeliveryInv => HandedOnce
  BY DEF DeliveryInv, Delivered, HandedOnce
<1> QED
  BY <1>1, InitDelivery, StepDelivery, PTL DEF Spec, Safety

----------------------------------------------------------------------------
(* What the operations do to the records of the agent.                     *)

PostInv ==
  /\ DeliveryInv
  /\ PostsToItsOwnRecord
  /\ NotBeforeItsMessage

\* The webhook a swap peeks at is of the thread it looks for.
LEMMA SwapKeepsSubject ==
  ASSUME DeliveryInv, PostsToItsOwnRecord, NEW t, SwapLook(t)
  PROVE  subject' = target'
<1>1. CASE UNCHANGED <<subject, target>>
  BY <1>1 DEF PostsToItsOwnRecord
<1>2. CASE /\ store.list[ThreadBox] # <<>>
           /\ Proceed(Head(store.list[ThreadBox]).ex)
  <2>1. ThreadBox \in Boxes /\ ThreadBox[1] = target /\ target \in Exchanges
    BY ConstantsAssumption
       DEF ThreadBox, Boxes, DataIds, TypeOf, DataTypes, Protocols, DeliveryInv, TypeInv, TypeOK
  <2>2. store.list \in Lists
    BY DEF DeliveryInv, TypeInv, TypeOK, Stores, Lists
  <2>3. Head(store.list[ThreadBox]) \in Elems(store.list, ThreadBox)
    BY <1>2, <2>1, <2>2, PopElems
  <2>4. Head(store.list[ThreadBox]).ex = target
    BY <2>1, <2>3 DEF DeliveryInv, Owned
  <2> QED
    BY <1>2, <2>4 DEF Proceed
<1> QED
  BY <1>1, <1>2 DEF SwapLook, Respond, Suspend

\* Every step keeps the invariant of the operations.
LEMMA StepPosts == PostInv /\ [Next]_vars => PostInv'
<1> SUFFICES ASSUME PostInv, [Next]_vars
             PROVE  PostsToItsOwnRecord' /\ NotBeforeItsMessage'
  BY StepDelivery DEF PostInv
<1> USE DEF PostInv
<1>1. subject \in Exchanges /\ record \in [Exchanges -> RecordStates] /\ op \in Ops
  BY DEF DeliveryInv, TypeInv, TypeOK
<1>2. ASSUME NEW x \in Exchanges, NEW s \in RecordStates, record[x] < s, Move(x, s)
      PROVE  record[subject] >= Awaited => record'[subject] >= Awaited
  BY <1>1, <1>2 DEF Move, RecordStates, Awaited
<1>3. CASE Agent
  <2>1. PICK x \in Exchanges, s \in RecordStates : AgentMoves(x, s) /\ Move(x, s)
    BY <1>3 DEF Agent
  <2>2. record[x] < s
    BY <2>1 DEF AgentMoves, Started, Awaited, Acted, Done, Abandoned, Deleted
  <2> QED
    BY <1>2, <1>3, <2>1, <2>2
       DEF Agent, PostsToItsOwnRecord, NotBeforeItsMessage, requestVars
<1>4. CASE UNCHANGED <<record, requestVars>>
  BY <1>4 DEF PostsToItsOwnRecord, NotBeforeItsMessage, requestVars
<1>5. ASSUME handler' \in {"idle", "poll", "polling", "implicit", "implicit-first",
                           "implicit-next", "post", "swapping"},
             subject' = target'
      PROVE  PostsToItsOwnRecord' /\ NotBeforeItsMessage'
  BY <1>5 DEF PostsToItsOwnRecord, NotBeforeItsMessage
<1>6. CASE Harness
  <2>1. handler' \in {"poll", "implicit", "post"}
    BY <1>6 DEF Harness, RequestPoll, RequestImplicit, RequestPost, Accept
  <2>2. subject' = target'
    <3>1. subject = target
      BY DEF PostsToItsOwnRecord
    <3>2. ASSUME NEW topic, NEW x, RequestPoll(topic, x) PROVE subject' = target'
      BY <3>1, <3>2 DEF RequestPoll
    <3>3. ASSUME NEW o, NEW x, RequestPost(o, x) PROVE subject' = target'
      BY <3>3 DEF RequestPost
    <3> QED
      BY <1>6, <3>1, <3>2, <3>3 DEF Harness, RequestImplicit
  <2> QED
    BY <1>5, <2>1, <2>2
<1>7. CASE BeginPoll \/ WakePoll \/ BeginImplicit \/ WakeImplicitFirst \/ WakeImplicitNext
  BY <1>5, <1>7 DEF BeginPoll, WakePoll, BeginImplicit, WakeImplicitFirst, WakeImplicitNext,
     TakeLatest, TakeHead, FindNothing, Respond, Suspend, PostsToItsOwnRecord
<1>8. ASSUME NEW x, Proceed(x), x = target PROVE PostsToItsOwnRecord' /\ NotBeforeItsMessage'
  <2>1. PostsToItsOwnRecord'
    BY <1>8 DEF Proceed, PostsToItsOwnRecord
  <2>2. ~(handler' = "settling" /\ Waits(op', subject'))
    BY <1>8 DEF Proceed
  <2> QED
    BY <2>1, <2>2 DEF NotBeforeItsMessage
<1>9. ASSUME NEW t, SwapLook(t) PROVE PostsToItsOwnRecord' /\ NotBeforeItsMessage'
  <2>1. subject' = target'
    BY <1>9, SwapKeepsSubject
  <2>2. CASE \E x : Proceed(x)
    BY <2>1, <2>2, <1>8 DEF Proceed
  <2>3. CASE handler' \in {"idle", "swapping"}
    BY <1>5, <2>1, <2>3
  <2> QED
    BY <1>9, <2>2, <2>3 DEF SwapLook, Respond, Suspend
<1>10. CASE BeginPost
  <2>1. CASE Respond(Response("done"))
    BY <1>5, <2>1 DEF Respond, PostsToItsOwnRecord
  <2> QED
    BY <1>8, <1>9, <1>10, <2>1 DEF BeginPost
<1>11. CASE WakeSwap
  BY <1>9, <1>11 DEF WakeSwap
<1>12. CASE CheckState
  <2>1. CASE record[subject] = Awaited /\ Suspend("settling", 0)
    BY <1>12, <2>1 DEF CheckState, Suspend, agentVars, Awaited, PostsToItsOwnRecord,
                       NotBeforeItsMessage
  <2>2. CASE handler' \in {"checking", "idle"} /\ UNCHANGED <<subject, target>>
    BY <2>2 DEF PostsToItsOwnRecord, NotBeforeItsMessage
  <2> QED
    BY <1>12, <2>1, <2>2 DEF CheckState, Suspend, Respond
<1>13. CASE SendPost
  BY <1>5, <1>13 DEF SendPost, Respond, PostsToItsOwnRecord
<1> QED
  BY <1>3, <1>4, <1>6, <1>7, <1>10, <1>11, <1>12, <1>13
     DEF Next, Webhook, Serve, ReceiveRecord, ReceiveAnoncreds, FinishAnoncreds, vars, agentVars

\* No operation is under way at the start.
LEMMA InitPosts == Init => PostInv
BY InitDelivery DEF Init, PostInv, PostsToItsOwnRecord, NotBeforeItsMessage

\* Whatever is polled and received between its awaits, an operation on a thread is
\* POSTed to the record of that thread.
THEOREM PostsReachTheirRecord == Spec => []PostsToItsOwnRecord
<1>1. PostInv => PostsToItsOwnRecord
  BY DEF PostInv
<1> QED
  BY <1>1, InitPosts, StepPosts, PTL DEF Spec, Safety

\* An operation that acts on a message of the other agent never precedes it.
THEOREM ActsAfterItsMessage == Spec => []NotBeforeItsMessage
<1>1. PostInv => NotBeforeItsMessage
  BY DEF PostInv
<1> QED
  BY <1>1, InitPosts, StepPosts, PTL DEF Spec, Safety


----------------------------------------------------------------------------
(* Serving a POST leaves the webhooks where they are.                      *)

\* Filing a webhook shortens no list.
LEMMA PushLonger ==
  ASSUME NEW st \in Stores, NEW id \in DataIds, NEW type \in DataTypes,
         NEW m \in Messages, NEW b \in Boxes
  PROVE  Len(st.list[b]) <= Len(push_resource(st, id, type, m).list[b])
<1>1. st.list \in [Boxes -> Seq(Messages)]
  BY DEF Stores
<1>2. push_resource(st, id, type, m).list = [st.list EXCEPT ![<<id, type>>] = Append(@, m)]
  BY PushStore
<1>3. CASE b = <<id, type>>
  <2>1. push_resource(st, id, type, m).list[b] = Append(st.list[b], m)
    BY <1>1, <1>2, <1>3
  <2>2. Len(Append(st.list[b], m)) = Len(st.list[b]) + 1 /\ Len(st.list[b]) \in Nat
    BY <1>1
  <2> QED
    BY <2>1, <2>2
<1>4. CASE b # <<id, type>>
  <2>1. push_resource(st, id, type, m).list[b] = st.list[b]
    BY <1>1, <1>2, <1>4
  <2>2. Len(st.list[b]) \in Nat
    BY <1>1
  <2> QED
    BY <2>1, <2>2
<1> QED
  BY <1>3, <1>4

\* A webhook handler shortens no list.
LEMMA WebhooksLonger ==
  ASSUME TypeInv, Webhook, NEW b \in Boxes
  PROVE  Len(store.list[b]) <= Len(store'.list[b])
<1>1. store \in Stores /\ inflight \subseteq Messages
      /\ fetching \subseteq [msg : Messages, thread : DataIds]
  BY DEF TypeInv, TypeOK
<1>2. Len(store.list[b]) \in Nat
  BY <1>1 DEF Stores
<1>3. "revocation-registry-msg" \in DataTypes
  BY DEF DataTypes
<1>4. CASE store' = store
  BY <1>2, <1>4
<1>5. ASSUME NEW m \in inflight, ReceiveRecord(m)
      PROVE  Len(store.list[b]) <= Len(store'.list[b])
  <2> DEFINE type == TypeOf(Protocol[m.ex])
             st   == push_resource(store, m.ex, type, m)
  <2>1. m \in Messages /\ m.ex \in Exchanges /\ m.ex \in DataIds
    BY <1>1 DEF Messages, DataIds
  <2>2. type \in DataTypes
    BY <2>1, ConstantsAssumption DEF TypeOf, DataTypes, Protocols
  <2>3. st \in Stores
    BY <1>1, <2>1, <2>2, PushStore
  <2>4. Len(store.list[b]) <= Len(st.list[b])
    BY <1>1, <2>1, <2>2, PushLonger
  <2>5. Len(st.list[b])
          <= Len(push_resource(st, m.ex, "revocation-registry-msg", m).list[b])
    BY <1>3, <2>1, <2>3, PushLonger
  <2>6. /\ Len(st.list[b]) \in Nat
        /\ Len(push_resource(st, m.ex, "revocation-registry-msg", m).list[b]) \in Nat
    BY <1>3, <2>1, <2>3, PushStore DEF Stores
  <2>7. store' \in {store, st, push_resource(st, m.ex, "revocation-registry-msg", m)}
    BY <1>5 DEF ReceiveRecord, Filed
  <2> HIDE DEF st
  <2> QED
    BY <1>2, <2>4, <2>5, <2>6, <2>7
<1>6. ASSUME NEW f \in fetching, FinishAnoncreds(f)
      PROVE  Len(store.list[b]) <= Len(store'.list[b])
  <2>1. f.msg \in Messages /\ f.thread \in DataIds
    BY <1>1
  <2>2. CASE store' = push_resource(store, f.thread, "revocation-registry-msg", f.msg)
    BY <1>1, <1>3, <2>1, <2>2, PushLonger
  <2> QED
    BY <1>4, <1>6, <2>2 DEF FinishAnoncreds
<1> QED
  BY <1>4, <1>5, <1>6 DEF Webhook, ReceiveAnoncreds

\* While a POST is served only webhook handlers touch the store.
LEMMA PostsOnlyAdd ==
  ASSUME TypeInv, [Next]_vars, handler \in {"post", "swapping", "checking", "settling"},
         NEW b \in Boxes
  PROVE  Len(store.list[b]) <= Len(store'.list[b])
<1>1. CASE Webhook
  BY <1>1, WebhooksLonger
<1>2. CASE store' = store
  <2>1. Len(store.list[b]) \in Nat
    BY DEF TypeInv, TypeOK, Stores
  <2> QED
    BY <1>2, <2>1
<1>3. ~Harness
  BY DEF Harness, RequestPoll, RequestImplicit, RequestPost, Accept
<1>4. ASSUME Agent \/ Serve \/ UNCHANGED vars PROVE store' = store
  BY <1>4 DEF Agent, Serve, vars, webhookVars, BeginPoll, WakePoll, BeginImplicit,
     WakeImplicitFirst, WakeImplicitNext, BeginPost, WakeSwap, SwapLook, CheckState, SendPost
<1> QED
  BY <1>1, <1>2, <1>3, <1>4 DEF Next

\* Serving a POST never takes a webhook away from later polls.
THEOREM PostsTakeNoWebhook == Spec => PostsLeaveWebhooks
<1>1. TypeInv /\ [Next]_vars
        => [(handler \in {"post", "swapping", "checking", "settling"})
              => (\A b \in Boxes : Len(store.list[b]) <= Len(store'.list[b]))]_vars
  BY PostsOnlyAdd
<1> QED
  BY <1>1, InitTypes, StepTypes, PTL DEF Spec, Safety, PostsLeaveWebhooks


----------------------------------------------------------------------------
(* A swap never indexes an empty list.                                     *)
(*                                                                         *)
(* It would if something else emptied the list it peeks at, which only a   *)
(* poll of the same box does: the harness polls for connections, DID       *)
(* exchanges and revocation data, never for credentials or presentations.  *)

\* The boxes swap_thread_id_for_exchange_id peeks at, and those the harness polls.
Peeked ==
  {<<x, TypeOf(Protocol[x])>> :
     x \in {y \in Exchanges : Protocol[y] \in {"issue-credential", "present-proof"}}}

Polled == {<<p[2], ResponseType(p[1])>> : p \in Polls}

\* What is assumed of the harness.  An implicit invitation indexes the last id of a
\* storage that may be empty, and raises on its own account.
PeekedUnpolled == ~Implicit /\ Peeked \cap Polled = {}

Kept(st) == \A b \in Peeked : b \in st.has => st.list[b] # <<>>

PeekInv ==
  /\ PeekedUnpolled
  /\ TypeInv
  /\ Kept(store)
  /\ handler \notin {"implicit", "implicit-first", "implicit-next"}
  /\ KeyedPoll => box \in Polled
  /\ handler = "swapping" => Swaps(op, target)
  /\ NoIndexError

\* The box of a swap is among those.
LEMMA SwapPeeks ==
  ASSUME TypeOK, Swaps(op, target)
  PROVE  ThreadBox \in Peeked
BY DEF TypeOK, Swaps, Peeked, ThreadBox

\* A list that a push creates is not empty.
LEMMA PushKept ==
  ASSUME NEW st \in Stores, NEW id \in DataIds, NEW type \in DataTypes,
         NEW m \in Messages, Kept(st)
  PROVE  Kept(push_resource(st, id, type, m))
<1> DEFINE new == push_resource(st, id, type, m)
<1> SUFFICES ASSUME NEW b \in Peeked, b \in new.has PROVE new.list[b] # <<>>
  BY DEF Kept
<1>1. st.list \in [Boxes -> Seq(Messages)] /\ st.has \subseteq Boxes
  BY DEF Stores
<1>2. new.list = [st.list EXCEPT ![<<id, type>>] = Append(@, m)]
  BY PushStore
<1>3. new.has = st.has \cup {<<id, type>>} /\ <<id, type>> \in Boxes
  BY DEF push_resource, Boxes
<1>4. CASE b = <<id, type>>
  <2>1. new.list[b] = Append(st.list[b], m)
    BY <1>1, <1>2, <1>3, <1>4
  <2>2. Append(st.list[b], m) # <<>>
    BY <1>1, <1>3, <1>4
  <2> QED
    BY <2>1, <2>2
<1>5. CASE b # <<id, type>>
  <2>1. b \in st.has /\ new.list[b] = st.list[b]
    BY <1>1, <1>2, <1>3, <1>5
  <2> QED
    BY <2>1 DEF Kept
<1> QED
  BY <1>4, <1>5

\* A pop empties no other list than its own.
LEMMA PopKept ==
  ASSUME NEW st \in Stores, NEW b \in Boxes, CanPop(st, b), b \notin Peeked, Kept(st)
  PROVE  Kept(pop_resource(st, b))
<1>1. st.list \in [Boxes -> Seq(Messages)] /\ st.has \subseteq Boxes
  BY DEF Stores
<1>2. pop_resource(st, b).list = [st.list EXCEPT ![b] = Tail(@)]
  BY PopStore
<1>3. pop_resource(st, b).has = st.has
  BY DEF pop_resource, Stores
<1> QED
  BY <1>1, <1>2, <1>3 DEF Kept

\* The webhook handlers keep the lists.
LEMMA WebhooksKept ==
  ASSUME TypeInv, Kept(store), Webhook
  PROVE  Kept(store')
<1>1. store \in Stores /\ inflight \subseteq Messages
      /\ fetching \subseteq [msg : Messages, thread : DataIds]
  BY DEF TypeInv, TypeOK
<1>2. "revocation-registry-msg" \in DataTypes
  BY DEF DataTypes
<1>3. ASSUME NEW m \in inflight, ReceiveRecord(m) PROVE Kept(store')
  <2> DEFINE type == TypeOf(Protocol[m.ex])
             st   == push_resource(store, m.ex, type, m)
  <2>1. m \in Messages /\ m.ex \in Exchanges /\ m.ex \in DataIds
    BY <1>1 DEF Messages, DataIds
  <2>2. type \in DataTypes
    BY <2>1, ConstantsAssumption DEF TypeOf, DataTypes, Protocols
  <2>3. st \in Stores /\ Kept(st)
    BY <1>1, <2>1, <2>2, PushStore, PushKept
  <2>4. Kept(push_resource(st, m.ex, "revocation-registry-msg", m))
    BY <1>2, <2>1, <2>3, PushKept
  <2>5. store' \in {store, st, push_resource(st, m.ex, "revocation-registry-msg", m)}
    BY <1>3 DEF ReceiveRecord, Filed
  <2> HIDE DEF st
  <2> QED
    BY <2>3, <2>4, <2>5
<1>4. ASSUME NEW f \in fetching, FinishAnoncreds(f) PROVE Kept(store')
  <2>1. f.msg \in Messages /\ f.thread \in DataIds
    BY <1>1
  <2>2. CASE store' = push_resource(store, f.thread, "revocation-registry-msg", f.msg)
    BY <1>1, <1>2, <2>1, <2>2, PushKept
  <2> QED
    BY <1>4, <2>2 DEF FinishAnoncreds
<1> QED
  BY <1>3, <1>4 DEF Webhook, ReceiveAnoncreds

\* Every step keeps the lists a swap peeks at.
LEMMA StepPeeks == PeekInv /\ [Next]_vars => PeekInv'
<1> SUFFICES ASSUME PeekInv, [Next]_vars PROVE PeekInv'
  OBVIOUS
<1> USE DEF PeekInv
<1> DEFINE Goal == /\ Kept(store')
                   /\ handler' \notin {"implicit", "implicit-first", "implicit-next"}
                   /\ KeyedPoll' => box' \in Polled
                   /\ handler' = "swapping" => Swaps(op', target')
                   /\ resp'.kind # "index-error"
<1>1. ASSUME UNCHANGED <<store, requestVars>> PROVE Goal
  BY <1>1 DEF requestVars, KeyedPoll, NoIndexError, Swaps
<1>2. ASSUME Webhook PROVE Goal
  <2>1. Kept(store')
    BY <1>2, WebhooksKept
  <2>2. UNCHANGED requestVars
    BY <1>2 DEF Webhook, ReceiveRecord, ReceiveAnoncreds, FinishAnoncreds
  <2> QED
    BY <2>1, <2>2 DEF requestVars, KeyedPoll, NoIndexError, Swaps
<1>3. ASSUME NEW r, Respond(r), r.kind # "index-error", Kept(store') PROVE Goal
  BY <1>3 DEF Respond, KeyedPoll
<1>4. \A k : Response(k).kind = k
  BY DEF Response
<1>5. ASSUME NEW topic \in ResponseTopics, NEW x \in Exchanges, RequestPoll(topic, x)
      PROVE  Goal
  <2>1. box' \in Polled /\ handler' = "poll" /\ resp' = Response("none") /\ store' = store
    <3>1. <<topic, x>> \in Polls
      BY <1>5 DEF RequestPoll
    <3>2. <<x, ResponseType(topic)>> \in Polled
      BY <3>1 DEF Polled
    <3> QED
      BY <1>5, <3>2 DEF RequestPoll, Accept, webhookVars
  <2> QED
    BY <1>4, <2>1
<1>6. ASSUME NEW o \in Ops, NEW x \in Exchanges, RequestPost(o, x) PROVE Goal
  BY <1>4, <1>6 DEF RequestPost, Accept, webhookVars, KeyedPoll
<1>7. ~RequestImplicit
  BY DEF RequestImplicit, PeekedUnpolled
<1>8. ASSUME BeginPoll \/ WakePoll PROVE Goal
  <2>1. box \in Boxes /\ KeyedPoll /\ box \in Polled /\ box \notin Peeked
    BY <1>8 DEF BeginPoll, WakePoll, TypeInv, PollHasBox, KeyedPoll, PeekedUnpolled
  <2>2. CASE TakeHead(box)
    <3>1. Kept(store')
      BY <2>1, <2>2, PopKept DEF TakeHead, TypeInv, TypeOK
    <3> QED
      BY <1>3, <2>2, <3>1 DEF TakeHead
  <2>3. ASSUME NEW t, FindNothing("polling", t) PROVE Goal
    <3>1. store' = store
      BY <2>3 DEF FindNothing, webhookVars
    <3>2. CASE Suspend("polling", t)
      BY <2>1, <3>1, <3>2 DEF Suspend, NoIndexError
    <3>3. CASE Respond(Response("empty"))
      BY <1>3, <1>4, <3>1, <3>3
    <3> QED
      BY <2>3, <3>2, <3>3 DEF FindNothing
  <2> QED
    BY <1>8, <2>2, <2>3 DEF BeginPoll, WakePoll
<1>9. ~(BeginImplicit \/ WakeImplicitFirst \/ WakeImplicitNext)
  BY DEF BeginImplicit, WakeImplicitFirst, WakeImplicitNext
<1>10. ASSUME NEW x, Proceed(x), store' = store PROVE Goal
  BY <1>10 DEF Proceed, NoIndexError, KeyedPoll
<1>11. ASSUME NEW t, SwapLook(t), Swaps(op, target) PROVE Goal
  <2>1. store' = store
    BY <1>11 DEF SwapLook, webhookVars
  <2>2. NoResource(store, ThreadBox) \/ store.list[ThreadBox] # <<>>
    BY <1>11, SwapPeeks DEF TypeInv, Kept, NoResource
  <2>3. CASE Respond(Response("timeout"))
    BY <1>3, <1>4, <2>1, <2>3
  <2>4. CASE Suspend("swapping", t)
    BY <1>11, <2>1, <2>4 DEF Suspend, NoIndexError, KeyedPoll, Swaps
  <2> QED
    BY <1>10, <1>11, <2>1, <2>2, <2>3, <2>4 DEF SwapLook
<1>12. ASSUME BeginPost PROVE Goal
  <2>1. CASE Respond(Response("done")) /\ UNCHANGED <<agentVars, webhookVars>>
    BY <1>3, <1>4, <2>1 DEF webhookVars
  <2> QED
    BY <1>10, <1>11, <1>12, <2>1 DEF BeginPost, webhookVars
<1>13. ASSUME WakeSwap PROVE Goal
  BY <1>11, <1>13 DEF WakeSwap
<1>14. ASSUME CheckState PROVE Goal
  <2>1. store' = store
    BY <1>14 DEF CheckState, webhookVars
  <2>2. ASSUME NEW p \in {"settling", "checking"}, NEW t, Suspend(p, t) PROVE Goal
    BY <2>1, <2>2 DEF Suspend, NoIndexError, KeyedPoll
  <2>3. CASE Respond(Response("state-error"))
    BY <1>3, <1>4, <2>1, <2>3
  <2> QED
    BY <1>14, <2>2, <2>3 DEF CheckState
<1>15. ASSUME SendPost PROVE Goal
  BY <1>3, <1>4, <1>15 DEF SendPost, webhookVars
<1>16. Goal
  BY <1>1, <1>2, <1>5, <1>6, <1>7, <1>8, <1>9, <1>12, <1>13, <1>14, <1>15
     DEF Next, Agent, Harness, Serve, vars, webhookVars
<1>17. TypeInv'
  BY StepTypes
<1>18. PeekedUnpolled' = PeekedUnpolled
  BY DEF PeekedUnpolled, Peeked, Polled
<1>19. Kept(store') => Kept(store)'
  BY DEF Kept, Peeked
<1>20. (KeyedPoll' => box' \in Polled) => (KeyedPoll => box \in Polled)'
  BY DEF Polled
<1>21. Swaps(op', target') => Swaps(op, target)'
  BY DEF Swaps
<1> QED
  BY <1>16, <1>17, <1>18, <1>19, <1>20, <1>21 DEF NoIndexError

\* No list exists at the start.
LEMMA InitPeeks == PeekedUnpolled /\ Init => PeekInv
<1>1. EmptyStore.has = {} /\ Response("none").kind = "none"
  BY DEF EmptyStore, Response
<1> QED
  BY <1>1, InitTypes DEF Init, PeekInv, Kept, KeyedPoll, NoIndexError

\* A swap never raises the IndexError it does not catch, whatever webhooks arrive
\* and are polled: no poll is for the boxes it peeks at.
THEOREM SwapsNeverRaise == PeekedUnpolled /\ Spec => []NoIndexError
<1>1. PeekInv => NoIndexError
  BY DEF PeekInv
<1> QED
  BY <1>1, InitPeeks, StepPeeks, PTL DEF Spec, Safety
=============================================================================
