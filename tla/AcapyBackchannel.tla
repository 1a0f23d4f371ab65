-------------------------- MODULE AcapyBackchannel --------------------------
(***************************************************************************)
(* One ACA-Py backchannel process (aries-backchannels/acapy) between the   *)
(* test harness, which sends it one HTTP request at a time, and its agent, *)
(* whose webhooks arrive at any moment.                                    *)
(*                                                                         *)
(* The backchannel is a single asyncio event loop: a handler runs          *)
(* undisturbed from one await to the next, and webhook handlers run while  *)
(* the handler of the harness' request sleeps or waits for the admin API.  *)
(* Each action below is one such segment; handler names the await at which *)
(* the request being served is suspended.                                  *)
(*                                                                         *)
(* The agent is external.  Its exchange records move through               *)
(*   0 none, 1 started, 2 the state an acting operation waits for          *)
(*   (request_received, presentation_received, request), 3 acted on,       *)
(*   4 done, 5 abandoned, 6 deleted                                        *)
(* and every move sends one webhook.  Webhooks are separate HTTP requests, *)
(* so they arrive in any order.                                            *)
(***************************************************************************)
EXTENDS Naturals, Sequences

CONSTANTS
  Exchanges,     \* exchanges, named by the id their webhooks are filed under
  Protocol,      \* the protocol of each exchange
  Revocable,     \* the exchanges whose credential can be revoked
  V2,            \* the exchanges that speak version 2 of their protocol
  Anoncreds,     \* the exchanges of an anoncreds wallet
  AutoRespond,   \* the protocols the agent runs with the --auto-... flags of
  Polls,         \* the <<topic, exchange>> pairs the harness may poll
  Implicit,      \* the harness uses receive-request-resolvable-did
  MaxTimeout,    \* MAX_TIMEOUT: sleeps of a poll before it answers {}
  WaitTime,      \* wait_time of swap_thread_id_for_exchange_id
  StatePolls,    \* int(wait_time / sleep_time) of expected_agent_state
  MaxRequests,   \* bound on the requests of the harness
  NoThread,      \* the data id None
  Nothing        \* no message

Started     == 1
Awaited     == 2
Acted       == 3
Done        == 4
Abandoned   == 5
Deleted     == 6

Protocols ==
  {"connection", "did-exchange", "issue-credential", "present-proof",
   "out-of-band", "revocation-notification", "revocation-registry",
   "problem-report"}

ResponseTopics ==
  {"connection", "did-exchange", "issue-credential", "credential", "proof",
   "revocation-registry", "revocation-notification"}

DataTypes ==
  {"connection-msg", "didexchange-msg", "credential-msg", "presentation-msg",
   "out-of-band-msg", "revocation-notification-msg",
   "revocation-registry-msg", "problem-report-msg"}

Ops == {"create", "reply", "act"}

ASSUME ConstantsAssumption ==
  /\ Protocol \in [Exchanges -> Protocols]
  /\ Revocable \subseteq Exchanges
  /\ V2 \subseteq Exchanges
  /\ Anoncreds \subseteq V2
  /\ AutoRespond \subseteq Protocols
  /\ Implicit \in BOOLEAN
  /\ Polls \subseteq ResponseTopics \X Exchanges
  /\ MaxTimeout \in Nat \ {0}
  /\ WaitTime \in Nat \ {0}
  /\ StatePolls \in Nat \ {0}
  /\ MaxRequests \in Nat
  /\ NoThread \notin Exchanges

DataIds == Exchanges \cup {NoThread}

RecordStates == 0..Deleted

\* A webhook: the exchange, the state its record moved to, and whether it is
\* the exchange's own record or the detail record of an anoncreds wallet.
Messages ==
  [ex : Exchanges, state : RecordStates, kind : {"record", "anoncreds"}]

INSTANCE Storage

VARIABLES
  record,      \* [Exchanges -> RecordStates]: the agent's exchange records
  inflight,    \* webhooks sent and not yet received
  fetching,    \* anoncreds handlers that await GET /credential/{id}
  store,       \* storage of python/storage.py
  mapped,      \* the exchanges with a cred_ex_id in exch_to_data_id
  handler,     \* where the request being served is suspended
  op,          \* its operation (POST) ...
  target,      \* ... the exchange it names ...
  box,         \* ... the box it polls (GET) ...
  subject,     \* ... and the record its POST will be sent to
  tries,       \* i of the poll loops, timeout of the swap loop
  resp,        \* the last response to the harness
  served,      \* number of requests so far
  taken        \* history: the webhooks handed to the harness, with their box

agentVars   == <<record, inflight>>
webhookVars == <<fetching, store, mapped, taken>>
requestVars == <<handler, op, target, box, subject, tries, resp, served>>
vars        == <<agentVars, webhookVars, requestVars>>

HandlerPoints ==
  {"idle", "poll", "polling", "implicit", "implicit-first", "implicit-next",
   "post", "swapping", "checking", "settling"}

NoBox == <<NoThread, "none">>

Responses ==
  [kind : {"none", "message", "empty", "index-error", "timeout",
           "state-error", "done", "refused"},
   msg  : Messages \cup {Nothing}]

Response(k) == [kind |-> k, msg |-> Nothing]

----------------------------------------------------------------------------
(* The agent (external).                                                   *)

Webhooks(x, s) ==
  {[ex |-> x, state |-> s, kind |-> "record"]} \cup
  (IF x \in Anoncreds /\ s \in {Awaited, Done}
   THEN {[ex |-> x, state |-> s, kind |-> "anoncreds"]} ELSE {})

Move(x, s) ==
  /\ record' = [record EXCEPT ![x] = s]
  /\ inflight' = inflight \cup Webhooks(x, s)

\* out-of-band, notification, registry and problem-report topics send one webhook.
LongLived(x) ==
  Protocol[x] \in {"connection", "did-exchange", "issue-credential", "present-proof"}

\* Moves made by the agent itself or on a message of the other agent.  Only an
\* agent with the auto flags leaves the awaited state on its own.
AgentMoves(x, s) ==
  \/ record[x] = 0 /\ s = Started
  \/ /\ LongLived(x)
     /\ \/ record[x] = Started /\ s \in {Awaited, Abandoned}
        \/ record[x] = Awaited /\ s \in {Abandoned} \cup (IF Protocol[x] \in AutoRespond THEN {Acted} ELSE {})
        \/ record[x] = Acted /\ s \in {Done, Abandoned}
        \/ record[x] \in {Done, Abandoned} /\ s = Deleted

Agent ==
  /\ \E x \in Exchanges, s \in RecordStates : AgentMoves(x, s) /\ Move(x, s)
  /\ UNCHANGED <<webhookVars, requestVars>>

----------------------------------------------------------------------------
(* Webhook handlers.                                                       *)

\* Mutant: the webhook topic itself is taken for the data type.
TypeOfTopic(p) == p

TypeOf(p) ==
  CASE p = "connection"              -> "connection-msg"
    [] p = "did-exchange"            -> "didexchange-msg"
    [] p = "issue-credential"        -> "credential-msg"
    [] p = "present-proof"           -> "presentation-msg"
    [] p = "out-of-band"             -> "out-of-band-msg"
    [] p = "revocation-notification" -> "revocation-notification-msg"
    [] p = "revocation-registry"     -> "revocation-registry-msg"
    [] p = "problem-report"          -> "problem-report-msg"

Ignored(m) ==
  /\ m.state = Deleted
  /\ Protocol[m.ex] \in {"issue-credential", "present-proof"}

\* "revocation_id" in message: an indy record carries it once the credential
\* has been issued.
CarriesRevocation(m) ==
  /\ Protocol[m.ex] = "issue-credential"
  /\ m.ex \in Revocable \ Anoncreds
  /\ m.state \in {Acted, Done}

\* handle_connections, handle_issue_credential and the other record handlers:
\* no await, so one step files the webhook under its id, and under the
\* revocation type too when it carries revocation data.
Filed(m) ==
  LET st == push_resource(store, m.ex, TypeOf(Protocol[m.ex]), m)
  IN IF Ignored(m) THEN store
     ELSE IF CarriesRevocation(m)
          THEN push_resource(st, m.ex, "revocation-registry-msg", m)
          ELSE st

ReceiveRecord(m) ==
  /\ m \in inflight
  /\ m.kind = "record"
  /\ inflight' = inflight \ {m}
  /\ store' = Filed(m)
  /\ mapped' = IF Protocol[m.ex] = "issue-credential" /\ m.ex \in V2 /\ ~Ignored(m)
               THEN mapped \cup {m.ex} ELSE mapped
  /\ UNCHANGED <<record, fetching, taken, requestVars>>

\* handle_issue_credential_v2_0_anoncreds looks the thread up first.  The lookup
\* raises KeyError (the webhook is lost) when the map exists without the id, and
\* answers None when no credential has been mapped yet.
ReceiveAnoncreds(m) ==
  /\ m \in inflight
  /\ m.kind = "anoncreds"
  /\ inflight' = inflight \ {m}
  /\ fetching' =
       IF (mapped = {} \/ m.ex \in mapped) /\ m.state = Done
       THEN fetching \cup {[msg    |-> m,
                            thread |-> IF mapped = {} THEN NoThread ELSE m.ex]}
       ELSE fetching
  /\ UNCHANGED <<record, store, mapped, taken, requestVars>>

\* Mutant: the handler runs once more after it has filed its webhook.
FinishAnoncredsAgain(f) ==
  /\ f \in fetching
  /\ f.msg.ex \in Revocable
  /\ store' = push_resource(store, f.thread, "revocation-registry-msg", f.msg)
  /\ UNCHANGED <<record, inflight, fetching, mapped, taken, requestVars>>

\* ... and files the webhook, after the await, under the thread it read before.
FinishAnoncreds(f) ==
  /\ f \in fetching
  /\ fetching' = fetching \ {f}
  /\ \/ /\ f.msg.ex \in Revocable
        /\ store' = push_resource(store, f.thread, "revocation-registry-msg", f.msg)
     \/ UNCHANGED store              \* GET failed, or no cred_rev_id in the answer
  /\ UNCHANGED <<record, inflight, mapped, taken, requestVars>>

----------------------------------------------------------------------------
(* Requests of the harness: one at a time.                                 *)

Accept(point) ==
  /\ handler = "idle"
  /\ served < MaxRequests
  /\ served' = served + 1
  /\ handler' = point
  /\ tries' = 0
  /\ resp' = Response("none")
  /\ UNCHANGED <<agentVars, webhookVars>>

\* resp_text of a finished request; the handler is done.
Respond(r) ==
  /\ handler' = "idle"
  /\ resp' = r
  /\ op' = "create" /\ box' = NoBox /\ tries' = 0
  /\ UNCHANGED <<target, subject, served>>

Suspend(point, t) ==
  /\ handler' = point
  /\ tries' = t
  /\ UNCHANGED <<op, target, box, subject, resp, served>>

\* Mutant: revocation data is looked up among the credential messages.
ResponseTypeCredential(topic) ==
  CASE topic = "connection"              -> "connection-msg"
    [] topic = "did-exchange"            -> "didexchange-msg"
    [] topic = "proof"                   -> "presentation-msg"
    [] topic = "revocation-notification" -> "revocation-notification-msg"
    [] OTHER                             -> "credential-msg"

ResponseType(topic) ==
  CASE topic = "connection"              -> "connection-msg"
    [] topic = "did-exchange"            -> "didexchange-msg"
    [] topic = "issue-credential"        -> "credential-msg"
    [] topic = "credential"              -> "credential-msg"
    [] topic = "proof"                   -> "presentation-msg"
    [] topic = "revocation-registry"     -> "revocation-registry-msg"
    [] topic = "revocation-notification" -> "revocation-notification-msg"

\* GET /agent/response/{topic}/{id}
RequestPoll(topic, x) ==
  /\ <<topic, x>> \in Polls
  /\ box' = <<x, ResponseType(topic)>>
  /\ Accept("poll")
  /\ UNCHANGED <<op, target, subject>>

\* One pop of a poll: hand the message over, or go on sleeping while i < MAX_TIMEOUT.
TakeHead(b) ==
  /\ CanPop(store, b)
  /\ store' = pop_resource(store, b)
  /\ taken' = taken \cup {<<b, PoppedHead(store, b)>>}
  /\ Respond([kind |-> "message", msg |-> PoppedHead(store, b)])
  /\ UNCHANGED <<agentVars, fetching, mapped>>

FindNothing(point, i) ==
  /\ IF i < MaxTimeout THEN Suspend(point, i) ELSE Respond(Response("empty"))
  /\ UNCHANGED <<agentVars, webhookVars>>

BeginPoll ==
  /\ handler = "poll"
  /\ \/ TakeHead(box)
     \/ ~CanPop(store, box) /\ FindNothing("polling", 0)

WakePoll ==
  /\ handler = "polling"
  /\ \/ TakeHead(box)
     \/ ~CanPop(store, box) /\ FindNothing("polling", tries + 1)

\* POST did-exchange receive-request-resolvable-did: no id, so the handler pops
\* the latest didexchange-msg once, and then the latest connection-msg.
RequestImplicit ==
  /\ Implicit
  /\ Accept("implicit")
  /\ UNCHANGED <<op, target, box, subject>>

BeginImplicit ==
  /\ handler = "implicit"
  /\ Suspend("implicit-first", 0)
  /\ UNCHANGED <<agentVars, webhookVars>>

TakeLatest(type, i) ==
  LET b == LatestBox(store, type) IN
  \/ /\ LatestRaises(store)
     /\ Respond(Response("index-error"))
     /\ UNCHANGED <<agentVars, webhookVars>>
  \/ /\ ~LatestRaises(store)
     /\ CanPop(store, b)
     /\ store' = pop_resource_latest(store, b)
     /\ taken' = taken \cup {<<b, PoppedTail(store, b)>>}
     /\ Respond([kind |-> "message", msg |-> PoppedTail(store, b)])
     /\ UNCHANGED <<agentVars, fetching, mapped>>
  \/ /\ ~LatestRaises(store)
     /\ ~CanPop(store, b)
     /\ FindNothing("implicit-next", i)

WakeImplicitFirst ==
  /\ handler = "implicit-first"
  /\ TakeLatest("didexchange-msg", 0)

WakeImplicitNext ==
  /\ handler = "implicit-next"
  /\ TakeLatest("connection-msg", tries + 1)

----------------------------------------------------------------------------
(* POST of an operation on an exchange.                                    *)

RequestPost(o, x) ==
  /\ LongLived(x)
  /\ o = "create" => record[x] = 0
  /\ op' = o
  /\ target' = x
  /\ subject' = x
  /\ Accept("post")
  /\ UNCHANGED box

\* In auto mode the operation is not called and the answer is 200.
Skipped(o, x) ==
  /\ Protocol[x] \in AutoRespond
  /\ o # "create"
  /\ \/ Protocol[x] = "issue-credential"
     \/ Protocol[x] \in {"connection", "did-exchange"} /\ o = "act"
     \/ Protocol[x] = "present-proof" /\ o = "reply"

Swaps(o, x) == o # "create" /\ Protocol[x] \in {"issue-credential", "present-proof"}

\* Version 2 operations and DID exchange go ahead without a look.
Waits(o, x) ==
  o = "act" /\ Protocol[x] \notin AutoRespond /\ x \notin V2 /\ Protocol[x] # "did-exchange"

\* The exchange is known: wait for its state, or go straight to the sleep(1) and
\* the POST.
Proceed(x) ==
  /\ handler' = IF Waits(op, x) THEN "checking" ELSE "settling"
  /\ subject' = x
  /\ tries' = 0
  /\ UNCHANGED <<op, target, box, resp, served>>

\* Mutant: the swap looks at the id inserted last.
ThreadBoxLatest ==
  IF LatestRaises(store) THEN <<target, TypeOf(Protocol[target])>>
  ELSE LatestBox(store, TypeOf(Protocol[target]))

ThreadBox == <<target, TypeOf(Protocol[target])>>

\* One turn of the loop of swap_thread_id_for_exchange_id with timeout = t.
\* A missing list is the TypeError it catches, an empty one is an IndexError it
\* does not catch, and the test after the loop compares timeout with wait_time.
SwapLook(t) ==
  /\ \/ t > WaitTime /\ Respond(Response("timeout"))
     \/ /\ t <= WaitTime
        /\ NoResource(store, ThreadBox)
        /\ Suspend("swapping", t)
     \/ /\ t <= WaitTime
        /\ ~NoResource(store, ThreadBox)
        /\ store.list[ThreadBox] = <<>>
        /\ Respond(Response("index-error"))
     \/ /\ t <= WaitTime
        /\ ~NoResource(store, ThreadBox)
        /\ store.list[ThreadBox] # <<>>
        /\ IF t >= WaitTime THEN Respond(Response("timeout"))
           ELSE Proceed(Head(store.list[ThreadBox]).ex)
  /\ UNCHANGED <<agentVars, webhookVars>>

BeginPost ==
  /\ handler = "post"
  /\ \/ /\ Skipped(op, target)
        /\ Respond(Response("done"))
        /\ UNCHANGED <<agentVars, webhookVars>>
     \/ /\ ~Skipped(op, target)
        /\ Swaps(op, target)
        /\ SwapLook(0)
     \/ /\ ~Skipped(op, target)
        /\ ~Swaps(op, target)
        /\ Proceed(target)
        /\ UNCHANGED <<agentVars, webhookVars>>

\* Mutant: the swap pops the webhook it reads.
WakeSwapPops ==
  /\ handler = "swapping"
  /\ IF CanPop(store, ThreadBox) /\ tries + 1 < WaitTime
     THEN /\ store' = pop_resource(store, ThreadBox)
          /\ Proceed(target)
          /\ UNCHANGED <<agentVars, fetching, mapped, taken>>
     ELSE SwapLook(tries + 1)

WakeSwap ==
  /\ handler = "swapping"
  /\ SwapLook(tries + 1)

\* Mutant: the POST is sent after the last look, whatever it saw.
CheckStateProceeds ==
  /\ handler = "checking"
  /\ IF record[subject] = Awaited \/ tries + 1 >= StatePolls THEN Suspend("settling", 0)
     ELSE Suspend("checking", tries + 1)
  /\ UNCHANGED <<agentVars, webhookVars>>

\* Mutant: i is not counted.
CheckStateForever ==
  /\ handler = "checking"
  /\ IF record[subject] = Awaited THEN Suspend("settling", 0)
     ELSE Suspend("checking", tries)
  /\ UNCHANGED <<agentVars, webhookVars>>

\* One GET of expected_agent_state.
CheckState ==
  /\ handler = "checking"
  /\ IF record[subject] = Awaited THEN Suspend("settling", 0)
     ELSE IF tries + 1 < StatePolls THEN Suspend("checking", tries + 1)
     ELSE Respond(Response("state-error"))
  /\ UNCHANGED <<agentVars, webhookVars>>

\* The admin API accepts an operation in the state it belongs to.
AgentStep(o) ==
  CASE o = "create" -> <<0, Started>>
    [] o = "reply"  -> <<Started, Awaited>>
    [] o = "act"    -> <<Awaited, Acted>>

\* After sleep(1) the operation is POSTed, whatever the record does meanwhile.
SendPost ==
  /\ handler = "settling"
  /\ \/ /\ record[subject] = AgentStep(op)[1]
        /\ Move(subject, AgentStep(op)[2])
        /\ Respond(Response("done"))
     \/ /\ record[subject] # AgentStep(op)[1]
        /\ Respond(Response("refused"))
        /\ UNCHANGED agentVars
  /\ UNCHANGED webhookVars

----------------------------------------------------------------------------
Init ==
  /\ record = [x \in Exchanges |-> 0]
  /\ inflight = {}
  /\ fetching = {}
  /\ store = EmptyStore
  /\ mapped = {}
  /\ handler = "idle"
  /\ op = "create"
  /\ target \in Exchanges
  /\ subject = target
  /\ box = NoBox
  /\ tries = 0
  /\ resp = Response("none")
  /\ served = 0
  /\ taken = {}

Webhook ==
  \/ \E m \in inflight : ReceiveRecord(m) \/ ReceiveAnoncreds(m)
  \/ \E f \in fetching : FinishAnoncreds(f)

Harness ==
  \/ \E topic \in ResponseTopics, x \in Exchanges : RequestPoll(topic, x)
  \/ RequestImplicit
  \/ \E o \in Ops, x \in Exchanges : RequestPost(o, x)

Serve ==
  \/ BeginPoll \/ WakePoll
  \/ BeginImplicit \/ WakeImplicitFirst \/ WakeImplicitNext
  \/ BeginPost \/ WakeSwap \/ CheckState \/ SendPost

Next == Agent \/ Webhook \/ Harness \/ Serve

Safety == Init /\ [][Next]_vars

\* The event loop runs every handler that is ready, and every sleep and every
\* admin request ends; nothing is assumed of the agent or of the harness.
Spec == Safety /\ WF_vars(Serve)

----------------------------------------------------------------------------
(* Properties.                                                             *)

\* Every variable has its type, and the store the shape pushes and pops keep.
TypeOK ==
  /\ record \in [Exchanges -> RecordStates]
  /\ inflight \in SUBSET Messages
  /\ fetching \in SUBSET [msg : Messages, thread : DataIds]
  /\ store \in Stores
  /\ mapped \in SUBSET Exchanges
  /\ handler \in HandlerPoints
  /\ op \in Ops
  /\ target \in Exchanges
  /\ subject \in Exchanges
  /\ box \in Boxes \cup {NoBox}
  /\ tries \in Nat
  /\ resp \in Responses
  /\ served \in Nat
  /\ taken \in SUBSET (Boxes \X Messages)

\* A webhook is handed to the harness at most once: what waits in a box waits
\* there once, has been received, and has not been handed out before
\* (push_resource, pop_resource and the poll loops of
\* make_agent_GET_request_response).
HandedOnce ==
  \A b \in Boxes : \A i \in DOMAIN store.list[b] :
    /\ store.list[b][i] \notin inflight
    /\ <<b, store.list[b][i]>> \notin taken
    /\ \A j \in DOMAIN store.list[b] :
         store.list[b][i] = store.list[b][j] => i = j

\* The exchange id swapped in for a thread id is the one of that thread, however
\* many webhooks arrived, were polled or were reordered meanwhile.
PostsToItsOwnRecord == subject = target

\* An operation that acts on a message of the other agent (accept-request, issue,
\* verify-presentation) is not POSTed before that message has reached the agent,
\* although the check and the POST are separated by awaits.
NotBeforeItsMessage ==
  handler = "settling" /\ Waits(op, subject) => record[subject] >= Awaited

\* Serving a POST never takes a webhook away from later polls.
PostsLeaveWebhooks ==
  [][(handler \in {"post", "swapping", "checking", "settling"})
       => (\A b \in Boxes : Len(store.list[b]) <= Len(store'.list[b]))]_vars

\* The swap indexes msg[0] of a list that is never empty: the boxes it peeks at
\* are not among those the harness polls.
NoIndexError == resp.kind # "index-error"

\* Every request of the harness is answered.
EveryRequestAnswered == handler # "idle" ~> handler = "idle"

\* What the TimeoutError of swap_thread_id_for_exchange_id says: it is raised when
\* no webhook of the thread came.
TimeoutMeansNoWebhook ==
  [][resp'.kind = "timeout" /\ resp.kind # "timeout" => NoResource(store, ThreadBox)]_vars

\* receive-request-resolvable-did returns a webhook message: it answers {} only
\* when no DID exchange webhook waits.
ImplicitFindsWaiting ==
  [][handler = "implicit-next" /\ resp'.kind = "empty"
       => (\A x \in Exchanges : ~CanPop(store, <<x, "didexchange-msg">>))]_vars

\* Seen through its polls the backchannel is a mailbox: it implements Mailbox.
KeyedPoll == handler \in {"poll", "polling"}

Mbox == INSTANCE Mailbox WITH
  Ids       <- DataIds,
  Types     <- DataTypes,
  TailTypes <- {"didexchange-msg", "connection-msg"},
  Payloads  <- Messages,
  NoPayload <- Nothing,
  waiting   <- store.list,
  asked     <- IF KeyedPoll THEN box ELSE NoBox,
  answer    <- resp.msg

\* A poll is answered by the oldest webhook of its box, or by {} when none waits
\* there at that moment, and every poll is answered; webhooks wait in order of
\* arrival whatever else the backchannel serves meanwhile.
MailboxSpec == Mbox!MSpec
=============================================================================
