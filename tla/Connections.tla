----------------------------- MODULE Connections -----------------------------
(***************************************************************************)
(* The scenarios that connect two agents: the connection protocol (0160)   *)
(* and DID exchange (0023), with the steps of the harness, the context in  *)
(* which it keeps connection ids, the backchannels (ACA-Py for both        *)
(* protocols, Credo-TS for 0160) and the agents (external).                *)
(*                                                                         *)
(* An exchange is named by its invitation, or by its request where a       *)
(* public DID stands in for an invitation.  Every agent that takes part    *)
(* has a record of it, and a connection id names such a record:            *)
(* connection_id_dict[a][b] = x is a's record of exchange x.               *)
(*                                                                         *)
(* Scenarios run one after another.  The context is new in each; the       *)
(* records of the agents and the webhooks filed at the backchannels stay.  *)
(* A wait is bounded but its bound is not counted: it may end at any       *)
(* moment.  late and missed remember why what it waited for was not there. *)
(***************************************************************************)
EXTENDS Naturals, Sequences, FiniteSets

CONSTANTS
  Agents,
  Exchanges,
  Scenarios,   \* [protocol, form, reuse, first, second, steps]
  MaxRuns,     \* bound on the scenarios run
  None         \* no exchange, no agent

Protocols == {"connection", "did-exchange"}

\* The steps of features/steps/0160-connection.py and 0023-did-exchange.py.
Deeds ==
  {"generate", "receive", "request", "respond", "ping", "connected",
   "invite", "take", "ask", "hear", "answer", "repeat", "answered",
   "askPublic", "hearPublic"}

Steps == [do : Deeds, by : Agents, to : Agents]

ASSUME ConnectionsAssumption ==
  /\ None \notin Agents \cup Exchanges
  /\ Scenarios \subseteq [protocol : Protocols, form : {"connection", "invitation", "public", "request"},
                          reuse : BOOLEAN, first : Agents, second : Agents \cup {None},
                          steps : Seq(Steps)]
  /\ \A s \in Scenarios : s.steps # <<>>
  /\ \A s \in Scenarios : \A i \in 1..Len(s.steps) :
       s.steps[i].do = "hearPublic" => s.form = "request"
  /\ MaxRuns \in Nat \ {0}

\* Who does a step: the agent who invites, or the one who is invited.
Inviting == {"generate", "respond", "invite", "hear", "answer", "repeat", "hearPublic"}

\* A step by which a, who invites, and b are connected.
Between(s, a, b) ==
  /\ a # b
  /\ \/ s.do = "connected" /\ {s.by, s.to} = {a, b}
     \/ s.do \in Inviting /\ s.by = a /\ s.to = b
     \/ s.do \notin Inviting \cup {"connected"} /\ s.by = b /\ s.to = a

\* The step of a third agent, who receives the invitation of the step before too.
Intrudes(before, s) == s.do = "receive" /\ before.do # "generate" /\ s.by \notin {before.by, before.to}

\* What comes right before a step of the two protocols.
Precedes ==
  [receive |-> {"generate"}, request |-> {"receive"}, respond |-> {"request"}, ping |-> {"respond"},
   connected |-> {"ping", "answered", "repeat"}, generate |-> {"connected"}, invite |-> {},
   take |-> {"invite"}, ask |-> {"take"}, hear |-> {"ask"}, answer |-> {"hear", "hearPublic"},
   repeat |-> {"answered"}, answered |-> {"answer"}, askPublic |-> {}, hearPublic |-> {"askPublic"}]

ConnectionDeeds == {"generate", "receive", "request", "respond", "ping", "connected"}

Responders == {s.first : s \in {t \in Scenarios : t.protocol = "did-exchange"}}

\* The steps of a scenario come in the order of the feature files: it begins an exchange,
\* goes on with it, and looks at the connection in the end; only 0160 begins a second one,
\* and has a third agent, whose step is the last.  In 0023 the agents keep their roles.
ASSUME ScenarioAssumption ==
  \A s \in Scenarios :
    /\ \A i \in 2..Len(s.steps) :
         \/ i = Len(s.steps) /\ Intrudes(s.steps[i-1], s.steps[i])
         \/ /\ s.steps[i-1].do \in Precedes[s.steps[i].do]
            /\ \/ s.steps[i].do = "generate"
               \/ \E a, b \in Agents : Between(s.steps[i-1], a, b) /\ Between(s.steps[i], a, b)
    /\ \/ s.steps[Len(s.steps)].do = "connected"
       \/ Len(s.steps) > 1 /\ Intrudes(s.steps[Len(s.steps)-1], s.steps[Len(s.steps)])
    /\ s.protocol = "connection" =>
         /\ s.form = "connection" /\ ~s.reuse
         /\ s.steps[1].do = "generate"
         /\ \A i \in 1..Len(s.steps) : s.steps[i].do \in ConnectionDeeds /\ s.steps[i].by # s.steps[i].to
    /\ s.protocol = "did-exchange" =>
         /\ s.form # "connection" /\ (s.reuse => s.form = "public")
         /\ s.steps[1].do = IF s.form = "request" THEN "askPublic" ELSE "invite"
         /\ s.second \in Agents \ Responders
         /\ \A i \in 1..Len(s.steps) : /\ s.steps[i].do \notin ConnectionDeeds \ {"connected"}
                                       /\ Between(s.steps[i], s.first, s.second)

VARIABLES
  kind,        \* [Agents -> {"acapy", "credo"}]
  auto,        \* the ACA-Py agents and backchannels run with --auto-accept-requests
  record,      \* [Agents -> [Exchanges -> States]]
  exchange,    \* [Exchanges -> [form, inviter, taker, keyed]], taker: whose request was taken,
               \* keyed: a webhook is filed under the invitation
  wire,        \* messages under way between the agents
  pending,     \* [Agents -> SUBSET Webhooks]: webhooks sent and not yet filed
  store,       \* [Agents -> Store!Stores]: the webhooks in the store of a backchannel
  scenario,
  at,          \* index of its step
  call,        \* the call being served, or Idle
  connection_id_dict,
  temp_connection_id_dict,
  invitation,  \* context.inviter_invitation, responder_invitation, requester_public_did_doc
  first,       \* context.inviter_name, responder_name
  second,      \* context.invitee_name, requester_name
  verdict,
  runs,
  late,        \* history: a wait of this run ended while what it waited for was under way
  missed,      \* history: the one look at the webhook that came last came before it, or it
               \* was behind another id, or the look met another exchange's
  begun        \* history: the exchanges begun in this run

agentVars   == <<record, exchange, wire>>
contextVars == <<connection_id_dict, temp_connection_id_dict, invitation, first, second>>
runVars     == <<scenario, at, verdict, runs>>
vars == <<kind, auto, agentVars, pending, store, contextVars, runVars, call, late, missed, begun>>

\* The ids webhooks are filed under: that of the invitation or the request of an exchange,
\* and that of the record where the connection protocol is spoken.
Ids == Exchanges \X {"invitation", "request", "connection"}
Store == INSTANCE Storage WITH
  DataIds <- Ids, DataTypes <- {"didexchange-msg", "connection-msg", "out-of-band-msg"},
  Messages <- Exchanges

\* A webhook is known by where it is filed, and tells of the exchange in its id.
Webhooks == Store!Boxes

BoxOf(i) == <<i, "didexchange-msg">>

----------------------------------------------------------------------------
(* The agents, and the webhooks of ACA-Py.                                 *)

States == {"none", "invitation", "request", "response", "completed"}
Forms  == {"connection", "invitation", "public", "request"}

Messages == [to : Agents, from : Agents, about : Exchanges, is : {"request", "response", "complete"}]

Message(m, a, b, x) == [to |-> b, from |-> a, about |-> x, is |-> m]

NoExchange == [form |-> "connection", inviter |-> None, taker |-> None, keyed |-> FALSE]
Fresh == {x \in Exchanges : exchange[x].inviter = None}

\* Exchanges are interchangeable until they begin: any fresh one will do for the next.
\* Exchanges is a bound: Possible sees to it that a step that begins one finds one left.
NewExchange == CHOOSE x \in Fresh : TRUE

\* Mutant: every webhook is filed under the invitation.
IdOfInvitation(x, s) == <<x, "invitation">>

\* The webhook of a record without a request is filed under the invitation, the later
\* ones under the request.
IdOf(x, s) == <<x, IF s = "invitation" THEN "invitation" ELSE "request">>

\* The webhook of a record of x in state s.  The connection protocol has its own type.
WebhookOf(x, form, s) ==
  IF form = "connection" THEN <<<<x, "connection">>, "connection-msg">> ELSE BoxOf(IdOf(x, s))

\* The agents some step asks for a webhook by its id, and for the one that came last.
Asked(deeds) ==
  {a \in Agents : \E s \in Scenarios : \E i \in DOMAIN s.steps :
     s.steps[i].by = a /\ s.steps[i].do \in deeds}

Hearers       == Asked({"invite", "hear", "hearPublic"})
LatestHearers == Asked({"hearPublic"})

\* The webhooks some step may ask a for: by their id, or as the one that came last.
Heeded(a, form, w) ==
  IF w[2] = "didexchange-msg" THEN a \in Hearers \/ form = "request" ELSE a \in LatestHearers

Sends(a, form, ws) ==
  pending' = [pending EXCEPT ![a] = @ \cup {w \in ws : Heeded(a, form, w)}]

\* Agent a moves its record of x, which has the given form, through the states ss, with
\* a webhook for each.
Tells(a, x, form, ss) == Sends(a, form, {WebhookOf(x, form, s) : s \in ss})

\* A step to come, of this scenario or of one that may follow, asks for the webhook that
\* came last.
LatestAsked ==
  \/ \E i \in at..Len(scenario.steps) : scenario.steps[i].do = "hearPublic"
  \/ runs < MaxRuns /\ Fresh # {} /\ \A a \in Agents : kind[a] = "acapy"

\* A webhook reaches its backchannel.  Webhooks of one place are alike here: a further one
\* comes when the one before it has been taken.  Those of other protocols are left out once
\* no step can come across them.
FileWebhook ==
  /\ \E a \in Agents : \E w \in pending[a] :
       /\ ~Store!CanPop(store[a], w)
       /\ w[2] # "didexchange-msg" => LatestAsked
       /\ pending' = [pending EXCEPT ![a] = @ \ {w}]
       /\ store' = [store EXCEPT ![a] = Store!push_resource(@, w[1], w[2], w[1][1])]
  /\ UNCHANGED <<kind, auto, agentVars, contextVars, runVars, call, late, missed, begun>>

AcceptsAlone(a) == kind[a] = "credo" \/ auto

\* An invitation is for one use: its inviter takes the request that comes first.
Takes(m) ==
  CASE m.is = "request"  -> exchange[m.about].taker = None
    [] m.is = "response" -> record[m.to][m.about] = "request"
    [] m.is = "complete" -> record[m.to][m.about] = "response"

\* The states the record of the receiver goes through.
Through(m) ==
  LET x == m.about
      f == exchange[x].form
  IN CASE m.is = "request" ->
            {"request"}
              \cup (IF AcceptsAlone(m.to) THEN {"response"} ELSE {})
       [] m.is = "response" ->
            {"response"}
              \cup (IF f # "connection" \/ kind[m.to] = "credo" THEN {"completed"} ELSE {})
       [] m.is = "complete" -> {"completed"}

Furthest(ss) ==
  CASE "completed" \in ss -> "completed"
    [] "completed" \notin ss /\ "response" \in ss -> "response"
    [] OTHER -> "request"

\* What the receiver answers by itself.
Reply(m) ==
  CASE m.is = "request" /\ "response" \in Through(m) -> {Message("response", m.to, m.from, m.about)}
    [] m.is = "response" /\ "completed" \in Through(m) -> {Message("complete", m.to, m.from, m.about)}
    [] OTHER -> {}

Deliver ==
  /\ \E m \in wire :
       \/ /\ Takes(m)
          /\ record' = [record EXCEPT ![m.to][m.about] = Furthest(Through(m))]
          /\ exchange' = IF m.is = "request" THEN [exchange EXCEPT ![m.about].taker = m.from]
                         ELSE exchange
          /\ wire' = (wire \ {m}) \cup Reply(m)
          /\ Tells(m.to, m.about, exchange[m.about].form, Through(m))
       \/ /\ ~Takes(m)
          /\ wire' = wire \ {m}
          /\ UNCHANGED <<record, exchange, pending>>
  /\ UNCHANGED <<kind, auto, store, contextVars, runVars, call, late, missed, begun>>

----------------------------------------------------------------------------
(* The harness.                                                            *)

Idle == [op |-> "idle", by |-> None, about |-> None]

Step == scenario.steps[at]

\* connection_id_dict after the ids in entries, triples <<a, b, x>>, have been stored.
Stored(entries) ==
  [a \in Agents |-> [b \in Agents |->
     IF \E e \in entries : e[1] = a /\ e[2] = b
     THEN (CHOOSE e \in entries : e[1] = a /\ e[2] = b)[3]
     ELSE connection_id_dict[a][b]]]

Ops ==
  {"create-invitation", "receive-invitation", "inviter-id", "accept-invitation", "accept-request",
   "send-ping", "look-by", "look-to", "send-invitation", "invitation-webhook", "receive-oob",
   "active-connection", "send-request", "send-response", "create-request", "request-webhook",
   "latest-webhook", "connection-webhook"}

OperationOf ==
  [generate |-> "create-invitation", receive |-> "receive-invitation", request |-> "accept-invitation",
   respond |-> "accept-request", ping |-> "send-ping", connected |-> "look-by",
   invite |-> "send-invitation", take |-> "receive-oob", ask |-> "send-request",
   hear |-> "invitation-webhook", answer |-> "send-response", repeat |-> "send-response",
   answered |-> "look-by", askPublic |-> "create-request", hearPublic |-> "latest-webhook"]

\* The connection id a step reads from the context, None if it has none.
IdFor(s) ==
  CASE s.do = "answered" -> connection_id_dict[s.by][first]
    [] s.do \in {"receive", "take", "hear", "hearPublic"} -> invitation
    [] s.do \in {"generate", "invite", "askPublic"} -> None
    [] OTHER -> connection_id_dict[s.by][s.to]

\* The ids without which a step ends in a KeyError.
Lacking(s) ==
  \/ s.do \in {"request", "respond", "connected", "ping", "ask", "answer", "repeat", "answered"}
     /\ IdFor(s) = None
  \/ s.do \in {"request", "respond", "connected"} /\ connection_id_dict[s.to][s.by] = None

\* The responder has its id since the invitation: nothing to be done.
Heard == Step.do = "hear" /\ connection_id_dict[Step.by][second] # None

Running == verdict = "running" /\ at <= Len(scenario.steps)

\* A step of the scenario makes its first call.
Begin ==
  /\ Running /\ call = Idle
  /\ ~Lacking(Step) /\ ~Heard
  /\ call' = [op |-> OperationOf[Step.do], by |-> Step.by, about |-> IdFor(Step)]
  /\ UNCHANGED <<kind, auto, agentVars, pending, store, contextVars, runVars, late, missed, begun>>

Pass ==
  /\ Running /\ call = Idle /\ Heard
  /\ at' = at + 1
  /\ UNCHANGED <<kind, auto, agentVars, pending, store, contextVars, scenario, verdict, runs,
                 call, late, missed, begun>>

Succeed ==
  /\ verdict = "running" /\ call = Idle
  /\ at > Len(scenario.steps)
  /\ verdict' = "passed"
  /\ UNCHANGED <<kind, auto, agentVars, pending, store, contextVars, scenario, at, runs,
                 call, late, missed, begun>>

\* The step is over, or goes on with another call.
Done == at' = at + 1 /\ call' = Idle /\ UNCHANGED <<scenario, verdict, runs>>
Then(op, a, x) == call' = [op |-> op, by |-> a, about |-> x] /\ UNCHANGED runVars

\* An assertion or an exception ends the scenario.
Fail == verdict' = "failed" /\ UNCHANGED <<scenario, at, runs, call>>

MissingId ==
  /\ Running /\ call = Idle /\ Lacking(Step)
  /\ Fail
  /\ UNCHANGED <<kind, auto, agentVars, pending, store, contextVars, late, missed, begun>>

\* A message about x is on its way.
UnderWay(x) == \E m \in wire : m.about = x

Serving(ops) == verdict = "running" /\ call.op \in ops

\* Mutant: the context outlives the scenario.
StartsInOldContext(s) ==
  /\ scenario' = s
  /\ UNCHANGED <<connection_id_dict, temp_connection_id_dict, invitation>>
  /\ first' = s.first /\ second' = s.second
  /\ at' = 1 /\ verdict' = "running" /\ call' = Idle
  /\ late' = FALSE /\ missed' = FALSE /\ begun' = {}

\* setup_scenario_context, and the names of the table of the first step.
Starts(s) ==
  /\ scenario' = s
  /\ connection_id_dict' = [a \in Agents |-> [b \in Agents |-> None]]
  /\ temp_connection_id_dict' = [a \in Agents |-> None]
  /\ invitation' = None
  /\ first' = s.first /\ second' = s.second
  /\ at' = 1 /\ verdict' = "running" /\ call' = Idle
  /\ late' = FALSE /\ missed' = FALSE /\ begun' = {}

\* The exchanges a scenario will begin must be left (a bound of the model), and Credo
\* has no part in DID exchange.
Possible(s) ==
  /\ Cardinality({i \in DOMAIN s.steps : s.steps[i].do \in {"generate", "invite", "askPublic"}})
       <= Cardinality(Fresh)
  /\ s.protocol = "did-exchange" => \A a \in Agents : kind[a] = "acapy"

\* The next scenario, or the same one again.
NextScenario ==
  /\ verdict # "running"
  /\ runs < MaxRuns
  /\ \E s \in Scenarios : Possible(s) /\ Starts(s)
  /\ runs' = runs + 1
  /\ UNCHANGED <<kind, auto, agentVars, pending, store>>

----------------------------------------------------------------------------
(* The calls of the connection protocol.                                   *)

CreateInvitation ==
  /\ Serving({"create-invitation"})
  /\ Fresh # {}
  /\ LET x == NewExchange IN
       /\ record' = [record EXCEPT ![call.by][x] = "invitation"]
       /\ exchange' = [exchange EXCEPT ![x] =
                         [form |-> "connection", inviter |-> call.by, taker |-> None,
                          keyed |-> FALSE]]
       /\ Tells(call.by, x, "connection", {"invitation"})
       /\ temp_connection_id_dict' = [temp_connection_id_dict EXCEPT ![call.by] = x]
       /\ invitation' = x
       /\ begun' = begun \cup {x}
  /\ first' = call.by
  /\ Done
  /\ UNCHANGED <<kind, auto, wire, store, connection_id_dict, second, late, missed>>

\* Credo answers the invitation with a request by itself.  The inviter's id, if the step
\* before has found it, is taken from temp_connection_id_dict, which is cleared; else the
\* step asks the inviter.
ReceiveInvitation ==
  /\ Serving({"receive-invitation"})
  /\ LET b == call.by
         x == call.about
         given == temp_connection_id_dict[first]
     IN /\ IF kind[b] = "credo"
           THEN /\ record' = [record EXCEPT ![b][x] = "request"]
                /\ wire' = wire \cup {Message("request", b, exchange[x].inviter, x)}
           ELSE record' = [record EXCEPT ![b][x] = "invitation"] /\ UNCHANGED wire
        /\ Tells(b, x, exchange[x].form, {"invitation"})
        /\ temp_connection_id_dict' = [a \in Agents |-> None]
        /\ \/ /\ given # None
              /\ connection_id_dict' = Stored({<<b, first, x>>, <<first, b, given>>})
              /\ second' = IF second = None THEN b ELSE second
              /\ Done
           \/ /\ given = None
              /\ connection_id_dict' = Stored({<<b, first, x>>})
              /\ Then("inviter-id", first, x)
              /\ UNCHANGED second
  /\ UNCHANGED <<kind, auto, exchange, store, invitation, first, late, missed, begun>>

\* GET /agent/response/connection with the id of the invitation: ACA-Py files the
\* webhooks under the connection id and answers {} in the end, Credo has no such route.
InviterIdMissing ==
  /\ Serving({"inviter-id"})
  /\ Fail
  /\ UNCHANGED <<kind, auto, agentVars, pending, store, contextVars, late, missed, begun>>

----------------------------------------------------------------------------
(* The calls that move a record.                                           *)

Moves ==
  {[op |-> "accept-invitation", from |-> "invitation", to |-> "request", is |-> "request"],
   [op |-> "send-request", from |-> "invitation", to |-> "request", is |-> "request"],
   [op |-> "accept-request", from |-> "request", to |-> "response", is |-> "response"],
   [op |-> "send-response", from |-> "request", to |-> "response", is |-> "response"],
   [op |-> "send-ping", from |-> "response", to |-> "completed", is |-> "complete"],
   [op |-> "send-ping", from |-> "completed", to |-> "completed", is |-> "complete"]}

Moving == {"accept-invitation", "send-request", "accept-request", "send-response", "send-ping"}

\* Credo only looks the connection up; ACA-Py does not call an agent that accepts requests
\* by itself.
Skipped ==
  \/ kind[call.by] = "credo"
  \/ auto /\ call.op \in {"accept-request", "send-response"}

\* Before accept-request ACA-Py waits for the state, Credo for the event of the request.
\* send-response goes ahead without a look.
Ready ==
  call.op = "accept-request" =>
    IF kind[call.by] = "credo" THEN record[call.by][call.about] \notin {"none", "invitation"}
    ELSE auto \/ record[call.by][call.about] = "request"

\* Mutant: messages go to whoever has taken the invitation.
PeerOfTaker(a, x) == exchange[x].taker

PeerOf(a, x) == IF exchange[x].inviter = a THEN exchange[x].taker ELSE exchange[x].inviter

\* A step expects to be answered 200, but for the one that repeats a response.
Answered(ok) == IF ok = (Step.do # "repeat") THEN Done ELSE Fail

\* The operations of DID exchange are not for a record of the connection protocol.
Fits(m) ==
  /\ m.op = call.op /\ m.from = record[call.by][call.about]
  /\ m.op \in {"send-request", "send-response"} => exchange[call.about].form # "connection"

Post ==
  /\ Serving(Moving)
  /\ Ready
  /\ \/ Skipped /\ UNCHANGED <<record, wire, pending>>
     \/ /\ ~Skipped
        /\ \E m \in Moves :
             /\ Fits(m)
             /\ record' = [record EXCEPT ![call.by][call.about] = m.to]
             /\ wire' = wire \cup {Message(m.is, call.by, PeerOf(call.by, call.about), call.about)}
             /\ Tells(call.by, call.about, exchange[call.about].form, {m.to})
  /\ Answered(TRUE)
  /\ UNCHANGED <<kind, auto, exchange, store, contextVars, late, missed, begun>>

\* What the call waits for or needs may still be on its way.
Late == late' = (late \/ UnderWay(call.about)) /\ UNCHANGED missed
LateWebhook(i) == late' = (late \/ BoxOf(i) \in pending[call.by]) /\ UNCHANGED missed

\* The agent refuses what its record is not ready for.
Refused ==
  /\ Serving(Moving)
  /\ Ready /\ ~Skipped
  /\ \A m \in Moves : ~Fits(m)
  /\ Answered(FALSE)
  /\ IF Step.do = "repeat" THEN UNCHANGED <<late, missed>> ELSE Late
  /\ UNCHANGED <<kind, auto, agentVars, pending, store, contextVars, begun>>

\* The wait before accept-request ends without the request.
GiveUp ==
  /\ Serving(Moving)
  /\ ~Ready
  /\ Fail /\ Late
  /\ UNCHANGED <<kind, auto, agentVars, pending, store, contextVars, begun>>

\* The states "have a connection" waits for.
Connected(a, x) ==
  record[a][x] \in (IF scenario.protocol = "connection" THEN {"response", "completed"}
                    ELSE {"completed"})

\* expected_agent_state: Credo says N/A as soon as it has a connection, which counts.
Shows(a, x) ==
  IF kind[a] = "credo" THEN exchange[x].inviter = a => exchange[x].taker # None
  ELSE Connected(a, x)

\* "have a connection" looks at both ends, one after the other.
Look ==
  /\ Serving({"look-by", "look-to"})
  /\ Shows(call.by, call.about)
  /\ IF call.op = "look-by" /\ Step.do = "connected"
     THEN Then("look-to", Step.to, connection_id_dict[Step.to][Step.by]) ELSE Done
  /\ UNCHANGED <<kind, auto, agentVars, pending, store, contextVars, late, missed, begun>>

\* Mutant: the poll has no bound.
LookForever ==
  /\ Serving({"look-by", "look-to"})
  /\ ~Shows(call.by, call.about)
  /\ UNCHANGED vars

LookFails ==
  /\ Serving({"look-by", "look-to"})
  /\ ~Shows(call.by, call.about)
  /\ Fail /\ Late
  /\ UNCHANGED <<kind, auto, agentVars, pending, store, contextVars, begun>>

----------------------------------------------------------------------------
(* The calls of DID exchange and out-of-band.                              *)

\* The agent tells of the invitation itself, and of its record of it.
Invite(x, a, form, at_once) ==
  /\ record' = IF at_once THEN [record EXCEPT ![a][x] = "invitation"] ELSE record
  /\ exchange' = [exchange EXCEPT ![x] =
                    [form |-> form, inviter |-> a, taker |-> None, keyed |-> at_once]]
  /\ Sends(a, form, {<<<<x, "invitation">>, "out-of-band-msg">>}
                      \cup {WebhookOf(x, form, s) : s \in IF at_once THEN {"invitation"} ELSE {}})

\* The agent may make the record of an invitation with a public DID only when the request
\* comes: then no webhook is keyed on the invitation (issue 944 in the steps).
SendInvitation ==
  /\ Serving({"send-invitation"})
  /\ Fresh # {}
  /\ \E x \in {NewExchange}, at_once \in BOOLEAN :
       /\ scenario.form = "invitation" => at_once
       /\ Invite(x, call.by, scenario.form, at_once)
       /\ invitation' = x
       /\ begun' = begun \cup {x}
       /\ Then("invitation-webhook", call.by, x)
  /\ first' = call.by
  /\ second' = Step.to
  /\ UNCHANGED <<kind, auto, wire, store, connection_id_dict, temp_connection_id_dict, late, missed>>

\* GET /agent/response/did-exchange with an id: the webhook filed under it.
PopsFor(i) ==
  /\ Store!CanPop(store[call.by], BoxOf(i))
  /\ store' = [store EXCEPT ![call.by] = Store!pop_resource(@, BoxOf(i))]

\* The responder's id comes from the webhook of the invitation.
InvitationWebhook ==
  /\ Serving({"invitation-webhook"})
  /\ PopsFor(<<call.about, "invitation">>)
  /\ connection_id_dict' = Stored({<<call.by, second, call.about>>})
  /\ Done
  /\ UNCHANGED <<kind, auto, agentVars, pending, temp_connection_id_dict, invitation, first,
                 second, late, missed, begun>>

\* {} after MAX_TIMEOUT: right after the invitation this is no failure, the next steps may
\* find the webhook; "receives the request" ends with it.
NoInvitationWebhook ==
  /\ Serving({"invitation-webhook"})
  /\ ~Store!CanPop(store[call.by], BoxOf(<<call.about, "invitation">>))
  /\ IF Step.do = "hear" THEN Fail ELSE Done
  /\ LateWebhook(<<call.about, "invitation">>)
  /\ UNCHANGED <<kind, auto, agentVars, pending, store, contextVars, begun>>

TakeInvitation ==
  /\ Serving({"receive-oob"})
  /\ record' = [record EXCEPT ![call.by][call.about] = "invitation"]
  /\ Tells(call.by, call.about, exchange[call.about].form, {"invitation"})
  /\ connection_id_dict' = Stored({<<call.by, first, call.about>>})
  /\ Done
  /\ UNCHANGED <<kind, auto, exchange, wire, store, temp_connection_id_dict, invitation, first,
                 second, late, missed, begun>>

\* With use_existing_connection the agent may answer with a completed connection to the
\* inviter's public DID; the responder is then asked for its active connection.
ReuseConnection ==
  /\ Serving({"receive-oob"})
  /\ scenario.reuse
  /\ \E y \in Exchanges :
       /\ exchange[y].form = "public" /\ exchange[y].inviter = first
       /\ record[call.by][y] = "completed"
       /\ Then("active-connection", first, y)
  /\ UNCHANGED <<kind, auto, agentVars, pending, store, contextVars, late, missed, begun>>

\* Mutant: any connection of the responder will do.
SetupAnyConnected ==
  /\ Serving({"active-connection"})
  /\ \E y \in Exchanges :
       /\ record[first][y] # "none"
       /\ connection_id_dict' =
            Stored({<<Step.by, first, call.about>>, <<first, Step.by, y>>})
  /\ at' = Len(scenario.steps) + 1 /\ call' = Idle
  /\ UNCHANGED <<kind, auto, agentVars, pending, store, temp_connection_id_dict, invitation, first,
                 second, scenario, verdict, runs, late, missed, begun>>

\* setup_already_connected: both ids are those of the connection reused, and the steps
\* that would make a new one are left out.
SetupAlreadyConnected ==
  /\ Serving({"active-connection"})
  /\ record[first][call.about] = "completed"
  /\ connection_id_dict' =
       Stored({<<Step.by, first, call.about>>, <<first, Step.by, call.about>>})
  /\ at' = Len(scenario.steps) + 1 /\ call' = Idle
  /\ UNCHANGED <<kind, auto, agentVars, pending, store, temp_connection_id_dict, invitation, first,
                 second, scenario, verdict, runs, late, missed, begun>>

\* The connection is not active at the responder yet: 400, and an exception.
NotYetActive ==
  /\ Serving({"active-connection"})
  /\ record[first][call.about] # "completed"
  /\ Fail /\ Late
  /\ UNCHANGED <<kind, auto, agentVars, pending, store, contextVars, begun>>

\* create-request-resolvable-did: a request to a public DID, without an invitation.
CreateRequest ==
  /\ Serving({"create-request"})
  /\ Fresh # {}
  /\ LET x == NewExchange IN
       /\ record' = [record EXCEPT ![call.by][x] = "request"]
       /\ exchange' = [exchange EXCEPT ![x] =
                         [form |-> "request", inviter |-> Step.to, taker |-> None,
                          keyed |-> FALSE]]
       /\ wire' = wire \cup {Message("request", call.by, Step.to, x)}
       /\ Tells(call.by, x, "request", {"request"})
       /\ invitation' = x
       /\ begun' = begun \cup {x}
       /\ Then("request-webhook", call.by, x)
  /\ UNCHANGED <<kind, auto, store, connection_id_dict, temp_connection_id_dict, first, second, late, missed>>

\* The requester's id comes from the webhook of the request ...
RequestWebhook ==
  /\ Serving({"request-webhook"})
  /\ PopsFor(<<call.about, "request">>)
  /\ connection_id_dict' = Stored({<<call.by, Step.to, call.about>>})
  /\ Done
  /\ UNCHANGED <<kind, auto, agentVars, pending, temp_connection_id_dict, invitation, first,
                 second, late, missed, begun>>

NoRequestWebhook ==
  /\ Serving({"request-webhook"})
  /\ ~Store!CanPop(store[call.by], BoxOf(<<call.about, "request">>))
  /\ Done /\ LateWebhook(<<call.about, "request">>)
  /\ UNCHANGED <<kind, auto, agentVars, pending, store, contextVars, begun>>

\* ... and the responder's from a webhook under the id inserted last, whatever it tells of.
PopsLatest(type) ==
  /\ ~Store!LatestRaises(store[call.by])
  /\ LET b == Store!LatestBox(store[call.by], type)
         y == Store!PoppedTail(store[call.by], b)
     IN /\ Store!CanPop(store[call.by], b)
        /\ store' = [store EXCEPT ![call.by] = Store!pop_resource_latest(@, b)]
        /\ connection_id_dict' = Stored({<<call.by, second, y>>})
        /\ missed' = (missed \/ y # call.about)
  /\ Done
  /\ UNCHANGED <<kind, auto, agentVars, pending, temp_connection_id_dict, invitation, first,
                 second, late, begun>>

NoneLatest(type) ==
  /\ ~Store!LatestRaises(store[call.by])
  /\ ~Store!CanPop(store[call.by], Store!LatestBox(store[call.by], type))

\* The first look is for a webhook of DID exchange ...
LatestWebhook == Serving({"latest-webhook"}) /\ PopsLatest("didexchange-msg")

\* Where the webhook of the request about x may be while a does not see it: it comes with
\* the request, it is under way, or it is in the store and another id was inserted last.
Unseen(a, x) ==
  \/ \E m \in wire : m.is = "request" /\ m.about = x
  \/ BoxOf(<<x, "request">>) \in pending[a]
  \/ Store!CanPop(store[a], BoxOf(<<x, "request">>))

\* ... an empty store is an IndexError ...
FirstLookFails ==
  /\ Serving({"latest-webhook"})
  /\ \/ Store!LatestRaises(store[call.by]) /\ Fail
     \/ NoneLatest("didexchange-msg") /\ Then("connection-webhook", call.by, call.about)
  /\ missed' = (missed \/ Unseen(call.by, call.about))
  /\ UNCHANGED <<kind, auto, agentVars, pending, store, contextVars, late, begun>>

\* ... and every later look is for one of the connection protocol.
LatestConnectionWebhook == Serving({"connection-webhook"}) /\ PopsLatest("connection-msg")

\* {} in the end.
NoLatestWebhook ==
  /\ Serving({"connection-webhook"})
  /\ NoneLatest("connection-msg")
  /\ Done
  /\ UNCHANGED <<kind, auto, agentVars, pending, store, contextVars, late, missed, begun>>

----------------------------------------------------------------------------
Init ==
  /\ kind \in [Agents -> {"acapy", "credo"}]
  /\ auto \in BOOLEAN
  /\ record = [a \in Agents |-> [x \in Exchanges |-> "none"]]
  /\ exchange = [x \in Exchanges |-> NoExchange]
  /\ wire = {}
  /\ pending = [a \in Agents |-> {}]
  /\ store = [a \in Agents |-> Store!EmptyStore]
  /\ scenario \in {s \in Scenarios : Possible(s)}
  /\ connection_id_dict = [a \in Agents |-> [b \in Agents |-> None]]
  /\ temp_connection_id_dict = [a \in Agents |-> None]
  /\ invitation = None
  /\ first = scenario.first /\ second = scenario.second
  /\ at = 1 /\ call = Idle /\ verdict = "running" /\ runs = 1
  /\ late = FALSE /\ missed = FALSE /\ begun = {}

Harness == Begin \/ Pass \/ Succeed \/ MissingId \/ InviterIdMissing \/ Look \/ LookFails

Served ==
  \/ CreateInvitation \/ ReceiveInvitation
  \/ Post \/ Refused \/ GiveUp
  \/ SendInvitation \/ InvitationWebhook \/ NoInvitationWebhook
  \/ TakeInvitation \/ ReuseConnection \/ SetupAlreadyConnected \/ NotYetActive
  \/ CreateRequest \/ RequestWebhook \/ NoRequestWebhook
  \/ LatestWebhook \/ FirstLookFails \/ LatestConnectionWebhook \/ NoLatestWebhook

Next == FileWebhook \/ Deliver \/ NextScenario \/ Harness \/ Served

\* The harness and the backchannels go on, and every wait is bounded.  Nothing is assumed
\* of the agents.
Spec == Init /\ [][Next]_vars /\ WF_vars(Harness \/ Served)

----------------------------------------------------------------------------
(* Properties.                                                             *)

\* Every variable has its type.
TypeOK ==
  /\ kind \in [Agents -> {"acapy", "credo"}]
  /\ auto \in BOOLEAN
  /\ record \in [Agents -> [Exchanges -> States]]
  /\ exchange \in [Exchanges -> [form : Forms, inviter : Agents \cup {None},
                                 taker : Agents \cup {None}, keyed : BOOLEAN]]
  /\ wire \subseteq Messages
  /\ pending \in [Agents -> SUBSET Webhooks]
  /\ store \in [Agents -> Store!Stores]
  /\ scenario \in Scenarios
  /\ at \in 1..(Len(scenario.steps) + 1)
  /\ call \in [op : Ops \cup {"idle"}, by : Agents \cup {None}, about : Exchanges \cup {None}]
  /\ connection_id_dict \in [Agents -> [Agents -> Exchanges \cup {None}]]
  /\ temp_connection_id_dict \in [Agents -> Exchanges \cup {None}]
  /\ invitation \in Exchanges \cup {None}
  /\ first \in Agents \cup {None} /\ second \in Agents \cup {None}
  /\ verdict \in {"running", "passed", "failed"}
  /\ runs \in 0..MaxRuns
  /\ late \in BOOLEAN /\ missed \in BOOLEAN
  /\ begun \subseteq Exchanges

\* The two agents a scenario is to connect.
Pair == LET s == scenario.steps[Len(scenario.steps)] IN <<s.by, s.to>>

\* A scenario that passes has connected its two agents: the ids the context holds for them
\* name one and the same exchange, between these two, at both of its ends, and begun in
\* this scenario unless an older connection was to be reused.  An invitee of Credo may
\* still wait for its response: N/A is taken for any state.  (A step that takes the
\* webhook that came last is excused when it took that of another exchange.)
PassMeansConnected ==
  verdict = "passed" /\ (scenario.form = "request" => ~missed) =>
    LET p == Pair[1]
        q == Pair[2]
        x == connection_id_dict[p][q]
    IN /\ x # None /\ connection_id_dict[q][p] = x
       /\ {exchange[x].inviter, exchange[x].taker} = {p, q}
       /\ \A a \in {p, q} :
            \/ Connected(a, x)
            \/ kind[a] = "credo" /\ record[a][x] = "request"
       /\ scenario.reuse \/ x \in begun

\* A call never names a connection of an earlier scenario, unless it was to be reused, or
\* the step that takes the webhook that came last has taken one of those.
OnlyThisScenario ==
  call.about # None => \/ call.about \in begun
                       \/ scenario.reuse
                       \/ scenario.form = "request" /\ missed

\* The step of a third agent that receives the same invitation.
Intrusion == call.op = "inviter-id"

\* The request to an invitation with a public DID has no webhook keyed on the invitation.
Unkeyed ==
  call.op = "invitation-webhook" /\ scenario.form = "public" /\ ~exchange[call.about].keyed

\* No interleaving of steps, webhooks and messages fails a scenario without a cause: a wait
\* that ended while what it waited for was under way; the one look at the webhook that came
\* last, which missed it; a public invitation no webhook is keyed on; the third agent's
\* step; a response repeated to an agent that accepts by itself (which the feature file
\* says).  Above all, what earlier scenarios left in the stores, the records and under way
\* is none.
FailureHasCause ==
  verdict = "failed" => late \/ missed \/ Unkeyed \/ Intrusion \/ (auto /\ Step.do = "repeat")

\* Every scenario comes to a verdict.
ScenarioEnds == verdict = "running" ~> verdict # "running"
=============================================================================
