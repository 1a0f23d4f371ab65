-------------------------- MODULE ConnectionsProofs --------------------------
(***************************************************************************)
(* Proofs about Connections, for any agents, exchanges and scenarios, and  *)
(* any number of scenarios one after the other.                            *)
(***************************************************************************)
EXTENDS Connections, TLAPS

\* An exchange the running scenario may work on.
Ok(x) ==
  \/ x = None
  \/ x \in begun
  \/ scenario.reuse
  \/ scenario.form = "request" /\ missed

\* Where the scenario is, and whom it is about.
Placed ==
  /\ scenario \in Scenarios /\ first \in Agents
  /\ at \in Nat \ {0}
  /\ call = [op |-> call.op, by |-> call.by, about |-> call.about]
  /\ call.op # "idle" =>
       /\ at <= Len(scenario.steps)
       /\ call.by \in Agents
  /\ call.op \in {"latest-webhook", "connection-webhook"} => scenario.form = "request"
  /\ call.op = "active-connection" => scenario.reuse
  /\ call.op = "idle" => call.about = None

\* Every id the context holds is one of this scenario's.
Held ==
  /\ Ok(call.about) /\ Ok(invitation)
  /\ DOMAIN temp_connection_id_dict = Agents
  /\ \A a \in Agents : Ok(temp_connection_id_dict[a])
  /\ \A a, b \in Agents : Ok(connection_id_dict[a][b])

Inv == Placed /\ Held

\* The step of a call, or the next.
LEMMA StepType ==
  ASSUME scenario \in Scenarios, at \in Nat \ {0}, at <= Len(scenario.steps)
  PROVE  /\ Step \in Steps
         /\ Step.do = "hearPublic" => scenario.form = "request"
<1>1. scenario.steps \in Seq(Steps) BY ConnectionsAssumption
<1>2. Len(scenario.steps) \in Nat /\ at \in 1..Len(scenario.steps) BY <1>1
<1>3. scenario.steps[at] \in Steps BY <1>1, <1>2
<1> QED BY <1>2, <1>3, ConnectionsAssumption DEF Step

\* What may be worked on stays so within a scenario.
Onward ==
  /\ scenario' = scenario
  /\ begun \subseteq begun'
  /\ missed => missed'

LEMMA OkOnward ==
  ASSUME Onward, NEW x, Ok(x)
  PROVE  Ok(x)'
BY DEF Onward, Ok

LEMMA StoredOk ==
  ASSUME NEW entries, Onward, connection_id_dict' = Stored(entries),
         \A a, b \in Agents : Ok(connection_id_dict[a][b]),
         \A e \in entries : e[3] = None \/ e[3] \in begun' \/ scenario.reuse
                                \/ (scenario.form = "request" /\ missed')
  PROVE  \A a, b \in Agents : Ok(connection_id_dict[a][b])'
<1> SUFFICES ASSUME NEW a \in Agents, NEW b \in Agents PROVE Ok(connection_id_dict[a][b])'
  OBVIOUS
<1>1. CASE \E e \in entries : e[1] = a /\ e[2] = b
  <2>1. PICK e \in entries : connection_id_dict'[a][b] = e[3]
    BY <1>1 DEF Stored
  <2> QED BY <2>1 DEF Ok, Onward
<1>2. CASE ~(\E e \in entries : e[1] = a /\ e[2] = b)
  <2>1. connection_id_dict'[a][b] = connection_id_dict[a][b] BY <1>2 DEF Stored
  <2> QED BY <2>1, OkOnward
<1> QED BY <1>1, <1>2

----------------------------------------------------------------------------
(* How a call ends, and what that leaves of the invariant.                 *)

LEMMA DonePlaced ==
  ASSUME Placed, Done, first' \in Agents
  PROVE  Placed'
BY DEF Placed, Done, Idle

LEMMA FailPlaced ==
  ASSUME Placed, Fail, first' = first
  PROVE  Placed'
BY DEF Placed, Fail

LEMMA ThenPlaced ==
  ASSUME Placed, call.op # "idle", NEW op, NEW a \in Agents, NEW x, Then(op, a, x),
         first' \in Agents, op # "idle",
         op \in {"latest-webhook", "connection-webhook"} => scenario.form = "request",
         op = "active-connection" => scenario.reuse
  PROVE  Placed'
<1>1. call' = [op |-> op, by |-> a, about |-> x] /\ scenario' = scenario /\ at' = at
  BY DEF Then, runVars
<1> QED BY <1>1 DEF Placed

\* A call that stores nothing.
LEMMA NothingStored ==
  ASSUME Held, Onward, UNCHANGED <<connection_id_dict, temp_connection_id_dict, invitation>>,
         Ok(call.about)'
  PROVE  Held'
<1>1. \A a \in Agents : Ok(temp_connection_id_dict[a])' BY OkOnward DEF Held
<1>2. \A a, b \in Agents : Ok(connection_id_dict[a][b])' BY OkOnward DEF Held
<1>3. Ok(invitation)' BY OkOnward DEF Held
<1> QED BY <1>1, <1>2, <1>3 DEF Held

LEMMA DoneOk ==
  ASSUME Done \/ call' = Idle
  PROVE  Ok(call.about)'
BY DEF Done, Idle, Ok

LEMMA DoneHeld ==
  ASSUME Held, Onward, UNCHANGED <<connection_id_dict, temp_connection_id_dict, invitation>>, Done
  PROVE  Held'
BY NothingStored, DoneOk

LEMMA FailHeld ==
  ASSUME Held, begun' = begun, missed => missed', Fail,
         UNCHANGED <<connection_id_dict, temp_connection_id_dict, invitation>>
  PROVE  Held'
<1>1. Onward /\ call' = call BY DEF Onward, Fail
<1>2. Ok(call.about)' BY <1>1, OkOnward DEF Held
<1> QED BY <1>1, <1>2, NothingStored

\* An id is stored, and the call is over.
LEMMA DoneStored ==
  ASSUME Held, NEW entries, Onward, connection_id_dict' = Stored(entries),
         UNCHANGED <<temp_connection_id_dict, invitation>>,
         \A e \in entries : e[3] = None \/ e[3] \in begun' \/ scenario.reuse
                                \/ (scenario.form = "request" /\ missed'),
         call' = Idle
  PROVE  Held'
<1>1. \A a, b \in Agents : Ok(connection_id_dict[a][b])' BY StoredOk DEF Held
<1>2. \A a \in Agents : Ok(temp_connection_id_dict[a])' BY OkOnward DEF Held
<1>3. Ok(invitation)' BY OkOnward DEF Held
<1> QED BY <1>1, <1>2, <1>3, DoneOk DEF Held

----------------------------------------------------------------------------
(* The harness.                                                            *)

LEMMA BeginStep ==
  ASSUME Inv, Begin
  PROVE  Inv'
<1>1. Step \in Steps /\ (Step.do = "hearPublic" => scenario.form = "request")
  BY StepType DEF Inv, Placed, Begin, Running
<1>2. call' = [op |-> OperationOf[Step.do], by |-> Step.by, about |-> IdFor(Step)]
      /\ UNCHANGED <<contextVars, runVars, missed, begun>>
  BY DEF Begin
<1>3. Onward BY <1>2 DEF Onward, runVars
<1>4. Step.by \in Agents /\ Step.to \in Agents /\ Step.do \in Deeds /\ first \in Agents
  BY <1>1 DEF Steps, Inv, Placed
<1>5. Ok(IdFor(Step))
  <2>1. Ok(connection_id_dict[Step.by][first]) BY <1>4 DEF Inv, Held
  <2>2. Ok(connection_id_dict[Step.by][Step.to]) BY <1>4 DEF Inv, Held
  <2>3. Ok(invitation) /\ Ok(None) BY DEF Inv, Held, Ok
  <2>4. IdFor(Step) \in {connection_id_dict[Step.by][first], invitation, None,
                         connection_id_dict[Step.by][Step.to]}
    BY <1>4 DEF IdFor, Deeds
  <2> QED BY <2>1, <2>2, <2>3, <2>4
<1>6. Held'
  <2>1. call'.about = IdFor(Step) BY <1>2
  <2>2. Ok(IdFor(Step)) => Ok(call.about)' BY <1>3, <2>1 DEF Ok, Onward
  <2> QED BY <1>2, <1>3, <1>5, <2>2, NothingStored DEF contextVars, Inv
<1>7. OperationOf[Step.do] # "idle" /\ OperationOf[Step.do] # "active-connection"
      /\ OperationOf[Step.do] # "connection-webhook"
      /\ (OperationOf[Step.do] = "latest-webhook" => Step.do = "hearPublic")
  BY <1>4 DEF OperationOf, Deeds
<1>8. Placed'
  <2>1. at <= Len(scenario.steps) BY DEF Begin, Running
  <2> QED BY <1>1, <1>2, <1>4, <1>7, <2>1 DEF Inv, Placed, contextVars, runVars
<1> QED BY <1>6, <1>8 DEF Inv

\* Agents and webhooks, the ends of steps that make no call, and scenarios that follow.
LEMMA OthersStep ==
  ASSUME Inv, \/ FileWebhook \/ Deliver \/ Pass \/ Succeed \/ MissingId \/ UNCHANGED vars
  PROVE  Inv'
<1>1. UNCHANGED <<connection_id_dict, temp_connection_id_dict, invitation, first, call, missed,
                  begun, scenario>>
  BY DEF FileWebhook, Deliver, Pass, Succeed, MissingId, Fail, contextVars, runVars, vars
<1>2. Onward BY <1>1 DEF Onward
<1>3. Ok(call.about)' BY <1>1, <1>2, OkOnward DEF Inv, Held
<1>4. Held' BY <1>1, <1>2, <1>3, NothingStored DEF Inv
<1>5. at' = at \/ (call.op = "idle" /\ at' = at + 1)
  BY DEF FileWebhook, Deliver, Pass, Succeed, MissingId, Fail, runVars, vars, Idle
<1>6. at' \in Nat \ {0} BY <1>5 DEF Inv, Placed
<1>7. Placed' BY <1>1, <1>5, <1>6 DEF Inv, Placed
<1> QED BY <1>4, <1>7 DEF Inv

LEMMA NextScenarioStep ==
  ASSUME Inv, NextScenario
  PROVE  Inv'
<1>1. PICK s \in Scenarios : Starts(s) BY DEF NextScenario
<1>2. s.first \in Agents BY ConnectionsAssumption
<1>3. Placed' BY <1>1, <1>2 DEF Starts, Placed, Idle
<1>4. Held' BY <1>1 DEF Starts, Held, Ok, Idle
<1> QED BY <1>3, <1>4 DEF Inv

----------------------------------------------------------------------------
(* The calls.                                                              *)

\* Calls that store nothing and end the step, or the scenario.
LEMMA PlainStep ==
  ASSUME Inv,
         \/ InviterIdMissing \/ Post \/ Refused \/ GiveUp \/ LookFails
         \/ NoInvitationWebhook \/ NotYetActive \/ NoRequestWebhook \/ NoLatestWebhook
  PROVE  Inv'
<1>1. UNCHANGED <<connection_id_dict, temp_connection_id_dict, invitation, first, begun>>
  BY DEF InviterIdMissing, Post, Refused, GiveUp, LookFails, NoInvitationWebhook, NotYetActive,
         NoRequestWebhook, NoLatestWebhook, contextVars
<1>2. missed => missed'
  BY DEF InviterIdMissing, Post, Refused, GiveUp, LookFails, NoInvitationWebhook, NotYetActive,
         NoRequestWebhook, NoLatestWebhook, Late, LateWebhook, contextVars
<1>3. Done \/ Fail
  BY DEF InviterIdMissing, Post, Refused, GiveUp, LookFails, NoInvitationWebhook, NotYetActive,
         NoRequestWebhook, NoLatestWebhook, Answered
<1>4. CASE Done
  <2>1. Onward BY <1>1, <1>2, <1>4 DEF Onward, Done
  <2> QED BY <1>1, <1>4, <2>1, DonePlaced, DoneHeld DEF Inv, Placed
<1>5. CASE Fail BY <1>1, <1>2, <1>5, FailPlaced, FailHeld DEF Inv
<1> QED BY <1>3, <1>4, <1>5

LEMMA LookStep ==
  ASSUME Inv, Look
  PROVE  Inv'
<1>0. call.op # "idle" /\ UNCHANGED <<contextVars, missed, begun, scenario>>
  BY DEF Look, Serving, Then, Done, runVars
<1>1. Onward BY <1>0 DEF Onward
<1>2. CASE call.op = "look-by" /\ Step.do = "connected"
  <2>1. Then("look-to", Step.to, connection_id_dict[Step.to][Step.by]) BY <1>2 DEF Look
  <2>2. Step \in Steps /\ Step.by \in Agents /\ Step.to \in Agents
    BY <1>0, StepType DEF Inv, Placed, Steps
  <2>3. Ok(connection_id_dict[Step.to][Step.by]) BY <2>2 DEF Inv, Held
  <2>4. Placed' BY <1>0, <2>1, <2>2, ThenPlaced DEF Inv, Placed, contextVars
  <2>5. call'.about = connection_id_dict[Step.to][Step.by] BY <2>1 DEF Then
  <2>6. Ok(call.about)' BY <1>1, <2>3, <2>5 DEF Ok, Onward
  <2> QED BY <1>0, <1>1, <2>4, <2>6, NothingStored DEF Inv, contextVars
<1>3. CASE ~(call.op = "look-by" /\ Step.do = "connected")
  <2>1. Done BY <1>3 DEF Look
  <2> QED BY <1>0, <1>1, <2>1, DonePlaced, DoneHeld DEF Inv, Placed, contextVars
<1> QED BY <1>2, <1>3

\* Calls that begin an exchange: it is this scenario's from then on.
LEMMA NewExchangeStep ==
  ASSUME Inv, CreateInvitation \/ SendInvitation \/ CreateRequest
  PROVE  Inv'
<1>0. call.op # "idle" BY DEF CreateInvitation, SendInvitation, CreateRequest, Serving
<1>1. Step.by \in Agents /\ call.by \in Agents /\ first \in Agents
  BY <1>0, StepType DEF Inv, Placed, Steps
<1>2. begun' = begun \cup {NewExchange} /\ invitation' = NewExchange /\ missed' = missed
      /\ connection_id_dict' = connection_id_dict
  BY DEF CreateInvitation, SendInvitation, CreateRequest
<1>3. scenario' = scenario /\ first' \in Agents
  BY <1>1 DEF CreateInvitation, SendInvitation, CreateRequest, Done, Then, runVars
<1>4. Onward BY <1>2, <1>3 DEF Onward
<1>5. Ok(invitation)' BY <1>2 DEF Ok
<1>6. \A a, b \in Agents : Ok(connection_id_dict[a][b])' BY <1>2, <1>4, OkOnward DEF Inv, Held
<1>7. CASE CreateInvitation
  <2>1. Done /\ temp_connection_id_dict' = [temp_connection_id_dict EXCEPT ![call.by] = NewExchange]
    BY <1>7 DEF CreateInvitation
  <2>2. \A a \in Agents :
          \/ temp_connection_id_dict'[a] = NewExchange
          \/ temp_connection_id_dict'[a] = temp_connection_id_dict[a]
    BY <2>1 DEF Inv, Held
  <2>3. \A a \in Agents : Ok(temp_connection_id_dict[a])'
    BY <1>2, <1>4, <2>2, OkOnward DEF Inv, Held, Ok
  <2>4. DOMAIN temp_connection_id_dict' = Agents BY <2>1 DEF Inv, Held
  <2>5. Held' BY <1>5, <1>6, <2>1, <2>3, <2>4, DoneOk DEF Held
  <2> QED BY <1>3, <2>1, <2>5, DonePlaced DEF Inv
<1>8. CASE SendInvitation \/ CreateRequest
  <2>1. PICK op \in {"invitation-webhook", "request-webhook"} : Then(op, call.by, NewExchange)
    BY <1>8 DEF SendInvitation, CreateRequest
  <2>2. Placed' BY <1>0, <1>1, <1>3, <2>1, ThenPlaced DEF Inv
  <2>3. temp_connection_id_dict' = temp_connection_id_dict BY <1>8 DEF SendInvitation, CreateRequest
  <2>4. \A a \in Agents : Ok(temp_connection_id_dict[a])' BY <1>4, <2>3, OkOnward DEF Inv, Held
  <2>5. call'.about = NewExchange BY <2>1 DEF Then
  <2>6. Ok(call.about)' BY <1>2, <2>5 DEF Ok
  <2> QED BY <1>5, <1>6, <2>2, <2>3, <2>4, <2>6 DEF Inv, Held
<1> QED BY <1>7, <1>8

\* The id the inviter's step has left behind is this scenario's too.
LEMMA ReceiveInvitationStep ==
  ASSUME Inv, ReceiveInvitation
  PROVE  Inv'
<1> DEFINE given == temp_connection_id_dict[first]
           mine == <<call.by, first, call.about>>
<1>0. call.op # "idle" BY DEF ReceiveInvitation, Serving
<1>1. first \in Agents /\ Ok(given) /\ Ok(call.about) /\ Ok(invitation)
  BY DEF Inv, Placed, Held
<1>2. UNCHANGED <<first, invitation, missed, begun, scenario>>
      /\ temp_connection_id_dict' = [a \in Agents |-> None]
  BY DEF ReceiveInvitation, Done, Then, runVars
<1>3. Onward BY <1>2 DEF Onward
<1>4. Ok(invitation)' BY <1>1, <1>2, <1>3, OkOnward
<1>5. DOMAIN temp_connection_id_dict' = Agents
      /\ \A a \in Agents : Ok(temp_connection_id_dict[a])'
  BY <1>2 DEF Ok
<1>6. CASE connection_id_dict' = Stored({mine, <<first, call.by, given>>}) /\ Done
  <2>1. \A e \in {mine, <<first, call.by, given>>} :
          e[3] = None \/ e[3] \in begun' \/ scenario.reuse \/ (scenario.form = "request" /\ missed')
    BY <1>1, <1>2 DEF Ok
  <2>2. \A a, b \in Agents : Ok(connection_id_dict[a][b])'
    BY <1>3, <1>6, <2>1, StoredOk DEF Inv, Held
  <2> QED BY <1>1, <1>2, <1>4, <1>5, <1>6, <2>2, DoneOk, DonePlaced DEF Inv, Held
<1>7. CASE connection_id_dict' = Stored({mine}) /\ Then("inviter-id", first, call.about)
  <2>1. \A e \in {mine} :
          e[3] = None \/ e[3] \in begun' \/ scenario.reuse \/ (scenario.form = "request" /\ missed')
    BY <1>1, <1>2 DEF Ok
  <2>2. \A a, b \in Agents : Ok(connection_id_dict[a][b])'
    BY <1>3, <1>7, <2>1, StoredOk DEF Inv, Held
  <2>3. Placed' BY <1>0, <1>1, <1>2, <1>7, ThenPlaced DEF Inv
  <2>4. call'.about = call.about BY <1>7 DEF Then
  <2>5. Ok(call.about)' BY <1>1, <1>3, <2>4, OkOnward DEF Ok, Onward
  <2> QED BY <1>4, <1>5, <2>2, <2>3, <2>5 DEF Inv, Held
<1> QED BY <1>6, <1>7 DEF ReceiveInvitation

\* Calls that store the id of the exchange they are about.
LEMMA StoreStep ==
  ASSUME Inv,
         InvitationWebhook \/ TakeInvitation \/ SetupAlreadyConnected \/ RequestWebhook
  PROVE  Inv'
<1>1. PICK entries :
        /\ connection_id_dict' = Stored(entries)
        /\ \A e \in entries : e[3] = call.about
  BY DEF InvitationWebhook, TakeInvitation, SetupAlreadyConnected, RequestWebhook
<1>2. UNCHANGED <<temp_connection_id_dict, invitation, first, missed, begun, scenario>>
      /\ call' = Idle /\ call.op # "idle"
  BY DEF InvitationWebhook, TakeInvitation, SetupAlreadyConnected, RequestWebhook, Done, Serving
<1>3. Onward BY <1>2 DEF Onward
<1>4. \A e \in entries : e[3] = None \/ e[3] \in begun' \/ scenario.reuse
                             \/ (scenario.form = "request" /\ missed')
  BY <1>1, <1>2 DEF Inv, Held, Ok
<1>5. Held' BY <1>1, <1>2, <1>3, <1>4, DoneStored DEF Inv
<1>6. at' = at + 1 \/ at' = Len(scenario.steps) + 1
  BY DEF InvitationWebhook, TakeInvitation, SetupAlreadyConnected, RequestWebhook, Done
<1>7. at' \in Nat \ {0}
  <2>1. Len(scenario.steps) \in Nat BY ConnectionsAssumption DEF Inv, Placed
  <2> QED BY <1>6, <2>1 DEF Inv, Placed
<1>8. Placed' BY <1>2, <1>7 DEF Inv, Placed, Idle
<1> QED BY <1>5, <1>8 DEF Inv

\* A connection is reused only where the scenario says so.
LEMMA ReuseStep ==
  ASSUME Inv, ReuseConnection
  PROVE  Inv'
<1>1. PICK y \in Exchanges : Then("active-connection", first, y) BY DEF ReuseConnection
<1>2. scenario.reuse /\ call.op # "idle" /\ UNCHANGED <<contextVars, missed, begun>>
  BY DEF ReuseConnection, Serving
<1>3. Onward BY <1>1, <1>2 DEF Onward, Then, runVars
<1>4. Placed' BY <1>1, <1>2, ThenPlaced DEF Inv, Placed, contextVars
<1>5. Ok(call.about)' BY <1>2, <1>3 DEF Ok, Onward
<1> QED BY <1>2, <1>3, <1>4, <1>5, NothingStored DEF Inv, contextVars

\* The webhook that came last may tell of another exchange, and then missed says so.
LEMMA LatestStep ==
  ASSUME Inv, LatestWebhook \/ LatestConnectionWebhook
  PROVE  Inv'
<1>1. PICK type : PopsLatest(type)
  BY DEF LatestWebhook, LatestConnectionWebhook
<1> DEFINE y == Store!PoppedTail(store[call.by], Store!LatestBox(store[call.by], type))
<1>2. /\ connection_id_dict' = Stored({<<call.by, second, y>>})
      /\ missed' = (missed \/ y # call.about)
      /\ UNCHANGED <<temp_connection_id_dict, invitation, first, begun>>
      /\ Done
  BY <1>1 DEF PopsLatest
<1>3. Onward BY <1>2 DEF Onward, Done
<1>4. scenario.form = "request"
  BY DEF LatestWebhook, LatestConnectionWebhook, Serving, Inv, Placed
<1>5. y = None \/ y \in begun' \/ scenario.reuse \/ (scenario.form = "request" /\ missed')
  BY <1>2, <1>4 DEF Inv, Held, Ok
<1>6. \A e \in {<<call.by, second, y>>} :
        e[3] = None \/ e[3] \in begun' \/ scenario.reuse \/ (scenario.form = "request" /\ missed')
  BY <1>5
<1>7. call' = Idle BY <1>2 DEF Done
<1>8. Held' BY <1>2, <1>3, <1>6, <1>7, DoneStored DEF Inv
<1>9. Placed' BY <1>2, DonePlaced DEF Inv, Placed
<1> QED BY <1>8, <1>9 DEF Inv

LEMMA FirstLookStep ==
  ASSUME Inv, FirstLookFails
  PROVE  Inv'
<1>1. /\ UNCHANGED <<connection_id_dict, temp_connection_id_dict, invitation, first, begun>>
      /\ missed => missed'
      /\ call.op # "idle" /\ scenario.form = "request"
  BY DEF FirstLookFails, contextVars, Serving, Inv, Placed
<1>2. CASE Fail BY <1>1, <1>2, FailPlaced, FailHeld DEF Inv
<1>3. CASE Then("connection-webhook", call.by, call.about)
  <2>1. Onward BY <1>1, <1>3 DEF Onward, Then, runVars
  <2>2. call'.about = call.about /\ call.by \in Agents /\ first' \in Agents
    BY <1>1, <1>3 DEF Then, Inv, Placed
  <2>3. Ok(call.about)' BY <2>1, <2>2, OkOnward DEF Inv, Held, Ok, Onward
  <2>4. Placed' BY <1>1, <1>3, <2>2, ThenPlaced DEF Inv
  <2> QED BY <1>1, <2>1, <2>3, <2>4, NothingStored DEF Inv
<1> QED BY <1>2, <1>3 DEF FirstLookFails

----------------------------------------------------------------------------
LEMMA InvInit == Init => Inv
<1> SUFFICES ASSUME Init PROVE Inv OBVIOUS
<1>1. scenario \in Scenarios /\ scenario.first \in Agents BY ConnectionsAssumption DEF Init
<1> QED BY <1>1 DEF Init, Inv, Placed, Held, Ok, Idle

LEMMA InvStep ==
  ASSUME Inv, [Next]_vars
  PROVE  Inv'
BY BeginStep, OthersStep, NextScenarioStep, PlainStep, LookStep, NewExchangeStep,
   ReceiveInvitationStep, StoreStep, ReuseStep, LatestStep, FirstLookStep
DEF Next, Harness, Served

\* However many scenarios came before it, a scenario never asks an agent about one of
\* their connections, unless it means to reuse it or was told of it last.
THEOREM CallsOfThisScenario == Spec => []OnlyThisScenario
<1>1. Inv => OnlyThisScenario BY DEF Inv, Held, Ok, OnlyThisScenario
<1> QED BY <1>1, InvInit, InvStep, PTL DEF Spec

----------------------------------------------------------------------------
(* What the scenarios say.                                                 *)

Last == Len(scenario.steps)

LEMMA StepFacts ==
  ASSUME scenario \in Scenarios, NEW i \in 1..Last
  PROVE  LET s == scenario.steps[i] IN
         /\ s \in Steps /\ s.do \in Deeds /\ s.by \in Agents /\ s.to \in Agents /\ s.by # s.to
         /\ scenario.protocol = "connection" => s.do \in ConnectionDeeds
         /\ scenario.protocol = "did-exchange" =>
              /\ s.do \notin ConnectionDeeds \ {"connected"}
              /\ Between(s, scenario.first, scenario.second)
<1> DEFINE s == scenario.steps[i]
<1>1. scenario.steps \in Seq(Steps) /\ scenario.protocol \in Protocols
  BY ConnectionsAssumption
<1>2. s \in Steps
  BY <1>1 DEF Last
<1>3. scenario.protocol = "connection" => s.do \in ConnectionDeeds /\ s.by # s.to
  BY ScenarioAssumption DEF Last
<1>4. scenario.protocol = "did-exchange" =>
        /\ s.do \notin ConnectionDeeds \ {"connected"}
        /\ Between(s, scenario.first, scenario.second)
  BY ScenarioAssumption DEF Last
<1>5. scenario.protocol = "did-exchange" => s.by # s.to
  BY <1>4 DEF Between
<1> QED
  BY <1>1, <1>2, <1>3, <1>4, <1>5 DEF Protocols, Steps

LEMMA ScenarioFacts ==
  ASSUME scenario \in Scenarios
  PROVE  /\ Last \in Nat \ {0} /\ scenario.protocol \in Protocols /\ scenario.form \in Forms
         /\ scenario.reuse \in BOOLEAN /\ scenario.first \in Agents
         /\ scenario.second \in Agents \cup {None}
         /\ scenario.protocol = "connection" =>
              /\ scenario.form = "connection" /\ ~scenario.reuse
              /\ scenario.steps[1].do = "generate"
         /\ scenario.protocol = "did-exchange" =>
              /\ scenario.form # "connection" /\ (scenario.reuse => scenario.form = "public")
              /\ scenario.form = "request" => scenario.steps[1].do = "askPublic"
              /\ scenario.form # "request" => scenario.steps[1].do = "invite"
              /\ scenario.second \in Agents /\ scenario.second \notin Responders
              /\ scenario.first \in Responders
<1>1. /\ scenario.steps \in Seq(Steps) /\ scenario.steps # <<>>
      /\ scenario.protocol \in Protocols /\ scenario.form \in Forms
      /\ scenario.reuse \in BOOLEAN /\ scenario.first \in Agents
      /\ scenario.second \in Agents \cup {None}
  BY ConnectionsAssumption DEF Forms
<1>2. Last \in Nat \ {0}
  BY <1>1 DEF Last
<1>3. scenario.protocol = "did-exchange" => scenario.first \in Responders
  BY DEF Responders
<1>4. scenario.protocol = "connection" =>
              /\ scenario.form = "connection" /\ ~scenario.reuse
              /\ scenario.steps[1].do = "generate"
  BY ScenarioAssumption
<1>5. scenario.protocol = "did-exchange" =>
              /\ scenario.form # "connection" /\ (scenario.reuse => scenario.form = "public")
              /\ scenario.steps[1].do = IF scenario.form = "request" THEN "askPublic" ELSE "invite"
              /\ scenario.second \in Agents /\ scenario.second \notin Responders
  BY ScenarioAssumption
<1> QED
  BY <1>1, <1>2, <1>3, <1>4, <1>5

\* What comes before a step, and what may be the last.
LEMMA OrderFacts ==
  ASSUME scenario \in Scenarios, at \in 1..Last
  PROVE  /\ at # 1 => LET p == scenario.steps[at-1] IN
              /\ at - 1 \in 1..Last
              /\ \/ at = Last /\ Intrudes(p, Step)
                 \/ /\ p.do \in Precedes[Step.do]
                    /\ \/ Step.do = "generate"
                       \/ \E a, b \in Agents : Between(p, a, b) /\ Between(Step, a, b)
         /\ at = Last => \/ Step.do = "connected"
                         \/ at # 1 /\ Intrudes(scenario.steps[at-1], Step)
<1>1. Last \in Nat \ {0}
  BY ScenarioFacts
<1>2. at # 1 => at \in 2..Last /\ at - 1 \in 1..Last
  BY <1>1
<1>3. at # 1 => LET p == scenario.steps[at-1] IN
         \/ at = Last /\ Intrudes(p, Step)
         \/ /\ p.do \in Precedes[Step.do]
            /\ \/ Step.do = "generate"
               \/ \E a, b \in Agents : Between(p, a, b) /\ Between(Step, a, b)
  BY <1>2, ScenarioAssumption DEF Step, Last
<1>4. at = Last => \/ Step.do = "connected"
                   \/ at # 1 /\ Intrudes(scenario.steps[at-1], Step)
  BY <1>1, ScenarioAssumption DEF Step, Last
<1> QED
  BY <1>2, <1>3, <1>4

LEMMA PrecedesFacts ==
  ASSUME NEW d \in Deeds, NEW e \in Precedes[d]
  PROVE  /\ e \in Deeds
         /\ e = "generate" <=> d = "receive"
         /\ d = "request" <=> e = "receive"
         /\ d = "respond" <=> e = "request"
         /\ d = "ping" <=> e = "respond"
         /\ d = "connected" => e \in {"ping", "answered", "repeat"}
         /\ d = "generate" <=> e = "connected"
         /\ d = "take" <=> e = "invite"
         /\ d = "ask" <=> e = "take"
         /\ d = "hear" <=> e = "ask"
         /\ d = "answer" <=> e \in {"hear", "hearPublic"}
         /\ d = "repeat" => e = "answered"
         /\ d = "answered" <=> e = "answer"
         /\ d = "hearPublic" <=> e = "askPublic"
         /\ d \notin {"invite", "askPublic"}
BY DEF Precedes, Deeds

\* The two agents of a step are the two of the step after it.
LEMMA BetweenFacts ==
  ASSUME NEW s, NEW r, NEW a, NEW b, NEW c, NEW d,
         Between(s, a, b), Between(s, c, d), Between(r, c, d), s.do # "connected"
  PROVE  a = c /\ b = d /\ Between(r, a, b)
BY DEF Between

LEMMA ByBetween ==
  ASSUME NEW s, NEW a, NEW b, Between(s, a, b), s.do \in Deeds
  PROVE  /\ a # b /\ {s.by, s.to} = {a, b} /\ s.by # s.to
         /\ b = IF s.by = a THEN s.to ELSE s.by
         /\ s.do \in Inviting => s.by = a /\ s.to = b
         /\ s.do \notin Inviting \cup {"connected"} => s.by = b /\ s.to = a
BY DEF Between, Inviting

----------------------------------------------------------------------------
(* The operations of the store.                                            *)

LEMMA StoreParts ==
  ASSUME NEW st \in Store!Stores
  PROVE  /\ st.order \in Seq(Ids) /\ st.has \in SUBSET Webhooks
         /\ st.list \in [Webhooks -> Seq(Exchanges)]
         /\ Len(st.order) \in Nat /\ \A k \in 1..Len(st.order) : st.order[k] \in Ids
<1>1. /\ st.order \in Seq(Ids) /\ st.has \in SUBSET Webhooks
      /\ st.list \in [Webhooks -> Seq(Exchanges)]
  BY DEF Store!Stores, Webhooks
<1> QED
  BY <1>1

LEMMA WebhookParts ==
  /\ \A i \in Ids : BoxOf(i) \in Webhooks /\ BoxOf(i)[1] = i /\ i[1] \in Exchanges
  /\ \A w \in Webhooks : /\ w[1] \in Ids /\ w[1][1] \in Exchanges /\ w = <<w[1], w[2]>>
                         /\ w[2] \in {"didexchange-msg", "connection-msg", "out-of-band-msg"}
  /\ \A i, j \in Ids : BoxOf(i) = BoxOf(j) => i = j
BY DEF Webhooks, Store!Boxes, BoxOf, Ids

\* push_resource files the webhook, and nothing else changes.
LEMMA PushFacts ==
  ASSUME NEW st \in Store!Stores, NEW w \in Webhooks, NEW x \in Exchanges,
         NEW r, r = Store!push_resource(st, w[1], w[2], x)
  PROVE  /\ r \in Store!Stores
         /\ Store!CanPop(r, w)
         /\ \A v \in Webhooks \ {w} : /\ Store!CanPop(r, v) <=> Store!CanPop(st, v)
                                      /\ r.list[v] = st.list[v]
         /\ Store!Inserted(st, w[1]) => r.order = st.order
         /\ ~Store!Inserted(st, w[1]) => r.order = Append(st.order, w[1])
         /\ r.list[w] = Append(st.list[w], x)
<1>1. /\ st.order \in Seq(Ids) /\ st.has \in SUBSET Webhooks
      /\ st.list \in [Webhooks -> Seq(Exchanges)]
  BY StoreParts
<1>2. w[1] \in Ids /\ w = <<w[1], w[2]>>
  BY WebhookParts
<1>3. /\ r.order = IF Store!Inserted(st, w[1]) THEN st.order ELSE Append(st.order, w[1])
      /\ r.has = st.has \cup {w}
      /\ r.list = [st.list EXCEPT ![w] = Append(@, x)]
      /\ r = [order |-> r.order, has |-> r.has, list |-> r.list]
  BY <1>2 DEF Store!push_resource
<1>4. Append(st.list[w], x) \in Seq(Exchanges) /\ Append(st.list[w], x) # <<>>
  <2>1. st.list[w] \in Seq(Exchanges)
    BY <1>1
  <2> QED
    BY <2>1
<1>5. r.order \in Seq(Ids)
  <2>1. Append(st.order, w[1]) \in Seq(Ids)
    BY <1>1, <1>2
  <2> QED
    BY <1>1, <1>3, <2>1
<1>6. r.list \in [Webhooks -> Seq(Exchanges)] /\ r.list[w] = Append(st.list[w], x)
  BY <1>1, <1>3, <1>4
<1>7. r \in Store!Stores
  BY <1>1, <1>3, <1>5, <1>6 DEF Store!Stores, Webhooks
<1>8. \A v \in Webhooks \ {w} : r.list[v] = st.list[v]
  BY <1>1, <1>3
<1>9. Store!CanPop(r, w)
  BY <1>3, <1>4, <1>6 DEF Store!CanPop
<1>10. \A v \in Webhooks \ {w} : Store!CanPop(r, v) <=> Store!CanPop(st, v)
  BY <1>3, <1>8 DEF Store!CanPop
<1> QED
  BY <1>3, <1>6, <1>7, <1>8, <1>9, <1>10

\* pop_resource takes a webhook from one list, pop_resource_latest from the other end.
LEMMA PopFacts ==
  ASSUME NEW st \in Store!Stores, NEW w \in Webhooks, Store!CanPop(st, w), NEW r,
         r \in {Store!pop_resource(st, w), Store!pop_resource_latest(st, w)}
  PROVE  /\ r \in Store!Stores /\ r.order = st.order
         /\ \A v \in Webhooks \ {w} : /\ r.list[v] = st.list[v]
                                      /\ Store!CanPop(r, v) <=> Store!CanPop(st, v)
         /\ Store!PoppedTail(st, w) \in Exchanges
         /\ Len(st.list[w]) \in DOMAIN st.list[w]
         /\ \A k \in DOMAIN r.list[w] : \E l \in DOMAIN st.list[w] : r.list[w][k] = st.list[w][l]
<1> DEFINE s == st.list[w]
<1>1. /\ st.order \in Seq(Ids) /\ st.has \in SUBSET Webhooks
      /\ st.list \in [Webhooks -> Seq(Exchanges)]
  BY StoreParts
<1>2. s \in Seq(Exchanges) /\ s # <<>>
  BY <1>1 DEF Store!CanPop
<1>3. Len(s) \in DOMAIN s /\ Store!PoppedTail(st, w) \in Exchanges
  BY <1>2 DEF Store!PoppedTail
<1>4. PICK t \in {Tail(s), SubSeq(s, 1, Len(s) - 1)} : r = [st EXCEPT !.list[w] = t]
  BY DEF Store!pop_resource, Store!pop_resource_latest
<1>5. t \in Seq(Exchanges)
  <2>1. Tail(s) \in Seq(Exchanges)
    BY <1>2
  <2>2. SubSeq(s, 1, Len(s) - 1) \in Seq(Exchanges)
    BY <1>2
  <2> QED
    BY <2>1, <2>2
<1>6. /\ r.order = st.order /\ r.has = st.has
      /\ r.list = [st.list EXCEPT ![w] = t]
      /\ r \in Store!Stores
  BY <1>1, <1>4, <1>5 DEF Store!Stores, Webhooks
<1>7. \A v \in Webhooks \ {w} : r.list[v] = st.list[v]
  BY <1>1, <1>6
<1>8. \A v \in Webhooks \ {w} : Store!CanPop(r, v) <=> Store!CanPop(st, v)
  BY <1>6, <1>7 DEF Store!CanPop
<1>9. r.list[w] = t
  BY <1>1, <1>6
<1>10. \A k \in DOMAIN t : \E l \in DOMAIN s : t[k] = s[l]
  <2>1. CASE t = Tail(s)
    <3>1. \A k \in DOMAIN t : k + 1 \in DOMAIN s /\ t[k] = s[k+1]
      BY <1>2, <2>1
    <3> QED
      BY <3>1
  <2>2. CASE t = SubSeq(s, 1, Len(s) - 1)
    <3>1. \A k \in DOMAIN t : k \in DOMAIN s /\ t[k] = s[k]
      BY <1>2, <2>2
    <3> QED
      BY <3>1
  <2> QED
    BY <2>1, <2>2
<1> QED
  BY <1>3, <1>6, <1>7, <1>8, <1>9, <1>10

----------------------------------------------------------------------------
(* The exchanges.                                                          *)

Moved == {"request", "response", "completed"}

\* What is under way about x: a request its inviter may still take, or the one message the
\* other end waits for.
Carried(x) ==
  LET i == exchange[x].inviter
      t == exchange[x].taker
  IN \A m \in wire : m.about = x =>
       \/ /\ m.is = "request" /\ m.to = i /\ m.from \notin {i, t}
          /\ record[m.from][x] = "request"
       \/ /\ m.is = "response" /\ m.from = i /\ m.to = t
          /\ record[i][x] = "response" /\ record[t][x] = "request"
       \/ /\ m.is = "complete" /\ m.from = t /\ m.to = i
          /\ record[i][x] \in {"response", "completed"} /\ record[t][x] = "completed"

\* While no request has been taken, every request made is under way.
Open(x) ==
  LET i == exchange[x].inviter
  IN /\ record[i][x] \in {"none", "invitation"}
     /\ \A b \in Agents \ {i} :
          /\ record[b][x] \in {"none", "invitation", "request"}
          /\ record[b][x] = "request" => Message("request", b, i, x) \in wire

\* The two ends of an exchange move in turn, and what one has done and the other not
\* heard of is under way.
Paired(x) ==
  LET i == exchange[x].inviter
      t == exchange[x].taker
  IN /\ t # i
     /\ \A b \in Agents \ {i, t} : record[b][x] \in {"none", "invitation", "request"}
     /\ <<record[i][x], record[t][x]>> \in
          {<<"request", "request">>, <<"response", "request">>, <<"response", "response">>,
           <<"response", "completed">>, <<"completed", "completed">>}
     /\ record[i][x] = "response" /\ record[t][x] = "request" => Message("response", i, t, x) \in wire
     /\ record[i][x] = "response" /\ record[t][x] = "completed" => Message("complete", t, i, x) \in wire
     /\ AcceptsAlone(i) => record[i][x] # "request"
     /\ record[t][x] = "response" => exchange[x].form = "connection" /\ kind[t] = "acapy"

\* DID exchange is between a responder and agents that are not.
Roles(x) ==
  exchange[x].form # "connection" =>
    /\ exchange[x].inviter \in Responders
    /\ \A a \in Agents : kind[a] = "acapy"
    /\ \A b \in Agents \ {exchange[x].inviter} : record[b][x] # "none" => b \notin Responders

Untouched(x) ==
  /\ exchange[x].taker = None
  /\ \A a \in Agents : record[a][x] = "none"
  /\ \A m \in wire : m.about # x

AgreedOn(x) ==
  IF exchange[x].inviter = None THEN Untouched(x)
  ELSE /\ Carried(x) /\ Roles(x)
       /\ IF exchange[x].taker = None THEN Open(x) ELSE Paired(x)

Agreed == \A x \in Exchanges : AgreedOn(x)

----------------------------------------------------------------------------
(* The webhooks and the context.                                           *)

InStore(a, i) == Store!CanPop(store[a], BoxOf(i))
Coming(a, i) == BoxOf(i) \in pending[a] \/ InStore(a, i)

\* The agent a may have webhooks about x: it has begun, and a responder takes no part in a
\* DID exchange that another agent has begun.
Knows(a, x) ==
  /\ exchange[x].inviter # None
  /\ a \in Responders /\ exchange[x].form # "connection" => exchange[x].inviter = a

\* A list holds webhooks of its own exchange.
Filed ==
  \A a \in Agents :
    /\ \A w \in Webhooks : \A j \in DOMAIN store[a].list[w] : store[a].list[w][j] = w[1][1]
    /\ \A w \in pending[a] : Knows(a, w[1][1])
    /\ \A i \in Ids : Store!Inserted(store[a], i) => Knows(a, i[1])
    /\ \A w \in Webhooks : Store!CanPop(store[a], w) => Store!Inserted(store[a], w[1])

Context ==
  /\ \A x \in begun : exchange[x].inviter # None
  /\ invitation # None => invitation \in begun
  /\ scenario.protocol = "did-exchange" =>
       /\ first = scenario.first /\ second = scenario.second
       /\ \A a \in Agents : kind[a] = "acapy"
       /\ \A a, b \in Agents :
            connection_id_dict[a][b] # None => Knows(first, connection_id_dict[a][b])

----------------------------------------------------------------------------
(* The place of a call.                                                    *)

\* The calls a step makes after its first.
Follow ==
  [generate |-> {}, receive |-> {"inviter-id"}, request |-> {}, respond |-> {}, ping |-> {},
   connected |-> {"look-to"}, invite |-> {"invitation-webhook"}, take |-> {"active-connection"},
   ask |-> {}, hear |-> {}, answer |-> {}, repeat |-> {}, answered |-> {},
   askPublic |-> {"request-webhook"}, hearPublic |-> {"connection-webhook"}]

Start == {"create-invitation", "send-invitation", "create-request"}

Called ==
  /\ verdict = "failed" => at <= Last
  /\ verdict = "passed" => at > Last
  /\ call.op # "idle" =>
       /\ ~Lacking(Step)
       /\ \/ call.op = OperationOf[Step.do] /\ call.by = Step.by /\ call.about = IdFor(Step)
          \/ call.op \in Follow[Step.do]
       /\ call.op = "inviter-id" => call.by = first
       /\ call.op = "look-to" =>
            /\ call.by = Step.to /\ call.about = connection_id_dict[Step.to][Step.by]
            /\ Shows(Step.by, connection_id_dict[Step.by][Step.to])
       /\ call.op \in {"invitation-webhook", "request-webhook"} =>
            call.by = Step.by /\ call.about = invitation
       /\ call.op = "connection-webhook" =>
            call.by = first /\ call.about = invitation /\ missed
       /\ call.op = "invitation-webhook" => connection_id_dict[Step.by][second] = None
       /\ call.op = "active-connection" =>
            /\ scenario.reuse /\ call.by = first /\ call.about # None
            /\ exchange[call.about].inviter = first
            /\ exchange[call.about].form = "public"
            /\ record[Step.by][call.about] = "completed"
       /\ call.about = None <=> call.op \in Start

----------------------------------------------------------------------------
(* How far a scenario has come.                                            *)

\* The first call of a step that begins an exchange counts as the step.
Begins ==
  \/ call.op = "request-webhook"
  \/ call.op = "invitation-webhook" /\ Step.do = "invite"
Started == at # 1 \/ Begins

\* The last step that has been taken, and the agent it connects with the inviter.
Reached == IF Begins THEN Step ELSE scenario.steps[at-1]
Partner == IF Reached.by = first THEN Reached.to ELSE Reached.by

\* Up to the step of a third agent, which fails.
Underway == verdict = "running" /\ at <= Last /\ call.op # "inviter-id"

\* The one look at the webhook that came last did not find that of the request.
Excused == scenario.form = "request" /\ missed

\* After a step d that connects first and q, the context holds the ids found so far.
Named(d, q) ==
  /\ invitation \in begun
  /\ \A a \in Agents : temp_connection_id_dict[a] = IF a = first /\ d = "generate" THEN invitation ELSE None
  /\ d \notin {"generate", "invite", "askPublic", "hearPublic"} =>
       \/ connection_id_dict[q][first] = invitation
       \/ scenario.form = "request" /\ d = "answer" /\ late /\ connection_id_dict[q][first] = None
  /\ d \notin {"generate", "invite", "take", "ask", "askPublic"} =>
       Excused \/ connection_id_dict[first][q] = invitation
  /\ d \in {"askPublic", "hearPublic"} =>
       /\ scenario.form = "request"
       /\ \/ call.op = "request-webhook" /\ connection_id_dict[q][first] = None
          \/ late /\ connection_id_dict[q][first] = None
          \/ connection_id_dict[q][first] = invitation
  /\ d \in {"invite", "take", "ask"} =>
       scenario.form # "request" /\ connection_id_dict[first][q] \in {None, invitation}

\* ... and the exchange they name has come so far.
Stands(d, q) ==
  /\ exchange[invitation].inviter = first /\ exchange[invitation].form = scenario.form
  /\ scenario.form = "invitation" => exchange[invitation].keyed
  /\ \A c \in Agents \ {first, q} : record[c][invitation] = "none"
  /\ d \in {"generate", "invite"} => record[q][invitation] = "none"
  /\ d \in {"receive", "take"} =>
       \/ kind[q] = "acapy" /\ record[q][invitation] = "invitation"
       \/ kind[q] = "credo" /\ record[q][invitation] \in Moved
  /\ d \notin {"generate", "invite", "receive", "take"} => record[q][invitation] \in Moved
  /\ \/ AcceptsAlone(first) \/ Excused
     \/ record[first][invitation] \in
          (IF d \in {"respond", "ping", "connected", "answer", "answered", "repeat"}
           THEN {"response", "completed"} ELSE {"none", "invitation", "request"})
  /\ d = "ping" /\ kind[q] = "acapy" => record[q][invitation] = "completed"

Come == Between(Reached, first, Partner) /\ Named(Reached.do, Partner) /\ Stands(Reached.do, Partner)

Turn ==
  Underway =>
    IF Started THEN Come
    ELSE /\ \A a, b \in Agents : connection_id_dict[a][b] = None
         /\ \A a \in Agents : temp_connection_id_dict[a] = None

\* Two agents have a connection, each under the id the context names.
Conn(a, x) ==
  \/ Connected(a, x)
  \/ kind[a] = "credo" /\ record[a][x] = "request"

Joined ==
  at > Last /\ ~Excused =>
    LET p == Pair[1]
        q == Pair[2]
        x == connection_id_dict[p][q]
    IN /\ x # None /\ connection_id_dict[q][p] = x
       /\ {exchange[x].inviter, exchange[x].taker} = {p, q}
       /\ Conn(p, x) /\ Conn(q, x)
       /\ scenario.reuse \/ x \in begun

\* The webhook a step will look for is filed or under way: that of the invitation, when
\* one is keyed on it; that of the request, when it has been taken.
Told(d, q) ==
  /\ d \in {"invite", "take", "ask"} /\ connection_id_dict[first][q] = None
       /\ exchange[invitation].keyed
     => Coming(first, <<invitation, "invitation">>)
  /\ call.op = "request-webhook" => Coming(q, <<invitation, "request">>)
  /\ d = "askPublic" =>
       missed \/ exchange[invitation].taker = None \/ Coming(first, <<invitation, "request">>)

Awaited == Underway /\ Started => Told(Reached.do, Partner)

IInv ==
  /\ TypeOK /\ Inv /\ Called /\ Agreed /\ Filed /\ Context
  /\ Turn /\ Joined /\ Awaited /\ FailureHasCause

----------------------------------------------------------------------------
(* What an agent does keeps its exchanges in agreement.                    *)

LEMMA AgentTypes ==
  ASSUME TypeOK
  PROVE  /\ \A a \in Agents, x \in Exchanges : record[a][x] \in States
         /\ \A x \in Exchanges : /\ exchange[x].inviter \in Agents \cup {None}
                                 /\ exchange[x].taker \in Agents \cup {None}
                                 /\ exchange[x].form \in Forms
         /\ \A m \in wire : /\ m.to \in Agents /\ m.from \in Agents /\ m.about \in Exchanges
                            /\ m.is \in {"request", "response", "complete"}
                            /\ m = Message(m.is, m.from, m.to, m.about)
         /\ \A a \in Agents : kind[a] \in {"acapy", "credo"}
         /\ None \notin Agents /\ None \notin Exchanges
<1>1. \A a \in Agents, x \in Exchanges : record[a][x] \in States
  BY DEF TypeOK
<1>2. \A x \in Exchanges : exchange[x] \in
        [form : Forms, inviter : Agents \cup {None}, taker : Agents \cup {None}, keyed : BOOLEAN]
  BY DEF TypeOK
<1>3. \A m \in wire : m \in Messages
  BY DEF TypeOK
<1>4. \A m \in Messages : m = Message(m.is, m.from, m.to, m.about)
  BY DEF Messages, Message
<1>5. \A a \in Agents : kind[a] \in {"acapy", "credo"}
  BY DEF TypeOK
<1> QED
  BY <1>1, <1>2, <1>3, <1>4, <1>5, ConnectionsAssumption DEF Messages

LEMMA MessageFields ==
  ASSUME NEW is, NEW a, NEW b, NEW x
  PROVE  /\ Message(is, a, b, x).is = is /\ Message(is, a, b, x).from = a
         /\ Message(is, a, b, x).to = b /\ Message(is, a, b, x).about = x
BY DEF Message

LEMMA Apart ==
  ASSUME TypeOK, NEW x \in Exchanges, AgreedOn(x), exchange'[x] = exchange[x],
         \A a \in Agents : record'[a][x] = record[a][x],
         \A m : m.about = x => (m \in wire <=> m \in wire'),
         UNCHANGED <<kind, auto>>
  PROVE  AgreedOn(x)'
<1> DEFINE i == exchange[x].inviter
           t == exchange[x].taker
<1>1. i \in Agents \cup {None} /\ t \in Agents \cup {None}
  BY AgentTypes
<1>2. CASE i = None
  BY <1>2 DEF AgreedOn, Untouched
<1>3. CASE i # None
  <2>1. i \in Agents /\ Carried(x) /\ Roles(x) /\ IF t = None THEN Open(x) ELSE Paired(x)
    BY <1>1, <1>3 DEF AgreedOn
  <2>2. \A is : \A a, b \in Agents : Message(is, a, b, x) \in wire <=> Message(is, a, b, x) \in wire'
    BY MessageFields
  <2>3. \A m \in wire : m.from \in Agents
    BY AgentTypes
  <2>4. \A m \in wire' : m.about = x => m \in wire
    OBVIOUS
  <2>5. t # None \/ \A m \in wire : m.about = x => m.is = "request"
    <3>1. \A m \in wire : m.to \in Agents /\ m.from \in Agents
      BY AgentTypes
    <3>2. t = None => t \notin Agents
      BY ConnectionsAssumption
    <3> QED
      BY <2>1, <3>1, <3>2 DEF Carried
  <2>6. Carried(x)'
    BY <2>1, <2>3, <2>4, <2>5, <1>1 DEF Carried
  <2>7. Roles(x)'
    BY <2>1 DEF Roles
  <2>8. AcceptsAlone(i)' <=> AcceptsAlone(i)
    BY DEF AcceptsAlone
  <2>9. CASE t = None
    <3>1. Open(x)
      BY <2>1, <2>9
    <3>2. Open(x)'
      BY <2>1, <2>2, <3>1 DEF Open
    <3> QED
      BY <1>3, <2>6, <2>7, <2>9, <3>2 DEF AgreedOn
  <2>10. CASE t # None
    <3>1. Paired(x) /\ t \in Agents
      BY <1>1, <2>1, <2>10
    <3>2. Paired(x)'
      BY <2>1, <2>2, <2>8, <3>1 DEF Paired
    <3> QED
      BY <1>3, <2>6, <2>7, <2>10, <3>2 DEF AgreedOn
  <2> QED
    BY <2>9, <2>10
<1> QED
  BY <1>2, <1>3

\* Agent b gets the record v of x, and the other records stay.
Sets(b, x, v) ==
  \A a \in Agents : \A y \in Exchanges :
    record'[a][y] = IF a = b /\ y = x THEN v ELSE record[a][y]

LEMMA SetsRecord ==
  ASSUME TypeOK, NEW b \in Agents, NEW x \in Exchanges, NEW v \in States,
         record' = [record EXCEPT ![b][x] = v]
  PROVE  Sets(b, x, v) /\ record' \in [Agents -> [Exchanges -> States]]
<1>1. record \in [Agents -> [Exchanges -> States]]
  BY DEF TypeOK
<1>2. record' = [record EXCEPT ![b] = [record[b] EXCEPT ![x] = v]]
  BY <1>1
<1>3. [record[b] EXCEPT ![x] = v] \in [Exchanges -> States]
  BY <1>1
<1>4. record' \in [Agents -> [Exchanges -> States]]
  BY <1>1, <1>2, <1>3
<1>5. \A a \in Agents \ {b} : record'[a] = record[a]
  BY <1>1, <1>2
<1>6. record'[b] = [record[b] EXCEPT ![x] = v]
  BY <1>1, <1>2
<1>7. \A y \in Exchanges : record'[b][y] = IF y = x THEN v ELSE record[b][y]
  BY <1>1, <1>6
<1> QED
  BY <1>4, <1>5, <1>7 DEF Sets

\* An agreement about one exchange is left alone by what happens to another.
LEMMA OnlyAbout ==
  ASSUME TypeOK, Agreed, NEW x \in Exchanges, NEW b \in Agents, NEW v, Sets(b, x, v),
         \A y \in Exchanges \ {x} : exchange'[y] = exchange[y],
         \A m : m.about # x => (m \in wire <=> m \in wire'),
         UNCHANGED <<kind, auto>>, AgreedOn(x)'
  PROVE  Agreed'
<1>1. \A y \in Exchanges \ {x} : AgreedOn(y)'
  <2> TAKE y \in Exchanges \ {x}
  <2>1. \A a \in Agents : record'[a][y] = record[a][y]
    BY DEF Sets
  <2>2. \A m : m.about = y => (m \in wire <=> m \in wire')
    OBVIOUS
  <2> QED
    BY <2>1, <2>2, Apart DEF Agreed
<1> QED
  BY <1>1 DEF Agreed

\* An exchange begins: its inviter has a record of the invitation, or not yet, or a
\* request has been made to its public DID.
LEMMA BeginsAgreed ==
  ASSUME TypeOK, Agreed, NEW x \in Fresh, NEW i \in Agents, NEW f \in Forms,
         NEW k \in BOOLEAN,
         exchange' = [exchange EXCEPT ![x] =
                       [form |-> f, inviter |-> i, taker |-> None, keyed |-> k]],
         NEW b \in Agents, NEW v \in States, Sets(b, x, v), UNCHANGED <<kind, auto>>,
         \/ b = i /\ v \in {"none", "invitation"} /\ wire' = wire
         \/ b # i /\ v = "request" /\ wire' = wire \cup {Message("request", b, i, x)},
         f # "connection" =>
           /\ i \in Responders
           /\ \A a \in Agents : kind[a] = "acapy"
           /\ b # i => b \notin Responders
  PROVE  Agreed' /\ exchange' \in [Exchanges -> [form : Forms, inviter : Agents \cup {None}, taker : Agents \cup {None}, keyed : BOOLEAN]]
<1>1. x \in Exchanges /\ exchange[x].inviter = None
  BY DEF Fresh
<1>2. Untouched(x)
  BY <1>1 DEF Agreed, AgreedOn
<1>3. exchange \in [Exchanges -> [form : Forms, inviter : Agents \cup {None}, taker : Agents \cup {None}, keyed : BOOLEAN]]
  BY DEF TypeOK
<1>4. exchange'[x] = [form |-> f, inviter |-> i, taker |-> None, keyed |-> k]
      /\ \A y \in Exchanges \ {x} : exchange'[y] = exchange[y]
  BY <1>1, <1>3
<1>5. \A a \in Agents : record'[a][x] = IF a = b THEN v ELSE "none"
  BY <1>1, <1>2 DEF Sets, Untouched
<1>6. \A m \in wire' : m.about = x => m = Message("request", b, i, x) /\ b # i /\ v = "request"
  BY <1>2 DEF Untouched
<1>7. Message("request", b, i, x).is = "request" /\ Message("request", b, i, x).to = i
      /\ Message("request", b, i, x).from = b /\ Message("request", b, i, x).about = x
  BY MessageFields
<1>8. None \notin Agents
  BY ConnectionsAssumption
<1>9. Carried(x)'
  BY <1>4, <1>5, <1>6, <1>7, <1>8 DEF Carried
<1>10. Roles(x)'
  BY <1>4, <1>5 DEF Roles
<1>11. Open(x)'
  BY <1>4, <1>5 DEF Open
<1>12. AgreedOn(x)'
  BY <1>4, <1>8, <1>9, <1>10, <1>11 DEF AgreedOn
<1>13. \A m : m.about # x => (m \in wire <=> m \in wire')
  BY <1>7
<1>14. Agreed'
  BY <1>1, <1>4, <1>12, <1>13, OnlyAbout
<1> QED
  BY <1>1, <1>3, <1>14

\* An agent takes an invitation it has no record of yet; Credo asks at once.
LEMMA TakesAgreed ==
  ASSUME TypeOK, Agreed, NEW x \in Exchanges, NEW b \in Agents, NEW v \in States, Sets(b, x, v),
         exchange[x].inviter # None, b # exchange[x].inviter, record[b][x] = "none",
         UNCHANGED <<kind, auto, exchange>>,
         \/ v = "invitation" /\ wire' = wire
         \/ v = "request" /\ wire' = wire \cup {Message("request", b, exchange[x].inviter, x)},
         exchange[x].form # "connection" => b \notin Responders
  PROVE  Agreed'
<1> DEFINE i == exchange[x].inviter
           t == exchange[x].taker
           n == Message("request", b, i, x)
<1>1. i \in Agents /\ t \in Agents \cup {None} /\ None \notin Agents
  BY AgentTypes
<1>2. Carried(x) /\ Roles(x) /\ IF t = None THEN Open(x) ELSE Paired(x)
  BY DEF Agreed, AgreedOn
<1>3. b # t
  BY <1>1, <1>2 DEF Paired
<1>4. \A a \in Agents \ {b} : record'[a][x] = record[a][x]
  BY DEF Sets
<1>5. record'[b][x] = v
  BY DEF Sets
<1>6. n.is = "request" /\ n.to = i /\ n.from = b /\ n.about = x
  BY MessageFields
<1>7. \A m \in wire' : m \in wire \/ (m = n /\ v = "request")
  OBVIOUS
<1>8. \A m \in wire : m.about = x => m.from # b
  BY <1>2, <1>3 DEF Carried
<1>9. \A m \in wire : m.from \in Agents /\ m.to \in Agents
  BY AgentTypes
<1>10. Carried(x)'
  <2> SUFFICES ASSUME NEW m \in wire', m.about = x
               PROVE  \/ m.is = "request" /\ m.to = i /\ m.from \notin {i, t} /\ record'[m.from][x] = "request"
                      \/ /\ m.is = "response" /\ m.from = i /\ m.to = t
                         /\ record'[i][x] = "response" /\ record'[t][x] = "request"
                      \/ /\ m.is = "complete" /\ m.from = t /\ m.to = i
                         /\ record'[i][x] \in {"response", "completed"} /\ record'[t][x] = "completed"
    BY DEF Carried
  <2>1. CASE m = n /\ v = "request"
    BY <1>3, <1>5, <1>6, <2>1
  <2>2. CASE m \in wire
    BY <1>1, <1>2, <1>3, <1>4, <1>8, <1>9, <2>2 DEF Carried
  <2> QED
    BY <1>7, <2>1, <2>2
<1>11. Roles(x)'
  BY <1>1, <1>2, <1>4 DEF Roles
<1>12. CASE t = None
  <2>1. Open(x)'
    BY <1>1, <1>2, <1>4, <1>5, <1>12 DEF Open
  <2> QED
    BY <1>10, <1>11, <1>12, <2>1, <1>6, OnlyAbout DEF AgreedOn
<1>13. CASE t # None
  <2>1. AcceptsAlone(i)' <=> AcceptsAlone(i)
    BY DEF AcceptsAlone
  <2>2. Paired(x)'
    BY <1>1, <1>2, <1>3, <1>4, <1>5, <1>13, <2>1 DEF Paired
  <2> QED
    BY <1>10, <1>11, <1>13, <2>2, <1>6, OnlyAbout DEF AgreedOn
<1> QED
  BY <1>12, <1>13

LEMMA MovesFacts ==
  ASSUME NEW m \in Moves
  PROVE  /\ m.op \in Moving /\ m.from \in States /\ m.to \in {"request", "response", "completed"}
         /\ m.op \in {"accept-invitation", "send-request"} =>
              m.from = "invitation" /\ m.to = "request" /\ m.is = "request"
         /\ m.op \in {"accept-request", "send-response"} =>
              m.from = "request" /\ m.to = "response" /\ m.is = "response"
         /\ m.op = "send-ping" =>
              m.from \in {"response", "completed"} /\ m.to = "completed" /\ m.is = "complete"
BY DEF Moves, Moving, States

\* An agent moves its record and sends the message that goes with it: an inviter what an
\* inviter sends, and the other end what the other end does.
LEMMA MoveAgreed ==
  ASSUME TypeOK, Agreed, NEW x \in Exchanges, NEW b \in Agents, NEW m \in Moves,
         m.from = record[b][x], Sets(b, x, m.to),
         wire' = wire \cup {Message(m.is, b, PeerOf(b, x), x)},
         exchange[x].inviter # None,
         b = exchange[x].inviter <=> m.op \in {"accept-request", "send-response"},
         UNCHANGED <<kind, auto, exchange>>
  PROVE  Agreed' /\ PeerOf(b, x) \in Agents
<1> DEFINE i == exchange[x].inviter
           t == exchange[x].taker
           n == Message(m.is, b, PeerOf(b, x), x)
<1>1. i \in Agents /\ t \in Agents \cup {None} /\ None \notin Agents
  BY AgentTypes
<1>2. Carried(x) /\ Roles(x) /\ IF t = None THEN Open(x) ELSE Paired(x)
  BY DEF Agreed, AgreedOn
<1>3. \A a \in Agents \ {b} : record'[a][x] = record[a][x]
  BY DEF Sets
<1>4. record'[b][x] = m.to
  BY DEF Sets
<1>5. n.is = m.is /\ n.to = PeerOf(b, x) /\ n.from = b /\ n.about = x
  BY MessageFields
<1>6. \A y \in wire' : y \in wire \/ y = n
  OBVIOUS
<1>7. \A y \in wire : y.from \in Agents /\ y.to \in Agents
  BY AgentTypes
<1>8. AcceptsAlone(i)' <=> AcceptsAlone(i)
  BY DEF AcceptsAlone
<1>9. Roles(x)'
  <2>1. b # i => record[b][x] # "none"
    BY MovesFacts, <1>1, <1>2 DEF Moving
  <2> QED
    BY <1>1, <1>2, <1>3, <2>1 DEF Roles
<1>10. CASE m.op \in {"accept-invitation", "send-request"}
  <2>1. m.from = "invitation" /\ m.to = "request" /\ m.is = "request" /\ b # i
    BY <1>10, MovesFacts
  <2>2. b # t /\ PeerOf(b, x) = i
    BY <1>1, <1>2, <2>1 DEF Paired, PeerOf
  <2>3. \A y \in wire : y.about = x => y.from # b
    BY <1>2, <2>1, <2>2 DEF Carried
  <2>4. Carried(x)'
    <3> SUFFICES ASSUME NEW y \in wire', y.about = x
                 PROVE  \/ y.is = "request" /\ y.to = i /\ y.from \notin {i, t} /\ record'[y.from][x] = "request"
                        \/ /\ y.is = "response" /\ y.from = i /\ y.to = t
                           /\ record'[i][x] = "response" /\ record'[t][x] = "request"
                        \/ /\ y.is = "complete" /\ y.from = t /\ y.to = i
                           /\ record'[i][x] \in {"response", "completed"} /\ record'[t][x] = "completed"
      BY DEF Carried
    <3>1. CASE y = n
      BY <1>4, <1>5, <2>1, <2>2, <3>1
    <3>2. CASE y \in wire
      BY <1>1, <1>2, <1>3, <1>7, <2>1, <2>2, <2>3, <3>2 DEF Carried
    <3> QED
      BY <1>6, <3>1, <3>2
  <2>5. t = None => Open(x)'
    BY <1>1, <1>2, <1>3, <1>4, <2>1, <2>2 DEF Open
  <2>6. t # None => Paired(x)'
    BY <1>1, <1>2, <1>3, <1>4, <1>8, <2>1, <2>2 DEF Paired
  <2>7. AgreedOn(x)'
    BY <1>9, <2>4, <2>5, <2>6 DEF AgreedOn
  <2> QED
    BY <1>1, <1>5, <2>2, <2>7, OnlyAbout
<1>11. CASE m.op \in {"accept-request", "send-response"}
  <2>1. m.from = "request" /\ m.to = "response" /\ m.is = "response" /\ b = i
    BY <1>11, MovesFacts
  <2>2. t # None /\ t \in Agents /\ Paired(x) /\ PeerOf(b, x) = t
    BY <1>1, <1>2, <2>1 DEF Open, PeerOf
  <2>3. record[t][x] = "request" /\ t # i
    BY <2>1, <2>2 DEF Paired
  <2>4. Carried(x)'
    <3> SUFFICES ASSUME NEW y \in wire', y.about = x
                 PROVE  \/ y.is = "request" /\ y.to = i /\ y.from \notin {i, t} /\ record'[y.from][x] = "request"
                        \/ /\ y.is = "response" /\ y.from = i /\ y.to = t
                           /\ record'[i][x] = "response" /\ record'[t][x] = "request"
                        \/ /\ y.is = "complete" /\ y.from = t /\ y.to = i
                           /\ record'[i][x] \in {"response", "completed"} /\ record'[t][x] = "completed"
      BY DEF Carried
    <3>1. CASE y = n
      BY <1>3, <1>4, <1>5, <2>1, <2>2, <2>3, <3>1
    <3>2. CASE y \in wire
      BY <1>1, <1>2, <1>3, <1>7, <2>1, <2>2, <2>3, <3>2 DEF Carried
    <3> QED
      BY <1>6, <3>1, <3>2
  <2>5. Paired(x)'
    BY <1>1, <1>2, <1>3, <1>4, <1>8, <2>1, <2>2, <2>3 DEF Paired
  <2>7. AgreedOn(x)'
    BY <1>9, <2>2, <2>4, <2>5 DEF AgreedOn
  <2> QED
    BY <1>5, <2>2, <2>7, OnlyAbout
<1>12. CASE m.op = "send-ping"
  <2>1. m.from \in {"response", "completed"} /\ m.to = "completed" /\ m.is = "complete" /\ b # i
    BY <1>12, MovesFacts
  <2>2. t # None /\ Paired(x) /\ b = t /\ PeerOf(b, x) = i
    BY <1>1, <1>2, <2>1 DEF Open, Paired, PeerOf
  <2>3. record[i][x] \in {"response", "completed"} /\ (record[t][x] = "response" => record[i][x] = "response")
    BY <2>1, <2>2 DEF Paired
  <2>4. Carried(x)'
    <3> SUFFICES ASSUME NEW y \in wire', y.about = x
                 PROVE  \/ y.is = "request" /\ y.to = i /\ y.from \notin {i, t} /\ record'[y.from][x] = "request"
                        \/ /\ y.is = "response" /\ y.from = i /\ y.to = t
                           /\ record'[i][x] = "response" /\ record'[t][x] = "request"
                        \/ /\ y.is = "complete" /\ y.from = t /\ y.to = i
                           /\ record'[i][x] \in {"response", "completed"} /\ record'[t][x] = "completed"
      BY DEF Carried
    <3>1. CASE y = n
      BY <1>1, <1>3, <1>4, <1>5, <2>1, <2>2, <2>3, <3>1
    <3>2. CASE y \in wire
      BY <1>1, <1>2, <1>3, <1>4, <1>7, <2>1, <2>2, <2>3, <3>2 DEF Carried
    <3> QED
      BY <1>6, <3>1, <3>2
  <2>5. Paired(x)'
    BY <1>1, <1>2, <1>3, <1>4, <1>8, <2>1, <2>2, <2>3 DEF Paired
  <2>7. AgreedOn(x)'
    BY <1>9, <2>2, <2>4, <2>5 DEF AgreedOn
  <2> QED
    BY <1>1, <1>5, <2>2, <2>7, OnlyAbout
<1> QED
  BY <1>10, <1>11, <1>12, MovesFacts DEF Moving

----------------------------------------------------------------------------
(* A message arrives.                                                      *)

\* What a message may do to a record: the inviter takes a request or the completion, the
\* other end the response.
Grown(a, x) ==
  \/ record'[a][x] = record[a][x]
  \/ /\ a = exchange[x].inviter /\ record[a][x] \in {"none", "invitation"}
     /\ exchange[x].taker = None /\ exchange'[x].taker # None
     /\ record'[a][x] = IF AcceptsAlone(a) THEN "response" ELSE "request"
  \/ /\ a = exchange[x].inviter /\ record[a][x] = "response" /\ record'[a][x] = "completed"
  \/ /\ a # exchange[x].inviter /\ record[a][x] = "request" /\ record'[a][x] \in {"response", "completed"}

Grows ==
  /\ \A a \in Agents : \A x \in Exchanges : Grown(a, x)
  /\ \A x \in Exchanges :
       /\ exchange'[x].inviter = exchange[x].inviter /\ exchange'[x].form = exchange[x].form
       /\ exchange'[x].keyed = exchange[x].keyed
       /\ exchange[x].taker # None => exchange'[x].taker = exchange[x].taker

Arrives(m) ==
  /\ record' = [record EXCEPT ![m.to][m.about] = Furthest(Through(m))]
  /\ exchange' = IF m.is = "request" THEN [exchange EXCEPT ![m.about].taker = m.from]
                 ELSE exchange
  /\ wire' = (wire \ {m}) \cup Reply(m)

LEMMA RequestArrives ==
  ASSUME TypeOK, Agreed, NEW m \in wire, m.is = "request", Takes(m), Arrives(m),
         UNCHANGED <<kind, auto>>
  PROVE  /\ Agreed' /\ Grows /\ wire' \subseteq Messages
         /\ record' \in [Agents -> [Exchanges -> States]]
         /\ exchange' \in [Exchanges -> [form : Forms, inviter : Agents \cup {None}, taker : Agents \cup {None}, keyed : BOOLEAN]]
<1> DEFINE x == m.about
           i == exchange[x].inviter
           b == m.from
           v == IF AcceptsAlone(i) THEN "response" ELSE "request"
<1>1. m \in Messages /\ x \in Exchanges /\ b \in Agents /\ m.to \in Agents /\ None \notin Agents
      /\ i \in Agents \cup {None}
  BY AgentTypes DEF TypeOK
<1>2. exchange[x].taker = None
  BY DEF Takes
<1>3. i # None
  BY <1>1 DEF Agreed, AgreedOn, Untouched
<1>4. Carried(x) /\ Roles(x) /\ Open(x)
  BY <1>1, <1>2, <1>3 DEF Agreed, AgreedOn
<1>5. m.to = i /\ b # i /\ record[b][x] = "request" /\ record[i][x] \in {"none", "invitation"}
  BY <1>1, <1>4 DEF Carried, Open
<1>6. Furthest(Through(m)) = v
  <2>1. Through(m) = {"request"}
              \cup (IF AcceptsAlone(i) THEN {"response"} ELSE {})
    BY <1>5 DEF Through
  <2>2. "completed" \notin Through(m) /\ ("response" \in Through(m) <=> AcceptsAlone(i))
    BY <2>1
  <2> QED
    BY <2>2 DEF Furthest
<1>7. Reply(m) = IF AcceptsAlone(i) THEN {Message("response", i, b, x)} ELSE {}
  <2>1. "response" \in Through(m) <=> AcceptsAlone(i)
    BY <1>5 DEF Through
  <2> QED
    BY <1>5, <2>1 DEF Reply
<1>8. v \in States /\ record' = [record EXCEPT ![i][x] = v]
  BY <1>5, <1>6 DEF Arrives, States
<1>9. Sets(i, x, v) /\ record' \in [Agents -> [Exchanges -> States]]
  BY <1>1, <1>3, <1>8, SetsRecord
<1>10. exchange \in [Exchanges -> [form : Forms, inviter : Agents \cup {None}, taker : Agents \cup {None}, keyed : BOOLEAN]]
  BY DEF TypeOK
<1>11. exchange' = [exchange EXCEPT ![x] = [exchange[x] EXCEPT !.taker = b]]
  BY <1>1, <1>10 DEF Arrives
<1>12. /\ exchange'[x].inviter = i /\ exchange'[x].form = exchange[x].form
       /\ exchange'[x].keyed = exchange[x].keyed /\ exchange'[x].taker = b
       /\ \A y \in Exchanges \ {x} : exchange'[y] = exchange[y]
       /\ exchange' \in [Exchanges -> [form : Forms, inviter : Agents \cup {None}, taker : Agents \cup {None}, keyed : BOOLEAN]]
  BY <1>1, <1>10, <1>11
<1>13. Grows
  <2>1. \A y \in Exchanges : /\ exchange'[y].keyed = exchange[y].keyed
                              /\ exchange'[y].inviter = exchange[y].inviter /\ exchange'[y].form = exchange[y].form
                             /\ exchange[y].taker # None => exchange'[y].taker = exchange[y].taker
    BY <1>2, <1>12
  <2>2. \A a \in Agents : \A y \in Exchanges : Grown(a, y)
    BY <1>1, <1>2, <1>5, <1>9, <1>12 DEF Sets, Grown
  <2> QED
    BY <2>1, <2>2 DEF Grows
<1>14. \A n \in wire' : (n \in wire /\ n # m) \/ (n = Message("response", i, b, x) /\ AcceptsAlone(i))
  BY <1>7 DEF Arrives
<1>15. /\ Message("response", i, b, x).is = "response" /\ Message("response", i, b, x).from = i
       /\ Message("response", i, b, x).to = b /\ Message("response", i, b, x).about = x
       /\ Message("response", i, b, x) \in Messages
  BY <1>1, <1>3 DEF Message, Messages
<1>16. \A n \in wire : n.about = x /\ n # m => n.is = "request" /\ n.to = i /\ n.from \notin {i, b}
                                               /\ record[n.from][x] = "request" /\ n.from \in Agents
  <2> SUFFICES ASSUME NEW n \in wire, n.about = x, n # m
               PROVE  n.is = "request" /\ n.to = i /\ n.from \notin {i, b}
                      /\ record[n.from][x] = "request" /\ n.from \in Agents
    OBVIOUS
  <2>1. n.to \in Agents /\ n.from \in Agents /\ n = Message(n.is, n.from, n.to, n.about)
    BY AgentTypes
  <2>2. m = Message(m.is, m.from, m.to, m.about)
    BY AgentTypes
  <2>3. n.is = "request" /\ n.to = i /\ n.from # i /\ record[n.from][x] = "request"
    BY <1>1, <1>2, <1>4, <2>1 DEF Carried
  <2>4. n.from # b
    BY <1>5, <2>1, <2>2, <2>3
  <2> QED
    BY <2>1, <2>3, <2>4
<1>17. record'[i][x] = v /\ \A a \in Agents \ {i} : record'[a][x] = record[a][x]
  BY <1>1, <1>3, <1>9 DEF Sets
<1>18. Carried(x)'
  <2> SUFFICES ASSUME NEW n \in wire', n.about = x
               PROVE  \/ /\ n.is = "request" /\ n.to = i /\ n.from \notin {i, b}
                         /\ record'[n.from][x] = "request"
                      \/ /\ n.is = "response" /\ n.from = i /\ n.to = b
                         /\ record'[i][x] = "response" /\ record'[b][x] = "request"
    BY <1>12 DEF Carried
  <2>1. CASE n \in wire /\ n # m
    BY <1>16, <1>17, <2>1
  <2>2. CASE n = Message("response", i, b, x) /\ AcceptsAlone(i)
    BY <1>1, <1>5, <1>15, <1>17, <2>2
  <2> QED
    BY <1>14, <2>1, <2>2
<1>19. Roles(x)'
  BY <1>4, <1>12, <1>17 DEF Roles
<1>20. Paired(x)'
  <2>1. AcceptsAlone(i)' <=> AcceptsAlone(i)
    BY <1>12 DEF AcceptsAlone
  <2>2. AcceptsAlone(i) => Message("response", i, b, x) \in wire'
    BY <1>7 DEF Arrives
  <2>3. \A c \in Agents \ {i, b} : record'[c][x] \in {"none", "invitation", "request"}
    BY <1>4, <1>17 DEF Open
  <2>4. record'[b][x] = "request" /\ record'[i][x] = v
    BY <1>1, <1>5, <1>17
  <2> QED
    BY <1>5, <1>12, <2>1, <2>2, <2>3, <2>4 DEF Paired
<1>21. AgreedOn(x)'
  BY <1>1, <1>3, <1>12, <1>18, <1>19, <1>20 DEF AgreedOn
<1>22. \A n : n.about # x => (n \in wire <=> n \in wire')
  BY <1>7, <1>15 DEF Arrives
<1>23. Agreed'
  BY <1>1, <1>3, <1>9, <1>12, <1>21, <1>22, OnlyAbout
<1>24. wire' \subseteq Messages
  BY <1>14, <1>15 DEF TypeOK
<1> QED
  BY <1>9, <1>12, <1>13, <1>23, <1>24

LEMMA ResponseArrives ==
  ASSUME TypeOK, Agreed, NEW m \in wire, m.is = "response", Arrives(m),
         UNCHANGED <<kind, auto>>
  PROVE  /\ Takes(m)
         /\ Agreed' /\ Grows /\ wire' \subseteq Messages
         /\ record' \in [Agents -> [Exchanges -> States]]
         /\ exchange' = exchange
<1> DEFINE x == m.about
           i == exchange[x].inviter
           t == exchange[x].taker
           v == IF exchange[x].form # "connection" \/ kind[t] = "credo" THEN "completed" ELSE "response"
<1>1. m \in Messages /\ x \in Exchanges /\ m.from \in Agents /\ m.to \in Agents /\ None \notin Agents
      /\ i \in Agents \cup {None}
  BY AgentTypes DEF TypeOK
<1>2. i # None
  BY <1>1 DEF Agreed, AgreedOn, Untouched
<1>3. Carried(x) /\ Roles(x) /\ IF t = None THEN Open(x) ELSE Paired(x)
  BY <1>1, <1>2 DEF Agreed, AgreedOn
<1>4. /\ m.from = i /\ m.to = t /\ t \in Agents /\ t # None
      /\ record[i][x] = "response" /\ record[t][x] = "request"
  BY <1>1, <1>3 DEF Carried
<1>5. Paired(x) /\ t # i
  BY <1>3, <1>4 DEF Paired
<1>6. Takes(m)
  BY <1>4 DEF Takes
<1>7. /\ "response" \in Through(m)
      /\ "completed" \in Through(m) <=> v = "completed"
  BY <1>4 DEF Through
<1>8. Furthest(Through(m)) = v
  BY <1>7 DEF Furthest
<1>9. Reply(m) = IF v = "completed" THEN {Message("complete", t, i, x)} ELSE {}
  BY <1>4, <1>7 DEF Reply
<1>10. v \in States /\ record' = [record EXCEPT ![t][x] = v] /\ exchange' = exchange
  BY <1>4, <1>8 DEF Arrives, States
<1>11. Sets(t, x, v) /\ record' \in [Agents -> [Exchanges -> States]]
  BY <1>1, <1>4, <1>10, SetsRecord
<1>12. Grows
  BY <1>1, <1>4, <1>5, <1>10, <1>11 DEF Sets, Grown, Grows
<1>13. \A n \in wire' : (n \in wire /\ n # m) \/ (n = Message("complete", t, i, x) /\ v = "completed")
  BY <1>9 DEF Arrives
<1>14. /\ Message("complete", t, i, x).is = "complete" /\ Message("complete", t, i, x).from = t
       /\ Message("complete", t, i, x).to = i /\ Message("complete", t, i, x).about = x
       /\ Message("complete", t, i, x) \in Messages
  BY <1>1, <1>2, <1>4 DEF Message, Messages
<1>15. \A n \in wire : n.about = x /\ n # m => n.is = "request" /\ n.to = i /\ n.from \notin {i, t}
                                               /\ record[n.from][x] = "request" /\ n.from \in Agents
  <2> SUFFICES ASSUME NEW n \in wire, n.about = x, n # m
               PROVE  n.is = "request" /\ n.to = i /\ n.from \notin {i, t}
                      /\ record[n.from][x] = "request" /\ n.from \in Agents
    OBVIOUS
  <2>1. n.from \in Agents /\ n = Message(n.is, n.from, n.to, n.about)
        /\ m = Message(m.is, m.from, m.to, m.about)
    BY AgentTypes
  <2>2. ~(n.is = "response" /\ n.from = i /\ n.to = t)
    BY <1>4, <2>1
  <2> QED
    BY <1>3, <1>4, <2>1, <2>2 DEF Carried
<1>16. record'[t][x] = v /\ \A a \in Agents \ {t} : record'[a][x] = record[a][x]
  BY <1>1, <1>4, <1>11 DEF Sets
<1>17. Carried(x)'
  <2> SUFFICES ASSUME NEW n \in wire', n.about = x
               PROVE  \/ /\ n.is = "request" /\ n.to = i /\ n.from \notin {i, t}
                         /\ record'[n.from][x] = "request"
                      \/ /\ n.is = "complete" /\ n.from = t /\ n.to = i
                         /\ record'[i][x] \in {"response", "completed"} /\ record'[t][x] = "completed"
    BY <1>10 DEF Carried
  <2>1. CASE n \in wire /\ n # m
    BY <1>15, <1>16, <2>1
  <2>2. CASE n = Message("complete", t, i, x) /\ v = "completed"
    BY <1>1, <1>2, <1>4, <1>5, <1>14, <1>16, <2>2
  <2> QED
    BY <1>13, <2>1, <2>2
<1>18. Roles(x)'
  BY <1>3, <1>4, <1>10, <1>16 DEF Roles
<1>19. Paired(x)'
  <2>1. AcceptsAlone(i)' <=> AcceptsAlone(i)
    BY <1>10 DEF AcceptsAlone
  <2>2. v = "completed" => Message("complete", t, i, x) \in wire'
    BY <1>9 DEF Arrives
  <2>3. record'[t][x] = v /\ record'[i][x] = "response"
    BY <1>1, <1>2, <1>4, <1>5, <1>16
  <2>4. v = "response" => exchange[x].form = "connection" /\ kind[t] = "acapy"
    BY <1>4, AgentTypes
  <2>5. \A c \in Agents \ {i, t} : record'[c][x] \in {"none", "invitation", "request"}
    BY <1>5, <1>16 DEF Paired
  <2>6. v \in {"response", "completed"}
    OBVIOUS
  <2>7. <<record'[i][x], record'[t][x]>> \in {<<"response", "response">>, <<"response", "completed">>}
    BY <2>3, <2>6
  <2> HIDE DEF v
  <2> QED
    BY <1>5, <1>10, <2>1, <2>2, <2>3, <2>4, <2>5, <2>7 DEF Paired
<1>20. AgreedOn(x)'
  BY <1>2, <1>4, <1>10, <1>17, <1>18, <1>19 DEF AgreedOn
<1>21. \A n : n.about # x => (n \in wire <=> n \in wire')
  BY <1>9, <1>14 DEF Arrives
<1>22. Agreed'
  BY <1>1, <1>4, <1>10, <1>11, <1>20, <1>21, OnlyAbout
<1>23. wire' \subseteq Messages
  BY <1>13, <1>14 DEF TypeOK
<1> QED
  BY <1>6, <1>10, <1>11, <1>12, <1>22, <1>23

LEMMA CompletionArrives ==
  ASSUME TypeOK, Agreed, NEW m \in wire, m.is = "complete", Takes(m), Arrives(m),
         UNCHANGED <<kind, auto>>
  PROVE  /\ Agreed' /\ Grows /\ wire' \subseteq Messages
         /\ record' \in [Agents -> [Exchanges -> States]]
         /\ exchange' = exchange
<1> DEFINE x == m.about
           i == exchange[x].inviter
           t == exchange[x].taker
<1>1. m \in Messages /\ x \in Exchanges /\ m.from \in Agents /\ m.to \in Agents /\ None \notin Agents
      /\ i \in Agents \cup {None}
  BY AgentTypes DEF TypeOK
<1>2. i # None
  BY <1>1 DEF Agreed, AgreedOn, Untouched
<1>3. Carried(x) /\ Roles(x) /\ IF t = None THEN Open(x) ELSE Paired(x)
  BY <1>1, <1>2 DEF Agreed, AgreedOn
<1>4. m.from = t /\ m.to = i /\ t \in Agents /\ t # None /\ record[t][x] = "completed"
  BY <1>1, <1>3 DEF Carried
<1>5. Paired(x) /\ t # i /\ record[i][x] = "response"
  BY <1>3, <1>4 DEF Paired, Takes
<1>6. Through(m) = {"completed"} /\ Reply(m) = {}
  BY DEF Through, Reply
<1>7. Furthest(Through(m)) = "completed"
  BY <1>6 DEF Furthest
<1>8. record' = [record EXCEPT ![i][x] = "completed"] /\ exchange' = exchange /\ wire' = wire \ {m}
  <2>1. record' = [record EXCEPT ![m.to][m.about] = Furthest(Through(m))]
    BY DEF Arrives
  <2>2. exchange' = exchange
    BY DEF Arrives
  <2>3. wire' = wire \ {m}
    BY <1>6 DEF Arrives
  <2> QED
    BY <1>4, <1>7, <2>1, <2>2, <2>3
<1>9. Sets(i, x, "completed") /\ record' \in [Agents -> [Exchanges -> States]]
  BY <1>1, <1>4, <1>8, SetsRecord DEF States
<1>10. Grows
  BY <1>5, <1>8, <1>9 DEF Sets, Grown, Grows
<1>11. record'[i][x] = "completed" /\ \A a \in Agents \ {i} : record'[a][x] = record[a][x]
  BY <1>1, <1>4, <1>9 DEF Sets
<1>12. \A n \in wire : n.from \in Agents
  BY AgentTypes
<1>13. Carried(x)'
  BY <1>3, <1>4, <1>5, <1>8, <1>11, <1>12 DEF Carried
<1>14. Roles(x)'
  BY <1>3, <1>8, <1>11 DEF Roles
<1>15. Paired(x)'
  BY <1>4, <1>5, <1>8, <1>11 DEF Paired
<1>16. AgreedOn(x)'
  BY <1>2, <1>4, <1>8, <1>13, <1>14, <1>15 DEF AgreedOn
<1>17. \A n : n.about # x => (n \in wire <=> n \in wire')
  BY <1>8
<1>18. Agreed'
  BY <1>1, <1>4, <1>8, <1>9, <1>16, <1>17, OnlyAbout
<1>19. wire' \subseteq Messages
  BY <1>8 DEF TypeOK
<1> QED
  BY <1>8, <1>9, <1>10, <1>18, <1>19

\* A message that comes too late for its record is dropped, and nobody misses it.
LEMMA Dropped ==
  ASSUME TypeOK, Agreed, NEW m \in wire, ~Takes(m), wire' = wire \ {m},
         UNCHANGED <<kind, auto, record, exchange>>
  PROVE  Agreed'
<1> DEFINE x == m.about
           i == exchange[x].inviter
           t == exchange[x].taker
<1>1. x \in Exchanges /\ m.from \in Agents /\ m.to \in Agents /\ None \notin Agents
      /\ i \in Agents \cup {None}
  BY AgentTypes
<1>2. i # None
  BY <1>1 DEF Agreed, AgreedOn, Untouched
<1>3. Carried(x) /\ Roles(x) /\ IF t = None THEN Open(x) ELSE Paired(x)
  BY <1>1, <1>2 DEF Agreed, AgreedOn
<1>4. \/ m.is = "request" /\ t # None
      \/ m.is = "complete" /\ m.from = t /\ record[i][x] # "response"
  <2>1. m.is \in {"request", "response", "complete"}
    BY AgentTypes
  <2>2. m.is # "response"
    BY <1>1, <1>3 DEF Carried, Takes
  <2> QED
    BY <1>1, <1>3, <2>1, <2>2 DEF Carried, Takes
<1>5. t # None /\ Paired(x)
  BY <1>1, <1>3, <1>4
<1>6. /\ Message("response", i, t, x).is = "response"
      /\ Message("complete", t, i, x).is = "complete"
  BY MessageFields
<1>7. Carried(x)'
  BY <1>3 DEF Carried
<1>8. Roles(x)'
  BY <1>3 DEF Roles
<1>9. Paired(x)'
  <2>1. AcceptsAlone(i)' <=> AcceptsAlone(i)
    BY DEF AcceptsAlone
  <2>2. record[i][x] = "response" => m.is = "request"
    BY <1>4
  <2> QED
    BY <1>5, <1>6, <2>1, <2>2 DEF Paired
<1>10. AgreedOn(x)'
  BY <1>2, <1>5, <1>7, <1>8, <1>9 DEF AgreedOn
<1>11. Sets(m.to, x, record[m.to][x])
  BY DEF Sets
<1>12. \A n : n.about # x => (n \in wire <=> n \in wire')
  OBVIOUS
<1> QED
  BY <1>1, <1>10, <1>11, <1>12, OnlyAbout

\* A webhook for each state is on its way to the backchannel, if a step may look for it.
LEMMA SendsFacts ==
  ASSUME TypeOK, NEW a \in Agents, NEW f, NEW ws \in SUBSET Webhooks, Sends(a, f, ws)
  PROVE  /\ pending' \in [Agents -> SUBSET Webhooks]
         /\ \A b \in Agents : pending[b] \subseteq pending'[b]
         /\ \A b \in Agents \ {a} : pending'[b] = pending[b]
         /\ a \in Hearers \/ f = "request"
              => \A w \in ws : w[2] = "didexchange-msg" => w \in pending'[a]
         /\ \A w \in pending'[a] : w \in pending[a] \/ w \in ws
<1>1. pending \in [Agents -> SUBSET Webhooks]
  BY DEF TypeOK
<1>2. pending' = [pending EXCEPT ![a] = @ \cup {w \in ws : Heeded(a, f, w)}]
  BY DEF Sends
<1>3. pending'[a] = pending[a] \cup {w \in ws : Heeded(a, f, w)}
      /\ \A b \in Agents \ {a} : pending'[b] = pending[b]
  BY <1>1, <1>2
<1>4. pending' \in [Agents -> SUBSET Webhooks]
  BY <1>1, <1>2
<1>5. \A w \in ws : w[2] = "didexchange-msg" /\ (a \in Hearers \/ f = "request") => Heeded(a, f, w)
  BY DEF Heeded
<1> QED
  BY <1>3, <1>4, <1>5

LEMMA WebhookOfFacts ==
  ASSUME NEW x \in Exchanges, NEW f, NEW s
  PROVE  /\ WebhookOf(x, f, s) \in Webhooks /\ WebhookOf(x, f, s)[1][1] = x
         /\ f # "connection" =>
              WebhookOf(x, f, s) = BoxOf(<<x, IF s = "invitation" THEN "invitation" ELSE "request">>)
         /\ f # "connection" => WebhookOf(x, f, s)[2] = "didexchange-msg"
BY DEF WebhookOf, IdOf, BoxOf, Webhooks, Store!Boxes, Ids

\* A webhook for each state is on its way to the backchannel, if a step may look for it.
LEMMA TellsFacts ==
  ASSUME TypeOK, NEW a \in Agents, NEW x \in Exchanges, NEW f, NEW ss, Tells(a, x, f, ss)
  PROVE  /\ pending' \in [Agents -> SUBSET Webhooks]
         /\ \A b \in Agents : pending[b] \subseteq pending'[b]
         /\ \A b \in Agents \ {a} : pending'[b] = pending[b]
         /\ f # "connection" /\ (a \in Hearers \/ f = "request") =>
              \A s \in ss :
                BoxOf(<<x, IF s = "invitation" THEN "invitation" ELSE "request">>) \in pending'[a]
         /\ \A w \in pending'[a] : w \in pending[a] \/ w[1][1] = x
<1> DEFINE ws == {WebhookOf(x, f, s) : s \in ss}
<1>0. \A s : /\ WebhookOf(x, f, s) \in Webhooks /\ WebhookOf(x, f, s)[1][1] = x
             /\ f # "connection" =>
                  /\ WebhookOf(x, f, s) = BoxOf(<<x, IF s = "invitation" THEN "invitation" ELSE "request">>)
                  /\ WebhookOf(x, f, s)[2] = "didexchange-msg"
  BY WebhookOfFacts
<1>1. ws \in SUBSET Webhooks /\ \A w \in ws : w[1][1] = x
  BY <1>0
<1>2. Sends(a, f, ws)
  BY DEF Tells
<1>3. f # "connection" => \A s \in ss :
        /\ WebhookOf(x, f, s) = BoxOf(<<x, IF s = "invitation" THEN "invitation" ELSE "request">>)
        /\ WebhookOf(x, f, s) \in ws /\ WebhookOf(x, f, s)[2] = "didexchange-msg"
  BY <1>0
<1> HIDE DEF ws
<1>4. /\ pending' \in [Agents -> SUBSET Webhooks]
      /\ \A b \in Agents : pending[b] \subseteq pending'[b]
      /\ \A b \in Agents \ {a} : pending'[b] = pending[b]
      /\ a \in Hearers \/ f = "request"
           => \A w \in ws : w[2] = "didexchange-msg" => w \in pending'[a]
      /\ \A w \in pending'[a] : w \in pending[a] \/ w \in ws
  BY <1>1, <1>2, SendsFacts
<1> QED
  BY <1>1, <1>3, <1>4

LEMMA DeliverFacts ==
  ASSUME TypeOK, Agreed, Deliver
  PROVE  /\ Agreed' /\ Grows /\ wire' \subseteq Messages
         /\ record' \in [Agents -> [Exchanges -> States]]
         /\ exchange' \in [Exchanges -> [form : Forms, inviter : Agents \cup {None}, taker : Agents \cup {None}, keyed : BOOLEAN]]
         /\ pending' \in [Agents -> SUBSET Webhooks]
         /\ \A a \in Agents : pending[a] \subseteq pending'[a]
         /\ \A a \in Agents : \A w \in pending'[a] : w \in pending[a] \/ Knows(a, w[1][1])
         /\ \A x \in Exchanges :
              /\ exchange[x].form # "connection"
              /\ exchange[x].inviter \in Hearers \/ exchange[x].form = "request"
              /\ exchange[x].taker = None /\ exchange'[x].taker # None
              => BoxOf(<<x, "request">>) \in pending'[exchange[x].inviter]
<1>1. PICK m \in wire :
        \/ /\ Takes(m) /\ Arrives(m)
           /\ Tells(m.to, m.about, exchange[m.about].form, Through(m))
        \/ ~Takes(m) /\ wire' = wire \ {m} /\ UNCHANGED <<record, exchange, pending>>
  BY DEF Deliver, Arrives
<1>2. UNCHANGED <<kind, auto>>
  BY DEF Deliver
<1>3. /\ m.to \in Agents /\ m.from \in Agents /\ m.about \in Exchanges
      /\ m.is \in {"request", "response", "complete"} /\ None \notin Agents
  BY AgentTypes
<1>4. CASE ~Takes(m) /\ wire' = wire \ {m} /\ UNCHANGED <<record, exchange, pending>>
  <2>1. Agreed'
    BY <1>2, <1>4, Dropped
  <2>2. Grows
    BY <1>4 DEF Grows, Grown
  <2>3. wire' \subseteq Messages
    BY <1>4 DEF TypeOK
  <2>4. record' \in [Agents -> [Exchanges -> States]]
    BY <1>4 DEF TypeOK
  <2>5. exchange' \in [Exchanges -> [form : Forms, inviter : Agents \cup {None}, taker : Agents \cup {None}, keyed : BOOLEAN]]
        /\ pending' \in [Agents -> SUBSET Webhooks]
    BY <1>4 DEF TypeOK
  <2> QED
    BY <1>4, <2>1, <2>2, <2>3, <2>4, <2>5
<1>5. CASE Takes(m) /\ Arrives(m) /\ Tells(m.to, m.about, exchange[m.about].form, Through(m))
  <2> DEFINE x == m.about
             f == exchange[x].form
  <2>1. /\ Agreed' /\ Grows /\ wire' \subseteq Messages
        /\ record' \in [Agents -> [Exchanges -> States]]
        /\ exchange' \in [Exchanges -> [form : Forms, inviter : Agents \cup {None}, taker : Agents \cup {None}, keyed : BOOLEAN]]
    <3>1. CASE m.is = "request"
      BY <1>2, <1>5, <3>1, RequestArrives
    <3>2. CASE m.is \in {"response", "complete"}
      <4>1. exchange' = exchange /\ Agreed' /\ Grows /\ wire' \subseteq Messages
            /\ record' \in [Agents -> [Exchanges -> States]]
        BY <1>2, <1>5, <3>2, ResponseArrives, CompletionArrives
      <4> QED
        BY <4>1 DEF TypeOK
    <3> QED
      BY <1>3, <3>1, <3>2
  <2>2. /\ pending' \in [Agents -> SUBSET Webhooks]
        /\ \A b \in Agents : pending[b] \subseteq pending'[b]
        /\ \A b \in Agents \ {m.to} : pending'[b] = pending[b]
        /\ f # "connection" /\ (m.to \in Hearers \/ f = "request") =>
             \A s \in Through(m) :
               BoxOf(<<x, IF s = "invitation" THEN "invitation" ELSE "request">>) \in pending'[m.to]
        /\ \A w \in pending'[m.to] : w \in pending[m.to] \/ w[1][1] = x
    BY <1>3, <1>5, TellsFacts
  <2>3. exchange[x].inviter # None
    BY <1>3 DEF Agreed, AgreedOn, Untouched
  <2>4. Carried(x) /\ Roles(x)
    BY <1>3, <2>3 DEF Agreed, AgreedOn
  <2>5. f # "connection" /\ m.to \in Responders => exchange[x].inviter = m.to
    <3>1. m.to # exchange[x].inviter => record[m.to][x] # "none"
      BY <1>3, <2>4 DEF Carried
    <3> QED
      BY <1>3, <2>4, <3>1 DEF Roles
  <2>6. \A a \in Agents : \A w \in pending'[a] : w \in pending[a] \/ Knows(a, w[1][1])
    BY <2>2, <2>3, <2>5 DEF Knows
  <2>7. ASSUME NEW y \in Exchanges, exchange[y].form # "connection",
               exchange[y].inviter \in Hearers \/ exchange[y].form = "request",
               exchange[y].taker = None, exchange'[y].taker # None
        PROVE  BoxOf(<<y, "request">>) \in pending'[exchange[y].inviter]
    <3>1. exchange' # exchange
      BY <2>7
    <3>2. m.is = "request"
      BY <3>1, <1>5 DEF Arrives
    <3>3. \A z \in Exchanges \ {x} : exchange'[z] = exchange[z]
      BY <1>3, <1>5, <3>2 DEF Arrives, TypeOK
    <3>4. y = x
      BY <3>3, <2>7
    <3>5. m.to = exchange[x].inviter
      BY <1>3, <2>4, <3>2 DEF Carried
    <3>6. \A s \in Through(m) :
            BoxOf(<<x, IF s = "invitation" THEN "invitation" ELSE "request">>) \in pending'[m.to]
      BY <2>2, <2>7, <3>4, <3>5
    <3>7. "request" \in Through(m)
      BY <3>2 DEF Through
    <3> QED
      BY <3>4, <3>5, <3>6, <3>7
  <2> QED
    BY <2>1, <2>2, <2>6, <2>7
<1> QED
  BY <1>1, <1>4, <1>5

----------------------------------------------------------------------------
(* What the invariant says of a call.                                      *)

LEMMA OpOfStep ==
  ASSUME NEW d \in Deeds, NEW op, op = OperationOf[d] \/ op \in Follow[d]
  PROVE  /\ op \in Ops
         /\ op = "create-invitation" => d = "generate"
         /\ op \in {"receive-invitation", "inviter-id"} => d = "receive"
         /\ op = "accept-invitation" => d = "request"
         /\ op = "accept-request" => d = "respond"
         /\ op = "send-ping" => d = "ping"
         /\ op = "look-by" => d \in {"connected", "answered"}
         /\ op = "look-to" => d = "connected"
         /\ op = "send-invitation" => d = "invite"
         /\ op = "invitation-webhook" => d \in {"invite", "hear"}
         /\ op \in {"receive-oob", "active-connection"} => d = "take"
         /\ op = "send-request" => d = "ask"
         /\ op = "send-response" => d \in {"answer", "repeat"}
         /\ op \in {"create-request", "request-webhook"} => d = "askPublic"
         /\ op \in {"latest-webhook", "connection-webhook"} => d = "hearPublic"
         /\ op \notin {"inviter-id", "look-to", "active-connection", "request-webhook",
                       "connection-webhook"}
              => op = OperationOf[d] \/ (op = "invitation-webhook" /\ d = "invite")
         /\ OperationOf[d] \notin {"inviter-id", "look-to", "active-connection", "request-webhook",
                                   "connection-webhook", "idle"}
         /\ OperationOf[d] \in Start <=> d \in {"generate", "invite", "askPublic"}
         /\ OperationOf[d] = "invitation-webhook" => d = "hear"
BY DEF Deeds, OperationOf, Follow, Ops, Start

LEMMA HereFacts ==
  ASSUME TypeOK, at <= Last
  PROVE  /\ at \in 1..Last /\ Last \in Nat \ {0}
         /\ Step.do \in Deeds /\ Step.by \in Agents /\ Step.to \in Agents /\ Step.by # Step.to
         /\ scenario.protocol = "connection" => Step.do \in ConnectionDeeds
         /\ scenario.protocol = "did-exchange" =>
              /\ Step.do \notin ConnectionDeeds \ {"connected"}
              /\ Between(Step, scenario.first, scenario.second)
<1>1. scenario \in Scenarios /\ at \in 1..(Last + 1)
  BY DEF TypeOK, Last
<1>2. Last \in Nat \ {0}
  BY <1>1, ScenarioFacts
<1>3. at \in 1..Last
  BY <1>1, <1>2
<1> QED
  BY <1>1, <1>2, <1>3, StepFacts DEF Step

LEMMA CallFacts ==
  ASSUME TypeOK, Inv, Called, call.op # "idle"
  PROVE  /\ at \in 1..Last /\ call.by \in Agents /\ first \in Agents
         /\ call.op = OperationOf[Step.do] \/ call.op \in Follow[Step.do]
         /\ call.op = OperationOf[Step.do] => call.by = Step.by /\ call.about = IdFor(Step)
         /\ call.about \in Exchanges \/ call.op \in Start
         /\ ~Lacking(Step)
<1>1. at <= Last /\ call.by \in Agents /\ first \in Agents
  BY DEF Inv, Placed, Last
<1>2. at \in 1..Last /\ Step.do \in Deeds
  BY <1>1, HereFacts
<1>3. call.op = OperationOf[Step.do] => call.by = Step.by /\ call.about = IdFor(Step)
  BY <1>2, OpOfStep DEF Called, Follow, Deeds, OperationOf
<1>4. call.about \in Exchanges \cup {None}
  BY DEF TypeOK
<1> QED
  BY <1>1, <1>2, <1>3, <1>4 DEF Called

----------------------------------------------------------------------------
(* The agents and their webhooks go on while the harness waits.            *)

LEMMA ShowsGrows ==
  ASSUME Grows, UNCHANGED <<scenario, kind>>, NEW a \in Agents, NEW x \in Exchanges
  PROVE  /\ Connected(a, x) => Connected(a, x)'
         /\ Shows(a, x) => Shows(a, x)'
         /\ Conn(a, x) /\ (kind[a] = "credo" => scenario.protocol = "connection") => Conn(a, x)'
<1>1. Grown(a, x) /\ exchange'[x].inviter = exchange[x].inviter
      /\ (exchange[x].taker # None => exchange'[x].taker = exchange[x].taker)
  BY DEF Grows
<1>2. Connected(a, x) => Connected(a, x)'
  BY <1>1 DEF Connected, Grown
<1>3. Shows(a, x) => Shows(a, x)'
  BY <1>1, <1>2 DEF Shows
<1>4. kind[a] = "credo" /\ record[a][x] = "request" /\ scenario.protocol = "connection" => Conn(a, x)'
  BY <1>1 DEF Conn, Connected, Grown
<1> QED
  BY <1>2, <1>3, <1>4 DEF Conn

LEMMA StandsGrows ==
  ASSUME Grows, UNCHANGED <<kind, auto, scenario, late, missed, invitation, first>>,
         first \in Agents, invitation \in Exchanges, NEW d, NEW q \in Agents, q # first, Stands(d, q)
  PROVE  Stands(d, q)'
<1> DEFINE x == invitation
<1>1. exchange[x].inviter = first /\ exchange'[x].inviter = first
      /\ exchange'[x].form = exchange[x].form /\ exchange'[x].keyed = exchange[x].keyed
  BY DEF Grows, Stands
<1>2. \A a \in Agents : Grown(a, x)
  BY DEF Grows
<1>3. \A a \in Agents \ {first} : \/ record'[a][x] = record[a][x]
                                  \/ record[a][x] = "request" /\ record'[a][x] \in {"response", "completed"}
  BY <1>1, <1>2 DEF Grown
<1>4. \/ record'[first][x] = record[first][x]
      \/ /\ record[first][x] \in {"none", "invitation"}
         /\ record'[first][x] = IF AcceptsAlone(first) THEN "response" ELSE "request"
      \/ record[first][x] = "response" /\ record'[first][x] = "completed"
  BY <1>1, <1>2 DEF Grown
<1>5. \A c \in Agents \ {first, q} : record'[c][x] = "none"
  BY <1>3 DEF Stands
<1>6. /\ d \in {"generate", "invite"} => record'[q][x] = "none"
      /\ d \in {"receive", "take"} =>
           \/ kind[q] = "acapy" /\ record'[q][x] = "invitation"
           \/ kind[q] = "credo" /\ record'[q][x] \in Moved
      /\ d \notin {"generate", "invite", "receive", "take"} => record'[q][x] \in Moved
      /\ d = "ping" /\ kind[q] = "acapy" => record'[q][x] = "completed"
  BY <1>3 DEF Stands, Moved
<1>7. AcceptsAlone(first)' <=> AcceptsAlone(first)
  BY DEF AcceptsAlone
<1>8. \/ AcceptsAlone(first) \/ Excused
      \/ record'[first][x] \in
           (IF d \in {"respond", "ping", "connected", "answer", "answered", "repeat"}
            THEN {"response", "completed"} ELSE {"none", "invitation", "request"})
  BY <1>4 DEF Stands
<1>9. Excused' <=> Excused
  BY DEF Excused
<1> QED
  BY <1>1, <1>5, <1>6, <1>7, <1>8, <1>9 DEF Stands

\* What the call and the scenario's end rest on stays while the agents go on.
LEMMA CalledGrows ==
  ASSUME TypeOK, Inv, Called, Grows, UNCHANGED <<kind, contextVars, runVars, call, missed>>
  PROVE  Called'
<1>1. UNCHANGED <<scenario, at, verdict, connection_id_dict, first, second, invitation>>
  BY DEF runVars, contextVars
<1>2. Step' = Step /\ Last' = Last
  BY <1>1 DEF Step, Last
<1>3. CASE call.op = "idle"
  BY <1>1, <1>2, <1>3 DEF Called
<1>4. CASE call.op # "idle"
  <2>1. at \in 1..Last /\ ~Lacking(Step)
    BY <1>4, CallFacts
  <2>2. Step.by \in Agents /\ Step.to \in Agents
    BY <2>1, HereFacts, ScenarioFacts DEF TypeOK
  <2>3. IdFor(Step)' = IdFor(Step) /\ (Lacking(Step)' <=> Lacking(Step))
    BY <1>1, <1>2 DEF IdFor, Lacking
  <2>4. call.op = "look-to" => Shows(Step.by, connection_id_dict[Step.by][Step.to])'
    <3>1. SUFFICES ASSUME call.op = "look-to" PROVE Shows(Step.by, connection_id_dict[Step.by][Step.to])'
      OBVIOUS
    <3>2. Step.do = "connected"
      <4>1. Step.do \in Deeds
        BY <2>1, HereFacts, ScenarioFacts DEF TypeOK
      <4> QED
        BY <1>4, <3>1, <4>1, OpOfStep, CallFacts
    <3>3. connection_id_dict[Step.by][Step.to] \in Exchanges
      BY <2>1, <2>2, <3>2 DEF Lacking, IdFor, TypeOK
    <3>4. Shows(Step.by, connection_id_dict[Step.by][Step.to])
      BY <1>4, <3>1 DEF Called
    <3>5. \A a \in Agents : \A x \in Exchanges : Shows(a, x) => Shows(a, x)'
      BY <1>1, ShowsGrows
    <3>6. \A a \in Agents : \A x \in Exchanges : Shows(a, x)' <=> Shows(a, x)'
      OBVIOUS
    <3> QED
      BY <1>1, <1>2, <2>2, <3>3, <3>4, <3>5 DEF Shows, Connected
  <2>5. call.op = "active-connection" =>
          /\ exchange'[call.about].inviter = exchange[call.about].inviter
          /\ exchange'[call.about].form = exchange[call.about].form
          /\ record[Step.by][call.about] = "completed" => record'[Step.by][call.about] = "completed"
    <3>1. call.op = "active-connection" => call.about \in Exchanges
      BY <1>4, CallFacts DEF Start
    <3> QED
      BY <2>2, <3>1 DEF Grows, Grown
  <2>6. \/ call.op = OperationOf[Step.do] /\ call.by = Step.by /\ call.about = IdFor(Step)
        \/ call.op \in Follow[Step.do]
    BY <1>4 DEF Called
  <2>7. verdict' = verdict /\ at' = at /\ call' = call
    BY <1>1
  <2>8. /\ call.op = "inviter-id" => call.by = first'
        /\ call.op = "look-to" =>
            /\ call.by = Step'.to /\ call.about = connection_id_dict'[Step'.to][Step'.by]
            /\ Shows(Step.by, connection_id_dict[Step.by][Step.to])'
        /\ call.op \in {"invitation-webhook", "request-webhook"} =>
            call.by = Step'.by /\ call.about = invitation'
        /\ call.op = "connection-webhook" =>
            call.by = first' /\ call.about = invitation' /\ missed'
        /\ call.op = "invitation-webhook" => connection_id_dict'[Step'.by][second'] = None
        /\ call.about = None <=> call.op \in Start
    BY <1>1, <1>2, <1>4, <2>4 DEF Called
  <2>9. call.op = "active-connection" =>
            /\ scenario'.reuse /\ call.by = first' /\ call.about # None
            /\ exchange'[call.about].inviter = first'
            /\ exchange'[call.about].form = "public"
            /\ record'[Step'.by][call.about] = "completed"
    BY <1>1, <1>2, <1>4, <2>5 DEF Called
  <2> QED
    BY <1>1, <1>2, <1>4, <2>1, <2>3, <2>6, <2>7, <2>8, <2>9 DEF Called
<1> QED
  BY <1>3, <1>4

LEMMA ContextGrows ==
  ASSUME TypeOK, Context, Grows, UNCHANGED <<kind, contextVars, scenario, begun>>
  PROVE  Context'
<1>1. UNCHANGED <<connection_id_dict, first, second, invitation>>
  BY DEF contextVars
<1>2. \A x \in Exchanges :
        exchange'[x].inviter = exchange[x].inviter /\ exchange'[x].form = exchange[x].form
  BY DEF Grows
<1>3. begun \subseteq Exchanges
  BY DEF TypeOK
<1>4. \A a, b \in Agents : connection_id_dict[a][b] # None => connection_id_dict[a][b] \in Exchanges
  BY DEF TypeOK
<1> QED
  BY <1>1, <1>2, <1>3, <1>4 DEF Context, Knows

LEMMA PairFacts ==
  ASSUME TypeOK
  PROVE  Pair = <<Pair[1], Pair[2]>> /\ Pair[1] \in Agents /\ Pair[2] \in Agents
         /\ Pair[1] # Pair[2]
         /\ Pair[1] = scenario.steps[Last].by /\ Pair[2] = scenario.steps[Last].to
<1>1. scenario \in Scenarios /\ Last \in 1..Last
  BY ScenarioFacts DEF TypeOK
<1>2. LET s == scenario.steps[Last] IN s.by \in Agents /\ s.to \in Agents /\ s.by # s.to
  BY <1>1, StepFacts
<1> QED
  BY <1>2 DEF Pair, Last

LEMMA JoinedGrows ==
  ASSUME TypeOK, Context, Joined, Grows, UNCHANGED <<kind, contextVars, scenario, at, late, missed, begun>>
  PROVE  Joined'
<1>1. UNCHANGED connection_id_dict
  BY DEF contextVars
<1>2. Pair' = Pair /\ Last' = Last /\ (Excused' <=> Excused)
  BY DEF Pair, Last, Excused
<1> DEFINE p == Pair[1]
           q == Pair[2]
           x == connection_id_dict[p][q]
<1>3. SUFFICES ASSUME at > Last, ~Excused
               PROVE  /\ x # None /\ connection_id_dict[q][p] = x
                      /\ {exchange'[x].inviter, exchange'[x].taker} = {p, q}
                      /\ Conn(p, x)' /\ Conn(q, x)'
                      /\ scenario.reuse \/ x \in begun
  BY <1>1, <1>2 DEF Joined, Conn, Connected
<1>4. /\ x # None /\ connection_id_dict[q][p] = x
      /\ {exchange[x].inviter, exchange[x].taker} = {p, q}
      /\ Conn(p, x) /\ Conn(q, x)
      /\ scenario.reuse \/ x \in begun
  BY <1>3 DEF Joined
<1>5. p \in Agents /\ q \in Agents /\ None \notin Agents
  BY PairFacts, ConnectionsAssumption
<1>6. x \in Exchanges
  BY <1>4, <1>5 DEF TypeOK
<1>7. exchange'[x].inviter = exchange[x].inviter /\ exchange'[x].taker = exchange[x].taker
  BY <1>4, <1>5, <1>6 DEF Grows
<1>8. \A a \in Agents : kind[a] = "credo" => scenario.protocol = "connection"
  <2>1. scenario.protocol \in Protocols
    BY ScenarioFacts DEF TypeOK
  <2> QED
    BY <2>1 DEF Context, Protocols
<1>9. \A a \in Agents : \A y \in Exchanges : Conn(a, y) => Conn(a, y)'
  BY <1>8, ShowsGrows
<1>10. Conn(p, x)' /\ Conn(q, x)'
  <2>1. p' = p /\ q' = q /\ x' = x
    BY <1>1, <1>2
  <2>2. \A a, b, y, z : a = b /\ y = z /\ Conn(b, z)' => Conn(a, y)'
    OBVIOUS
  <2>3. PICK c, d, y : c = p /\ d = q /\ y = x
    OBVIOUS
  <2>4. Conn(c, y)' /\ Conn(d, y)'
    BY <1>4, <1>5, <1>6, <1>9, <2>3
  <2> HIDE DEF p, q, x
  <2> QED
    BY <2>1, <2>3, <2>4 DEF Conn, Connected
<1> QED
  BY <1>4, <1>7, <1>10

\* Where the scenario has come to.
LEMMA ReachedFacts ==
  ASSUME TypeOK, Inv, Called, Underway, Started
  PROVE  /\ at \in 1..Last /\ first \in Agents
         /\ Reached.do \in Deeds /\ Reached.by \in Agents /\ Reached.to \in Agents /\ Partner \in Agents
         /\ Begins => Reached = Step /\ Step.do \in {"invite", "askPublic"} /\ call.op # "idle"
         /\ ~Begins => at # 1 /\ Reached = scenario.steps[at-1]
         /\ scenario.protocol = "connection" => Reached.do \in ConnectionDeeds
         /\ scenario.protocol = "did-exchange" => Reached.do \notin ConnectionDeeds \ {"connected"}
<1>1. at \in 1..Last /\ first \in Agents /\ scenario \in Scenarios /\ Last \in Nat \ {0}
  BY HereFacts, ScenarioFacts DEF Underway, TypeOK, Inv, Placed
<1>2. CASE Begins
  <2>1. call.op # "idle"
    BY <1>2 DEF Begins
  <2>2. Step.do \in {"invite", "askPublic"}
    BY <1>1, <1>2, <2>1, CallFacts, HereFacts, OpOfStep DEF Begins
  <2> QED
    BY <1>1, <1>2, <2>1, <2>2, HereFacts DEF Reached, Partner
<1>3. CASE ~Begins
  <2>1. at # 1 /\ at - 1 \in 1..Last /\ Reached = scenario.steps[at-1]
    BY <1>1, <1>3 DEF Started, Reached
  <2> QED
    BY <1>1, <1>3, <2>1, StepFacts DEF Partner
<1> QED
  BY <1>2, <1>3

LEMMA TurnFacts ==
  ASSUME TypeOK, Inv, Called, Context, Turn, Underway, Started
  PROVE  /\ Between(Reached, first, Partner) /\ Named(Reached.do, Partner) /\ Stands(Reached.do, Partner)
         /\ first # Partner /\ invitation \in Exchanges /\ invitation \in begun
<1>1. Between(Reached, first, Partner) /\ Named(Reached.do, Partner) /\ Stands(Reached.do, Partner)
  BY DEF Turn, Come
<1> QED
  BY <1>1 DEF Between, Named, TypeOK

LEMMA TurnGrows ==
  ASSUME TypeOK, Inv, Called, Context, Turn, Grows,
         UNCHANGED <<kind, auto, contextVars, runVars, call, late, missed, begun>>
  PROVE  Turn' /\ (Underway' <=> Underway) /\ (Started' <=> Started)
         /\ Reached' = Reached /\ Partner' = Partner
<1>1. UNCHANGED <<scenario, at, verdict, connection_id_dict, temp_connection_id_dict, invitation, first, second>>
  BY DEF runVars, contextVars
<1>2. Step' = Step /\ Last' = Last
  BY <1>1 DEF Step, Last
<1>3. Begins' <=> Begins
  BY <1>2 DEF Begins
<1>4. (Underway' <=> Underway) /\ (Started' <=> Started) /\ Reached' = Reached
  BY <1>1, <1>2, <1>3 DEF Underway, Started, Reached
<1>5. Partner' = Partner
  BY <1>1, <1>4 DEF Partner
<1>6. CASE Underway /\ Started
  <2>1. PICK d, q : d = Reached.do /\ q = Partner
    OBVIOUS
  <2>2. Between(Reached, first, q) /\ Named(d, q) /\ Stands(d, q) /\ q # first /\ q \in Agents
        /\ first \in Agents /\ invitation \in Exchanges
    BY <1>6, <2>1, TurnFacts, ReachedFacts
  <2>3. Stands(d, q)'
    BY <1>1, <2>2, StandsGrows
  <2>4. Named(d, q)'
    BY <1>1, <2>2 DEF Named, Excused
  <2>5. Between(Reached', first', Partner')
    BY <1>1, <1>4, <1>5, <2>1, <2>2
  <2>6. Named(Reached.do, Partner)' /\ Stands(Reached.do, Partner)'
    BY <1>4, <1>5, <2>1, <2>3, <2>4 DEF Named, Stands, Excused, AcceptsAlone
  <2>7. Come'
    BY <2>5, <2>6 DEF Come
  <2>8. Turn'
    BY <1>4, <1>6, <2>7 DEF Turn
  <2> QED
    BY <1>4, <1>5, <2>8
<1>7. CASE ~(Underway /\ Started)
  <2>1. Turn'
    BY <1>1, <1>4, <1>7 DEF Turn
  <2> QED
    BY <1>4, <1>5, <2>1
<1> QED
  BY <1>4, <1>5, <1>6, <1>7

\* What a webhook tells of is not forgotten between agent and backchannel.
Kept ==
  \A a \in Agents : \A i \in Ids :
    /\ Coming(a, i) => Coming(a, i)'
    /\ InStore(a, i) => InStore(a, i)'

LEMMA AppendedLast ==
  ASSUME NEW S, NEW o \in Seq(S), NEW i \in S
  PROVE  \A j : (\E k \in DOMAIN Append(o, i) : Append(o, i)[k] = j)
                  <=> (\E k \in DOMAIN o : o[k] = j) \/ j = i
<1>1. /\ DOMAIN Append(o, i) = 1..(Len(o) + 1) /\ DOMAIN o = 1..Len(o) /\ Len(o) \in Nat
      /\ Append(o, i)[Len(o) + 1] = i /\ \A k \in 1..Len(o) : Append(o, i)[k] = o[k]
  OBVIOUS
<1>2. \A k \in 1..(Len(o) + 1) : k \in 1..Len(o) \/ k = Len(o) + 1
  BY <1>1
<1>3. \A k \in 1..Len(o) : k \in 1..(Len(o) + 1)
  BY <1>1
<1>4. Len(o) + 1 \in 1..(Len(o) + 1)
  BY <1>1
<1> QED
  BY <1>1, <1>2, <1>3, <1>4

LEMMA FileFacts ==
  ASSUME TypeOK, Filed, FileWebhook
  PROVE  /\ Kept /\ Filed'
         /\ store' \in [Agents -> Store!Stores] /\ pending' \in [Agents -> SUBSET Webhooks]
<1>1. store \in [Agents -> Store!Stores] /\ pending \in [Agents -> SUBSET Webhooks]
  BY DEF TypeOK
<1>a. PICK a \in Agents : \E w \in pending[a] :
        /\ pending' = [pending EXCEPT ![a] = @ \ {w}]
        /\ store' = [store EXCEPT ![a] = Store!push_resource(@, w[1], w[2], w[1][1])]
  BY DEF FileWebhook
<1>2. PICK w \in pending[a] :
        /\ pending' = [pending EXCEPT ![a] = @ \ {w}]
        /\ store' = [store EXCEPT ![a] = Store!push_resource(@, w[1], w[2], w[1][1])]
  BY <1>a
<1> DEFINE r == Store!push_resource(store[a], w[1], w[2], w[1][1])
<1>3. w \in Webhooks /\ w[1] \in Ids /\ w[1][1] \in Exchanges /\ store[a] \in Store!Stores
  BY <1>1, WebhookParts
<1>4. store'[a] = r /\ pending'[a] = pending[a] \ {w}
      /\ \A b \in Agents \ {a} : store'[b] = store[b] /\ pending'[b] = pending[b]
  BY <1>1, <1>2
<1>5. /\ r \in Store!Stores
      /\ Store!CanPop(r, w)
      /\ \A v \in Webhooks \ {w} : /\ Store!CanPop(r, v) <=> Store!CanPop(store[a], v)
                                   /\ r.list[v] = store[a].list[v]
      /\ Store!Inserted(store[a], w[1]) => r.order = store[a].order
      /\ ~Store!Inserted(store[a], w[1]) => r.order = Append(store[a].order, w[1])
      /\ r.list[w] = Append(store[a].list[w], w[1][1])
  <2>1. r = Store!push_resource(store[a], w[1], w[2], w[1][1])
    OBVIOUS
  <2>2. PICK x, st : x = w[1][1] /\ st = store[a]
    OBVIOUS
  <2>3. r = Store!push_resource(st, w[1], w[2], x) /\ x \in Exchanges /\ st \in Store!Stores
    BY <1>3, <2>1, <2>2
  <2> HIDE DEF r
  <2>4. /\ r \in Store!Stores
        /\ Store!CanPop(r, w)
        /\ \A v \in Webhooks \ {w} : /\ Store!CanPop(r, v) <=> Store!CanPop(st, v)
                                     /\ r.list[v] = st.list[v]
        /\ Store!Inserted(st, w[1]) => r.order = st.order
        /\ ~Store!Inserted(st, w[1]) => r.order = Append(st.order, w[1])
        /\ r.list[w] = Append(st.list[w], x)
    <3>1. w \in Webhooks
      BY <1>3
    <3>2. r = Store!push_resource(st, w[1], w[2], x)
      BY <2>3
    <3> QED
      BY <2>3, <3>1, <3>2, PushFacts
  <2> QED
    BY <2>2, <2>4
<1>6. store' \in [Agents -> Store!Stores] /\ pending' \in [Agents -> SUBSET Webhooks]
  <2>1. pending[a] \ {w} \in SUBSET Webhooks
    BY <1>1
  <2> HIDE DEF r
  <2>2. store' = [store EXCEPT ![a] = r]
    BY <1>1, <1>2 DEF r
  <2>3. pending' = [pending EXCEPT ![a] = pending[a] \ {w}]
    BY <1>1, <1>2
  <2> QED
    BY <1>1, <1>5, <2>1, <2>2, <2>3
<1>7. /\ Store!Inserted(r, w[1])
      /\ \A j : Store!Inserted(r, j) <=> Store!Inserted(store[a], j) \/ j = w[1]
  <2> DEFINE o == store[a].order
             i == w[1]
  <2>1. o \in Seq(Ids) /\ i \in Ids
    BY <1>3, StoreParts
  <2>2. CASE Store!Inserted(store[a], i)
    BY <1>5, <2>2 DEF Store!Inserted
  <2>3. CASE ~Store!Inserted(store[a], i)
    <3>1. r.order = Append(o, i)
      BY <1>5, <2>3
    <3> HIDE DEF o, i, r
    <3>2. \A j : (\E k \in DOMAIN r.order : r.order[k] = j) <=> (\E k \in DOMAIN o : o[k] = j) \/ j = i
      BY <2>1, <3>1, AppendedLast
    <3> QED
      BY <3>2 DEF Store!Inserted, o, i
  <2> QED
    BY <2>2, <2>3
<1> HIDE DEF r
<1>8. Kept
  <2> SUFFICES ASSUME NEW b \in Agents, NEW i \in Ids
               PROVE  /\ Coming(b, i) => Coming(b, i)'
                      /\ InStore(b, i) => InStore(b, i)'
    BY DEF Kept
  <2>1. BoxOf(i) \in Webhooks
    BY WebhookParts
  <2>2. PICK v \in Webhooks : v = BoxOf(i)
    BY <2>1
  <2>3. /\ Store!CanPop(store[b], v) => Store!CanPop(store'[b], v)
        /\ v \in pending[b] => v \in pending'[b] \/ Store!CanPop(store'[b], v)
    BY <1>4, <1>5
  <2> QED
    BY <2>2, <2>3 DEF Coming, InStore
<1>10. Filed'
  <2>0. exchange' = exchange /\ \A b \in Agents, x \in Exchanges : Knows(b, x)' <=> Knows(b, x)
    BY DEF FileWebhook, agentVars, Knows
  <2>1. ASSUME NEW b \in Agents, NEW v \in Webhooks
        PROVE  \A k \in DOMAIN store'[b].list[v] : store'[b].list[v][k] = v[1][1]
    <3>1. CASE b = a /\ v = w
      <4>1. store[a].list[w] \in Seq(Exchanges)
        BY <1>3, StoreParts
      <4>2. store'[b].list[v] = Append(store[a].list[w], w[1][1])
        BY <1>4, <1>5, <3>1
      <4>3. \A k \in DOMAIN store[a].list[w] : store[a].list[w][k] = w[1][1]
        BY <1>3 DEF Filed
      <4>4. PICK l, x : l = store[a].list[w] /\ x = w[1][1]
        OBVIOUS
      <4>5. \A k \in DOMAIN Append(l, x) : Append(l, x)[k] = x
        BY <1>3, <4>1, <4>3, <4>4
      <4> QED
        BY <3>1, <4>2, <4>4, <4>5
    <3>2. CASE ~(b = a /\ v = w)
      <4>1. store'[b].list[v] = store[b].list[v]
        BY <1>4, <1>5, <2>1, <3>2
      <4> QED
        BY <2>1, <4>1 DEF Filed
    <3> QED
      BY <3>1, <3>2
  <2>2. ASSUME NEW b \in Agents, NEW v \in pending'[b]
        PROVE  Knows(b, v[1][1])'
    <3>1. v \in pending[b] /\ v \in Webhooks /\ v[1][1] \in Exchanges
      BY <1>1, <1>4, WebhookParts
    <3>2. Knows(b, v[1][1])
      BY <3>1 DEF Filed
    <3> QED
      BY <2>0, <3>2 DEF Knows
  <2>3. ASSUME NEW b \in Agents, NEW i \in Ids, Store!Inserted(store'[b], i)
        PROVE  Knows(b, i[1])'
    <3>1. Store!Inserted(store[b], i) \/ (b = a /\ i = w[1])
      BY <1>4, <1>7, <2>3
    <3>2. Knows(b, i[1])
      BY <1>3, <3>1 DEF Filed
    <3> QED
      BY <2>0, <3>2 DEF Knows
  <2>4. ASSUME NEW b \in Agents, NEW v \in Webhooks, Store!CanPop(store'[b], v)
        PROVE  Store!Inserted(store'[b], v[1])
    <3>1. Store!CanPop(store[b], v) \/ (b = a /\ v = w)
      BY <1>4, <1>5, <2>4
    <3>2. Store!CanPop(store[b], v) => Store!Inserted(store[b], v[1])
      BY DEF Filed
    <3> QED
      BY <1>4, <1>7, <3>1, <3>2
  <2> QED
    BY <2>1, <2>2, <2>3, <2>4 DEF Filed
<1> QED
  BY <1>6, <1>8, <1>10

LEMMA ResponderHears ==
  ASSUME TypeOK, Context, scenario.protocol = "did-exchange", scenario.form # "request"
  PROVE  first \in Hearers
<1>1. scenario \in Scenarios /\ 1 \in 1..Last
  BY ScenarioFacts DEF TypeOK
<1>2. scenario.steps[1].do = "invite" /\ Between(scenario.steps[1], scenario.first, scenario.second)
      /\ scenario.first \in Agents
  BY <1>1, ScenarioFacts, StepFacts
<1>3. scenario.steps[1].by = first /\ first \in Agents
  BY <1>2 DEF Between, Inviting, Context
<1>4. 1 \in DOMAIN scenario.steps
  <2>1. scenario.steps \in Seq(Steps)
    BY <1>1, ConnectionsAssumption
  <2> QED
    BY <1>1, <2>1 DEF Last
<1> QED
  BY <1>1, <1>2, <1>3, <1>4 DEF Hearers, Asked

\* The invitation is of the scenario's own protocol.
LEMMA DidStage ==
  ASSUME TypeOK, Inv, Called, Underway, Started
  PROVE  /\ Reached.do \in {"invite", "take", "ask", "askPublic", "hear", "hearPublic", "answer",
                            "answered", "repeat"} => scenario.protocol = "did-exchange"
         /\ Reached.do \in ConnectionDeeds \ {"connected"} => scenario.protocol = "connection"
         /\ scenario.form # "connection" <=> scenario.protocol = "did-exchange"
<1>1. scenario.protocol \in Protocols
  BY ScenarioFacts DEF TypeOK
<1>2. scenario.form # "connection" <=> scenario.protocol = "did-exchange"
  BY <1>1, ScenarioFacts DEF TypeOK, Protocols
<1> QED
  BY <1>1, <1>2, ReachedFacts DEF Protocols, ConnectionDeeds

LEMMA AwaitedGrows ==
  ASSUME TypeOK, Inv, Called, Context, Turn, Awaited, Grows, Kept,
         UNCHANGED <<kind, auto, contextVars, runVars, call, late, missed, begun>>,
         \A x \in Exchanges :
           /\ exchange[x].form # "connection"
           /\ exchange[x].inviter \in Hearers \/ exchange[x].form = "request"
           /\ exchange[x].taker = None /\ exchange'[x].taker # None
           => BoxOf(<<x, "request">>) \in pending'[exchange[x].inviter]
  PROVE  Awaited'
<1>1. UNCHANGED <<scenario, at, verdict, connection_id_dict, invitation, first>>
  BY DEF runVars, contextVars
<1>2. /\ Underway' <=> Underway
      /\ Started' <=> Started
      /\ Reached' = Reached /\ Partner' = Partner
  BY TurnGrows
<1>3. SUFFICES ASSUME Underway, Started PROVE Awaited'
  BY <1>2 DEF Awaited
<1>4. PICK d, q, x : d = Reached.do /\ q = Partner /\ x = invitation
  OBVIOUS
<1>5. /\ q \in Agents /\ first \in Agents /\ first # q /\ x \in Exchanges
      /\ Named(d, q) /\ Stands(d, q) /\ Told(d, q)
  BY <1>3, <1>4, ReachedFacts, TurnFacts DEF Awaited
<1>6. /\ exchange[x].inviter = first /\ exchange[x].form = scenario.form
      /\ exchange'[x].keyed = exchange[x].keyed
  BY <1>4, <1>5 DEF Stands, Grows
<1>7. <<x, "request">> \in Ids /\ <<x, "invitation">> \in Ids
  BY <1>5 DEF Ids
<1>9. ASSUME d \in {"invite", "take", "ask"}, connection_id_dict[first][q] = None,
             exchange'[x].keyed
      PROVE  Coming(first, <<x, "invitation">>)'
  <2>1. Coming(first, <<x, "invitation">>)
    BY <1>4, <1>5, <1>6, <1>9 DEF Told
  <2> QED
    BY <1>1, <1>5, <1>7, <2>1 DEF Kept, Coming, InStore
<1>10. call.op = "request-webhook" => Coming(q, <<x, "request">>)'
  BY <1>4, <1>5, <1>7 DEF Told, Kept, Coming, InStore
<1>11. ASSUME d = "askPublic", exchange'[x].taker # None, ~missed
       PROVE  Coming(first, <<x, "request">>)'
  <2>1. CASE exchange[x].taker # None
    <3>1. Coming(first, <<x, "request">>)
      BY <1>4, <1>5, <1>11, <2>1 DEF Told
    <3> QED
      BY <1>1, <1>5, <1>7, <3>1 DEF Kept, Coming, InStore
  <2>2. CASE exchange[x].taker = None
    <3>1. scenario.form = "request"
      BY <1>5, <1>11 DEF Named
    <3>2. BoxOf(<<x, "request">>) \in pending'[first]
      BY <1>5, <1>6, <1>11, <2>2, <3>1
    <3> QED
      BY <1>1, <3>2 DEF Coming
  <2> QED
    BY <2>1, <2>2
<1>13. Told(d, q)'
  BY <1>1, <1>4, <1>9, <1>10, <1>11 DEF Told, Coming, InStore
<1>14. Told(Reached.do, Partner)'
  BY <1>1, <1>2, <1>4, <1>13 DEF Told, Coming, InStore
<1> QED
  BY <1>2, <1>14 DEF Awaited

LEMMA SameAgents ==
  ASSUME Agreed, UNCHANGED <<kind, auto, agentVars>>
  PROVE  Agreed'
BY DEF Agreed, AgreedOn, Untouched, Carried, Roles, Open, Paired, AcceptsAlone, agentVars

LEMMA SameWebhooks ==
  ASSUME Filed, UNCHANGED <<exchange, pending, store>>
  PROVE  Filed'
BY DEF Filed, Knows

LEMMA NoGrowth ==
  ASSUME UNCHANGED agentVars
  PROVE  Grows
BY DEF agentVars, Grows, Grown

LEMMA NothingForgotten ==
  ASSUME UNCHANGED store, \A a \in Agents : pending[a] \subseteq pending'[a]
  PROVE  Kept
BY DEF Kept, Coming, InStore

\* The parts of the invariant the agents can disturb.
Settled == /\ Called /\ Agreed /\ Filed /\ Context
           /\ Turn /\ Joined /\ Awaited /\ FailureHasCause

LEMMA EnvironmentStep ==
  ASSUME IInv, FileWebhook \/ Deliver \/ UNCHANGED vars
  PROVE  TypeOK' /\ Settled'
<1>1. UNCHANGED <<kind, auto, contextVars, runVars, call, late, missed, begun>>
  BY DEF FileWebhook, Deliver, vars
<1>2. UNCHANGED <<scenario, at, verdict, runs, connection_id_dict, temp_connection_id_dict, invitation,
                  first, second>>
  BY <1>1 DEF contextVars, runVars
<1>3. TypeOK /\ Inv /\ Called /\ Agreed /\ Filed /\ Context /\ Turn /\ Joined /\ Awaited /\ FailureHasCause
  BY DEF IInv
<1>4. ASSUME Grows PROVE FailureHasCause'
  <2>1. Step' = Step /\ UNCHANGED <<call, late, missed, auto, verdict>>
    BY <1>1, <1>2 DEF Step
  <2>2. Unkeyed => Unkeyed'
    <3>1. CASE call.op = "invitation-webhook"
      <4>1. call.about \in Exchanges
        <5>1. call.op # "idle" /\ call.op \notin Start
          BY <3>1 DEF Start
        <5> QED
          BY <1>3, <5>1 DEF Called, TypeOK
      <4> QED
        BY <1>1, <1>2, <1>4, <4>1 DEF Unkeyed, Grows
    <3> QED
      BY <3>1 DEF Unkeyed
  <2> QED
    BY <1>3, <2>1, <2>2 DEF FailureHasCause, Intrusion
<1>5. ASSUME Grows, Kept, Agreed', Filed',
             record' \in [Agents -> [Exchanges -> States]],
             exchange' \in [Exchanges -> [form : Forms, inviter : Agents \cup {None}, taker : Agents \cup {None}, keyed : BOOLEAN]],
             wire' \subseteq Messages, pending' \in [Agents -> SUBSET Webhooks], store' \in [Agents -> Store!Stores],
             \A x \in Exchanges :
               /\ exchange[x].form # "connection"
               /\ exchange[x].inviter \in Hearers \/ exchange[x].form = "request"
               /\ exchange[x].taker = None /\ exchange'[x].taker # None
               => BoxOf(<<x, "request">>) \in pending'[exchange[x].inviter]
      PROVE  TypeOK' /\ Settled'
  <2>1. TypeOK'
    BY <1>1, <1>2, <1>3, <1>5 DEF TypeOK
  <2>2. Called' /\ Context' /\ Turn' /\ Joined'
    BY <1>1, <1>2, <1>3, <1>5, CalledGrows, ContextGrows, TurnGrows, JoinedGrows
  <2>3. Awaited'
    BY <1>1, <1>3, <1>5, AwaitedGrows
  <2> QED
    BY <1>4, <1>5, <2>1, <2>2, <2>3 DEF Settled
<1>6. CASE FileWebhook
  <2>1. UNCHANGED agentVars /\ UNCHANGED <<record, exchange, wire>>
    BY <1>6 DEF FileWebhook, agentVars
  <2>2. Kept /\ Filed'
        /\ store' \in [Agents -> Store!Stores] /\ pending' \in [Agents -> SUBSET Webhooks]
    BY <1>3, <1>6, FileFacts
  <2>3. Agreed' /\ Grows
    BY <1>1, <1>3, <2>1, SameAgents, NoGrowth
  <2>4. record' \in [Agents -> [Exchanges -> States]] /\ wire' \subseteq Messages
        /\ exchange' \in [Exchanges -> [form : Forms, inviter : Agents \cup {None}, taker : Agents \cup {None}, keyed : BOOLEAN]]
    BY <1>3, <2>1 DEF TypeOK
  <2> QED
    BY <1>5, <2>1, <2>2, <2>3, <2>4
<1>7. CASE Deliver
  <2>1. UNCHANGED store
    BY <1>7 DEF Deliver
  <2>2. /\ Agreed' /\ Grows /\ wire' \subseteq Messages
        /\ record' \in [Agents -> [Exchanges -> States]]
        /\ exchange' \in [Exchanges -> [form : Forms, inviter : Agents \cup {None}, taker : Agents \cup {None}, keyed : BOOLEAN]]
        /\ pending' \in [Agents -> SUBSET Webhooks]
        /\ \A a \in Agents : pending[a] \subseteq pending'[a]
        /\ \A a \in Agents : \A w \in pending'[a] : w \in pending[a] \/ Knows(a, w[1][1])
        /\ \A x \in Exchanges :
              /\ exchange[x].form # "connection"
              /\ exchange[x].inviter \in Hearers \/ exchange[x].form = "request"
              /\ exchange[x].taker = None /\ exchange'[x].taker # None
              => BoxOf(<<x, "request">>) \in pending'[exchange[x].inviter]
    BY <1>3, <1>7, DeliverFacts
  <2>3. Kept
    BY <2>1, <2>2, NothingForgotten
  <2>4. store' \in [Agents -> Store!Stores]
    BY <1>3, <2>1 DEF TypeOK
  <2>5. \A a \in Agents, x \in Exchanges : Knows(a, x) => Knows(a, x)'
    BY <2>2 DEF Grows, Knows
  <2>6. Filed'
    <3>1. ASSUME NEW a \in Agents, NEW w \in pending'[a]
          PROVE  Knows(a, w[1][1])'
      <4>1. w \in Webhooks /\ w[1][1] \in Exchanges
        BY <2>2, WebhookParts
      <4>2. Knows(a, w[1][1])
        BY <1>3, <2>2, <3>1 DEF Filed
      <4> QED
        BY <2>5, <4>1, <4>2
    <3>2. ASSUME NEW a \in Agents, NEW i \in Ids, Store!Inserted(store'[a], i)
          PROVE  Knows(a, i[1])'
      <4>1. i[1] \in Exchanges
        BY DEF Ids
      <4>2. Knows(a, i[1])
        BY <1>3, <2>1, <3>2 DEF Filed
      <4> QED
        BY <2>5, <4>1, <4>2
    <3> QED
      BY <1>3, <2>1, <3>1, <3>2 DEF Filed
  <2> QED
    BY <1>5, <2>2, <2>3, <2>4, <2>6
<1>8. CASE UNCHANGED vars
  <2>1. UNCHANGED <<agentVars, pending, store>> /\ UNCHANGED <<record, exchange, wire>>
    BY <1>8 DEF vars, agentVars
  <2>2. Agreed' /\ Grows /\ Filed' /\ Kept
    BY <1>1, <1>3, <2>1, SameAgents, SameWebhooks, NoGrowth, NothingForgotten
  <2>3. record' \in [Agents -> [Exchanges -> States]] /\ wire' \subseteq Messages
        /\ exchange' \in [Exchanges -> [form : Forms, inviter : Agents \cup {None}, taker : Agents \cup {None}, keyed : BOOLEAN]]
        /\ pending' \in [Agents -> SUBSET Webhooks] /\ store' \in [Agents -> Store!Stores]
    BY <1>3, <2>1 DEF TypeOK
  <2> QED
    BY <1>5, <2>1, <2>2, <2>3
<1> QED
  BY <1>6, <1>7, <1>8


----------------------------------------------------------------------------
(* How a step ends.                                                        *)

\* What a step that leaves agents, webhooks and context alone keeps.
LEMMA StillKeeps ==
  ASSUME TypeOK, Agreed, Filed, Context,
         UNCHANGED <<kind, auto, agentVars, pending, store, contextVars, begun, scenario, runs>>,
         at' \in 1..(Last + 1), call' \in [op : Ops \cup {"idle"}, by : Agents \cup {None}, about : Exchanges \cup {None}],
         verdict' \in {"running", "passed", "failed"}, late' \in BOOLEAN /\ missed' \in BOOLEAN
  PROVE  TypeOK' /\ Agreed' /\ Filed' /\ Context'
<1>1. UNCHANGED <<record, exchange, wire, connection_id_dict, temp_connection_id_dict, invitation, first, second>>
  BY DEF agentVars, contextVars
<1>2. TypeOK'
  BY <1>1 DEF TypeOK, Last
<1>3. Agreed' /\ Filed'
  BY <1>1, SameAgents, SameWebhooks
<1>4. Context'
  BY <1>1 DEF Context, Knows
<1> QED
  BY <1>2, <1>3, <1>4

\* A scenario that has failed is bound by nothing but its excuse.
LEMMA FailKeeps ==
  ASSUME TypeOK, Called, at <= Last, Fail, UNCHANGED <<kind, auto, contextVars, exchange>>,
         missed => missed',
         UNCHANGED record \/ call.op \notin {"look-to", "active-connection"},
         late' \/ missed' \/ Unkeyed \/ Intrusion \/ (auto /\ Step.do = "repeat")
  PROVE  Called' /\ Turn' /\ Joined' /\ Awaited' /\ FailureHasCause'
<1>1. UNCHANGED <<scenario, at, call, runs, connection_id_dict, invitation, first, second>> /\ verdict' = "failed"
  BY DEF Fail, contextVars
<1>2. Step' = Step /\ Last' = Last
  BY <1>1 DEF Step, Last
<1>3. Called'
  <2>1. IdFor(Step)' = IdFor(Step) /\ (Lacking(Step)' <=> Lacking(Step))
    BY <1>1, <1>2 DEF IdFor, Lacking
  <2>2. CASE UNCHANGED record
    <3>1. Shows(Step.by, connection_id_dict[Step.by][Step.to])' <=> Shows(Step.by, connection_id_dict[Step.by][Step.to])
      BY <1>1, <1>2, <2>2 DEF Shows, Connected
    <3> QED
      BY <1>1, <1>2, <2>1, <2>2, <3>1 DEF Called
  <2>3. CASE call.op \notin {"look-to", "active-connection"}
    BY <1>1, <1>2, <2>1, <2>3 DEF Called
  <2> QED
    BY <2>2, <2>3
<1>4. ~Underway'
  BY <1>1 DEF Underway
<1>5. at \in Nat /\ Last \in Nat
  BY ScenarioFacts DEF TypeOK
<1>6. Turn' /\ Awaited' /\ Joined'
  BY <1>1, <1>2, <1>4, <1>5 DEF Turn, Awaited, Joined
<1>7. FailureHasCause'
  <2>1. Unkeyed => Unkeyed'
    BY <1>1 DEF Unkeyed
  <2> QED
    BY <1>1, <1>2, <2>1 DEF FailureHasCause, Intrusion
<1> QED
  BY <1>3, <1>6, <1>7

\* The scenario reaches step s, which connects the inviter with q.
LEMMA Reaches ==
  ASSUME NEW s, NEW q, NEW d, Started', Reached' = s, s.do = d, d \in Deeds,
         Between(s, first', q), Named(d, q)', Stands(d, q)', Told(d, q)'
  PROVE  Turn' /\ Awaited'
<1>1. Partner' = q
  BY ByBetween DEF Partner
<1>2. Named(Reached.do, Partner)' /\ Stands(Reached.do, Partner)' /\ Told(Reached.do, Partner)'
  BY <1>1 DEF Named, Stands, Told, Excused, AcceptsAlone, Coming, InStore
<1>3. Between(Reached', first', Partner')
  BY <1>1
<1>4. Come'
  BY <1>2, <1>3 DEF Come
<1> QED
  BY <1>2, <1>4 DEF Turn, Awaited

LEMMA DoneReaches ==
  ASSUME TypeOK, at <= Last, Done, NEW q, NEW d, Step.do = d,
         Between(Step, first', q), Named(d, q)', Stands(d, q)', Told(d, q)'
  PROVE  Turn' /\ Awaited'
<1>1. at' = at + 1 /\ call'.op = "idle" /\ scenario' = scenario
  BY DEF Done, Idle
<1>2. at \in 1..Last /\ d \in Deeds
  BY HereFacts
<1>3. Started' /\ ~Begins'
  BY <1>1, <1>2 DEF Started, Begins
<1>4. Reached' = Step
  <2>1. at' - 1 = at
    BY <1>1, <1>2
  <2>2. Reached' = scenario'.steps[at' - 1]
    BY <1>3 DEF Reached
  <2> QED
    BY <1>1, <2>1, <2>2 DEF Step
<1>5. PICK s : s = Step
  OBVIOUS
<1> QED
  BY <1>2, <1>3, <1>4, <1>5, Reaches

\* A step that is over leaves the call idle.
LEMMA DoneCalled ==
  ASSUME TypeOK, Done, verdict = "running"
  PROVE  /\ Called' /\ FailureHasCause'
         /\ UNCHANGED <<scenario, verdict, runs>>
         /\ call' \in [op : Ops \cup {"idle"}, by : Agents \cup {None}, about : Exchanges \cup {None}]
BY DEF Done, Idle, Called, FailureHasCause

\* Only what every feature ends with can be the last step.
LEMMA NotLast ==
  ASSUME TypeOK, at <= Last, Step.do \notin {"connected", "receive"}
  PROVE  at < Last /\ at + 1 \in 1..(Last + 1)
<1>1. at \in 1..Last /\ Last \in Nat \ {0} /\ scenario \in Scenarios
  BY HereFacts DEF TypeOK
<1>2. at # Last
  BY <1>1, OrderFacts DEF Intrudes
<1> QED
  BY <1>1, <1>2

LEMMA DoneJoined ==
  ASSUME TypeOK, at < Last, Done
  PROVE  Joined'
<1>1. at' = at + 1 /\ Last' = Last
  BY DEF Done, Last
<1>2. at \in Nat /\ Last \in Nat
  BY ScenarioFacts DEF TypeOK
<1> QED
  BY <1>1, <1>2 DEF Joined


----------------------------------------------------------------------------
(* The step before, and what it has left.                                  *)

Firsts == {"generate", "invite", "askPublic"}

\* Where a scenario goes on, it has got to the step before, unless a third agent comes.
LEMMA OldStage ==
  ASSUME TypeOK, Inv, Called, Context, Turn, Underway, Step.do \notin Firsts,
         NEW e, e = Reached.do, NEW q, q = Partner
  PROVE  /\ Started /\ ~Begins /\ at # 1
         /\ e \in Deeds /\ q \in Agents /\ first \in Agents /\ q # first
         /\ Named(e, q) /\ Stands(e, q) /\ Between(Reached, first, q)
         /\ invitation \in Exchanges /\ invitation \in begun
         /\ \/ at = Last /\ Intrudes(Reached, Step)
            \/ e \in Precedes[Step.do] /\ Between(Step, first, q)
<1>1. at \in 1..Last /\ scenario \in Scenarios /\ first \in Agents /\ Last \in Nat \ {0}
      /\ Step.do \in Deeds
  BY HereFacts DEF Underway, TypeOK, Inv, Placed
<1>2. at # 1
  <2>1. scenario.steps[1].do \in Firsts
    BY <1>1, ScenarioFacts DEF Protocols, Firsts
  <2> QED
    BY <2>1 DEF Step
<1>3. ~Begins
  <2>1. call.op = "request-webhook" => Step.do = "askPublic"
    BY <1>1, CallFacts, OpOfStep
  <2> QED
    BY <2>1 DEF Begins, Firsts
<1>4. Started
  BY <1>2 DEF Started
<1>5. /\ Reached = scenario.steps[at-1] /\ e \in Deeds /\ q \in Agents
      /\ Between(Reached, first, q) /\ Named(e, q) /\ Stands(e, q)
      /\ first # q /\ invitation \in Exchanges /\ invitation \in begun
  BY <1>3, <1>4, ReachedFacts, TurnFacts
<1>6. \/ at = Last /\ Intrudes(Reached, Step)
      \/ /\ e \in Precedes[Step.do]
         /\ \/ Step.do = "generate"
            \/ \E a, b \in Agents : Between(Reached, a, b) /\ Between(Step, a, b)
  BY <1>1, <1>2, <1>5, OrderFacts
<1>7. e \in Precedes[Step.do] => e # "connected"
  BY <1>1, PrecedesFacts DEF Firsts
<1>8. ASSUME e \in Precedes[Step.do]
      PROVE  Between(Step, first, q)
  <2>1. PICK a, b \in Agents : Between(Reached, a, b) /\ Between(Step, a, b)
    BY <1>6, <1>8 DEF Intrudes, Firsts, Precedes
  <2>2. PICK s, r : s = Reached /\ r = Step
    OBVIOUS
  <2>3. Between(s, first, q) /\ Between(s, a, b) /\ Between(r, a, b) /\ s.do # "connected"
    BY <1>5, <1>7, <1>8, <2>1, <2>2
  <2> QED
    BY <2>2, <2>3, BetweenFacts
<1> QED
  BY <1>1, <1>2, <1>3, <1>4, <1>5, <1>6, <1>8

\* The step of the third agent is "receive".
LEMMA NoIntruder ==
  ASSUME TypeOK, Inv, Called, Context, Turn, Underway, Step.do \notin Firsts, Step.do # "receive",
         NEW e, e = Reached.do, NEW q, q = Partner
  PROVE  e \in Precedes[Step.do] /\ Between(Step, first, q)
BY OldStage DEF Intrudes

Later == {"request", "respond", "ping", "connected", "ask", "answer", "repeat", "answered"}

\* The ids a step needs are those of the exchange.
LEMMA HeldIds ==
  ASSUME TypeOK, Inv, Called, Context, Turn, Underway, Step.do \in Later, ~Excused,
         late => ~Lacking(Step)
  PROVE  /\ IdFor(Step) = invitation /\ ~Lacking(Step)
         /\ Step.do = "connected" => /\ connection_id_dict[Step.by][Step.to] = invitation
                                     /\ connection_id_dict[Step.to][Step.by] = invitation
<1>1. PICK e, q : e = Reached.do /\ q = Partner
  OBVIOUS
<1>2. Step.do \notin Firsts /\ Step.do # "receive"
  BY DEF Later, Firsts
<1>3. Between(Step, first, q) /\ e \in Precedes[Step.do] /\ e \in Deeds /\ Step.do \in Deeds
      /\ Named(e, q) /\ invitation \in Exchanges
  BY <1>1, <1>2, OldStage, NoIntruder, HereFacts DEF Underway
<1>4. None \notin Exchanges
  BY ConnectionsAssumption
<1>5. /\ {Step.by, Step.to} = {first, q} /\ first # q
      /\ Step.do \in Inviting => Step.by = first /\ Step.to = q
      /\ Step.do \notin Inviting \cup {"connected"} => Step.by = q /\ Step.to = first
  <2>1. PICK s : s = Step
    OBVIOUS
  <2> QED
    BY <1>3, <2>1, ByBetween
<1>6. Step.do # "ask" => connection_id_dict[first][q] = invitation
  <2>1. Step.do # "ask" => e \notin {"generate", "invite", "take", "ask", "askPublic"}
    BY <1>3, PrecedesFacts DEF Later
  <2> QED
    BY <1>3, <2>1 DEF Named
<1>7. Step.do # "answer" => connection_id_dict[q][first] = invitation
  <2>1. Step.do # "answer" => e \notin {"generate", "invite", "askPublic", "hearPublic"}
    BY <1>3, PrecedesFacts DEF Later
  <2>2. CASE late /\ e = "answer" /\ connection_id_dict[q][first] = None
    <3>1. Step.do = "answered"
      BY <1>3, <2>2, PrecedesFacts DEF Later
    <3>2. IdFor(Step) = None
      BY <1>5, <2>2, <3>1 DEF IdFor, Inviting
    <3> QED
      BY <2>2, <3>1, <3>2 DEF Lacking
  <2> QED
    BY <1>3, <2>1, <2>2 DEF Named
<1>8. CASE Step.do = "connected"
  BY <1>3, <1>4, <1>5, <1>6, <1>7, <1>8 DEF IdFor, Lacking
<1>9. CASE Step.do = "answered"
  BY <1>3, <1>4, <1>5, <1>6, <1>7, <1>9 DEF IdFor, Lacking, Inviting
<1>10. CASE Step.do \in {"request", "ping", "ask"}
  BY <1>3, <1>4, <1>5, <1>6, <1>7, <1>10 DEF IdFor, Lacking, Inviting
<1>11. CASE Step.do \in {"respond", "answer", "repeat"}
  BY <1>3, <1>4, <1>5, <1>6, <1>7, <1>11 DEF IdFor, Lacking, Inviting
<1> QED
  BY <1>8, <1>9, <1>10, <1>11 DEF Later

\* A step that leaves the context alone leaves the names.
LEMMA NamedOn ==
  ASSUME NEW e, NEW d, NEW q, Named(e, q), d \in Later \cup {"hear"}, e \in Precedes[d],
         d = "hear" => connection_id_dict[first][q] = invitation,
         e = "answer" => connection_id_dict[q][first] # None,
         call.op # "request-webhook", late => late', missed => missed',
         UNCHANGED <<contextVars, begun, scenario>>
  PROVE  Named(d, q)'
<1>1. UNCHANGED <<connection_id_dict, temp_connection_id_dict, invitation, first>>
  BY DEF contextVars
<1>2. d \in Deeds /\ d # "generate" /\ d \notin {"invite", "askPublic", "take", "hearPublic"}
  BY DEF Later, Deeds
<1>3. e # "generate" /\ invitation \in begun
  BY <1>2, PrecedesFacts DEF Later, Named
<1>4. Excused => Excused'
  BY DEF Excused
<1>5. \A a \in Agents : temp_connection_id_dict[a] = None
  BY <1>3 DEF Named
<1>6. \/ connection_id_dict[q][first] = invitation
      \/ scenario.form = "request" /\ d = "answer" /\ late /\ connection_id_dict[q][first] = None
  <2>1. CASE e \in {"generate", "invite", "askPublic", "hearPublic"}
    <3>1. e = "hearPublic" /\ d = "answer"
      BY <1>2, <2>1, PrecedesFacts DEF Later
    <3> QED
      BY <3>1 DEF Named
  <2>2. CASE e \notin {"generate", "invite", "askPublic", "hearPublic"}
    BY <2>2 DEF Named
  <2> QED
    BY <2>1, <2>2
<1>7. d # "ask" => Excused' \/ connection_id_dict[first][q] = invitation
  <2>1. CASE e \in {"generate", "invite", "take", "ask", "askPublic"}
    BY <1>2, <2>1, PrecedesFacts DEF Later
  <2>2. CASE e \notin {"generate", "invite", "take", "ask", "askPublic"}
    BY <1>4, <2>2 DEF Named
  <2> QED
    BY <2>1, <2>2
<1>8. d = "ask" => scenario.form # "request" /\ connection_id_dict[first][q] \in {None, invitation}
  BY <1>2, PrecedesFacts DEF Named
<1> QED
  BY <1>1, <1>2, <1>3, <1>5, <1>6, <1>7, <1>8 DEF Named, Excused


----------------------------------------------------------------------------
(* What a step may find under way.                                         *)

\* An exchange in which nothing is under way has been taken up, and its ends agree.
LEMMA Taken ==
  ASSUME TypeOK, Agreed, NEW x \in Exchanges, NEW i \in Agents, NEW q \in Agents,
         exchange[x].inviter = i, q # i, record[q][x] \in Moved, ~UnderWay(x),
         \A c \in Agents \ {i, q} : record[c][x] = "none"
  PROVE  /\ exchange[x].taker = q
         /\ <<record[i][x], record[q][x]>> \in
              {<<"request", "request">>, <<"response", "response">>, <<"completed", "completed">>}
         /\ AcceptsAlone(i) => record[i][x] # "request"
         /\ record[q][x] = "response" => exchange[x].form = "connection" /\ kind[q] = "acapy"
<1>1. None \notin Agents
  BY AgentTypes
<1>2. exchange[x].inviter # None /\ AgreedOn(x)
  BY <1>1 DEF Agreed
<1>3. \A m \in wire : m.about # x
  BY DEF UnderWay
<1>4. exchange[x].taker # None
  <2>1. SUFFICES ASSUME exchange[x].taker = None PROVE FALSE
    OBVIOUS
  <2>2. Open(x)
    BY <1>2, <2>1 DEF AgreedOn
  <2>3. Message("request", q, i, x) \in wire
    BY <2>2 DEF Open, Moved
  <2> QED
    BY <1>3, <2>3, MessageFields
<1>5. Paired(x)
  BY <1>2, <1>4 DEF AgreedOn
<1> DEFINE t == exchange[x].taker
<1>6. t \in Agents /\ t # i
  BY <1>4, <1>5 DEF Paired, TypeOK
<1>7. record[t][x] \in Moved
  BY <1>5 DEF Paired, Moved
<1>8. t = q
  BY <1>6, <1>7 DEF Moved
<1>9. <<record[i][x], record[q][x]>> \in
          {<<"request", "request">>, <<"response", "request">>, <<"response", "response">>,
           <<"response", "completed">>, <<"completed", "completed">>}
  BY <1>5, <1>8 DEF Paired
<1>10. ~(record[i][x] = "response" /\ record[q][x] = "request")
  BY <1>3, <1>5, <1>8, MessageFields DEF Paired
<1>11. ~(record[i][x] = "response" /\ record[q][x] = "completed")
  BY <1>3, <1>5, <1>8, MessageFields DEF Paired
<1> QED
  BY <1>5, <1>8, <1>9, <1>10, <1>11 DEF Paired

\* So stands the exchange of the scenario once the invitee has moved.
LEMMA Settles ==
  ASSUME TypeOK, Agreed, NEW e, NEW q \in Agents, first \in Agents, q # first,
         invitation \in Exchanges, Stands(e, q), record[q][invitation] \in Moved, ~UnderWay(invitation)
  PROVE  /\ exchange[invitation].taker = q
         /\ <<record[first][invitation], record[q][invitation]>> \in
              {<<"request", "request">>, <<"response", "response">>, <<"completed", "completed">>}
         /\ AcceptsAlone(first) => record[first][invitation] # "request"
         /\ record[q][invitation] = "response" => scenario.form = "connection" /\ kind[q] = "acapy"
<1>1. /\ exchange[invitation].inviter = first /\ exchange[invitation].form = scenario.form
      /\ \A c \in Agents \ {first, q} : record[c][invitation] = "none"
  BY DEF Stands
<1>2. PICK x, i : x = invitation /\ i = first
  OBVIOUS
<1> QED
  BY <1>1, <1>2, Taken

Agreeing == {"respond", "ping", "connected", "answer", "answered", "repeat"}

\* After the response both ends show the connection, or something is under way.
LEMMA BothShow ==
  ASSUME TypeOK, Agreed, Context, NEW e \in Agreeing, NEW q \in Agents, first \in Agents, q # first,
         invitation \in Exchanges, Stands(e, q), ~Excused, ~UnderWay(invitation)
  PROVE  Shows(first, invitation) /\ Shows(q, invitation)
<1>1. record[q][invitation] \in Moved
  BY DEF Stands, Agreeing
<1>2. /\ exchange[invitation].taker = q
      /\ <<record[first][invitation], record[q][invitation]>> \in
              {<<"request", "request">>, <<"response", "response">>, <<"completed", "completed">>}
      /\ AcceptsAlone(first) => record[first][invitation] # "request"
      /\ record[q][invitation] = "response" => scenario.form = "connection"
  BY <1>1, Settles
<1>3. record[first][invitation] # "request"
  BY <1>2 DEF Stands, Agreeing
<1>4. scenario.form = "connection" => scenario.protocol = "connection"
  BY ScenarioFacts DEF TypeOK, Protocols
<1>5. \A a \in {first, q} : Connected(a, invitation)
  BY <1>2, <1>3, <1>4 DEF Connected
<1>6. q # None
  BY AgentTypes
<1> QED
  BY <1>2, <1>5, <1>6 DEF Shows

\* What shows at both ends is one connection between them.
LEMMA ShownIsJoined ==
  ASSUME TypeOK, Agreed, Context, NEW e \in Agreeing, NEW q \in Agents, first \in Agents, q # first,
         invitation \in Exchanges, Stands(e, q), Shows(first, invitation), Shows(q, invitation)
  PROVE  /\ exchange[invitation].inviter = first /\ exchange[invitation].taker = q
         /\ Conn(first, invitation) /\ Conn(q, invitation)
<1>1. /\ exchange[invitation].inviter = first /\ record[q][invitation] \in Moved
      /\ \A c \in Agents \ {first, q} : record[c][invitation] = "none"
  BY DEF Stands, Agreeing
<1>2. None \notin Agents /\ AgreedOn(invitation) /\ exchange[invitation].inviter # None
      /\ kind[first] \in {"acapy", "credo"} /\ kind[q] \in {"acapy", "credo"}
  BY <1>1, AgentTypes DEF Agreed
<1>3. exchange[invitation].taker # None
  <2>1. SUFFICES ASSUME exchange[invitation].taker = None PROVE FALSE
    OBVIOUS
  <2>2. record[first][invitation] \in {"none", "invitation"}
    BY <1>1, <1>2, <2>1 DEF AgreedOn, Open
  <2> QED
    BY <1>1, <1>2, <2>1, <2>2 DEF Shows, Connected
<1>4. Paired(invitation)
  BY <1>2, <1>3 DEF AgreedOn
<1>5. exchange[invitation].taker \in Agents /\ exchange[invitation].taker # first
      /\ record[exchange[invitation].taker][invitation] \in Moved
  BY <1>1, <1>3, <1>4 DEF Paired, Moved, TypeOK
<1>6. exchange[invitation].taker = q
  BY <1>1, <1>5 DEF Moved
<1>7. kind[first] = "credo" \/ kind[q] = "credo" => scenario.protocol = "connection"
  <2>1. scenario.protocol \in Protocols
    BY ScenarioFacts DEF TypeOK
  <2> QED
    BY <2>1 DEF Context, Protocols
<1>8. record[first][invitation] \in {"request", "response", "completed"}
  BY <1>1, <1>4 DEF Paired
<1>9. kind[first] = "credo" => record[first][invitation] \in {"response", "completed"}
  BY <1>1, <1>4, <1>8 DEF Paired, AcceptsAlone
<1>10. Conn(first, invitation)
  BY <1>2, <1>7, <1>9 DEF Conn, Connected, Shows
<1>11. Conn(q, invitation)
  BY <1>1, <1>2, <1>7 DEF Conn, Connected, Shows, Moved
<1> QED
  BY <1>1, <1>6, <1>10, <1>11


----------------------------------------------------------------------------
(* The steps of the harness.                                               *)

\* Another call of the same step leaves the scenario where it is.
LEMMA SameStage ==
  ASSUME TypeOK, Called, Turn, Joined, Awaited,
         UNCHANGED <<kind, auto, agentVars, pending, store, contextVars, runVars, begun, late, missed>>,
         call.op \notin {"inviter-id", "request-webhook"}, ~Begins,
         call'.op # "request-webhook", call'.op = "invitation-webhook" => Step.do # "invite"
  PROVE  Turn' /\ Joined' /\ Awaited'
<1>1. UNCHANGED <<record, exchange, wire, scenario, at, verdict, connection_id_dict, temp_connection_id_dict,
                  invitation, first, second>>
  BY DEF agentVars, runVars, contextVars
<1>2. Step' = Step /\ Last' = Last /\ Pair' = Pair /\ (Excused' <=> Excused)
  BY <1>1 DEF Step, Last, Pair, Excused
<1>3. ~Begins'
  BY <1>2 DEF Begins
<1>4. /\ Underway' => Underway
      /\ Started' <=> Started
      /\ Reached' = Reached
  BY <1>1, <1>2, <1>3 DEF Underway, Started, Reached
<1>5. Partner' = Partner
  BY <1>1, <1>4 DEF Partner
<1>6. PICK d, q : d = Reached.do /\ q = Partner
  OBVIOUS
<1>7. ASSUME Underway', Started'
      PROVE  Come' /\ Told(Reached.do, Partner)'
  <2>1. Between(Reached, first, q) /\ Named(d, q) /\ Stands(d, q) /\ Told(d, q)
    BY <1>4, <1>6, <1>7 DEF Turn, Come, Awaited
  <2>2. Named(d, q)' /\ Stands(d, q)' /\ Told(d, q)'
    BY <1>1, <1>2, <2>1 DEF Named, Stands, Told, Coming, InStore, AcceptsAlone
  <2>3. Named(Reached.do, Partner)' /\ Stands(Reached.do, Partner)' /\ Told(Reached.do, Partner)'
    BY <1>4, <1>5, <1>6, <2>2 DEF Named, Stands, Told, Excused, AcceptsAlone, Coming, InStore
  <2>4. Between(Reached', first', Partner')
    BY <1>1, <1>4, <1>5, <1>6, <2>1
  <2> QED
    BY <2>3, <2>4 DEF Come
<1>8. Turn' /\ Awaited'
  BY <1>1, <1>4, <1>7 DEF Turn, Awaited
<1>9. Joined'
  <2>1. SUFFICES ASSUME at > Last PROVE Joined'
    BY <1>1, <1>2 DEF Joined
  <2> QED
    BY <1>1, <1>2, <2>1 DEF Joined, Conn, Connected
<1> QED
  BY <1>8, <1>9

\* Nothing has to move for these steps.
LEMMA StillReaches ==
  ASSUME TypeOK, Inv, Called, Context, Turn, Underway, Done,
         Step.do \in {"answered", "connected", "repeat", "hear"},
         Step.do = "hear" => connection_id_dict[first][Partner] = invitation,
         Step.do # "hear" => ~Lacking(Step),
         UNCHANGED <<kind, auto, agentVars, contextVars, begun>>, late => late', missed => missed'
  PROVE  Turn' /\ Awaited'
<1>1. PICK e, q, d : e = Reached.do /\ q = Partner /\ d = Step.do
  OBVIOUS
<1>2. /\ e \in Precedes[d] /\ Between(Step, first, q) /\ Named(e, q) /\ Stands(e, q) /\ ~Begins
      /\ d \in Deeds
  BY <1>1, OldStage, NoIntruder, HereFacts DEF Firsts, Underway
<1>3. UNCHANGED <<record, exchange, scenario, invitation, first>>
  BY DEF agentVars, contextVars, Done
<1>4. call.op # "request-webhook"
  BY <1>2 DEF Begins
<1>5. Named(d, q)'
  <2>1. ASSUME e = "answer" PROVE connection_id_dict[q][first] # None
    <3>1. d = "answered"
      BY <1>1, <1>2, <2>1, PrecedesFacts
    <3>2. PICK s : s = Step
      OBVIOUS
    <3>3. s.by = q
      BY <1>1, <1>2, <3>1, <3>2, ByBetween DEF Inviting
    <3> QED
      BY <1>1, <3>1, <3>2, <3>3 DEF Lacking, IdFor
  <2>2. d \in Later \cup {"hear"}
    BY <1>1 DEF Later
  <2> QED
    BY <1>1, <1>2, <1>3, <1>4, <2>1, <2>2, NamedOn
<1>6. Excused => Excused'
  BY <1>3 DEF Excused
<1>7. Stands(d, q)'
  <2>1. CASE d = "hear"
    <3>1. e = "ask"
      BY <1>2, <2>1, PrecedesFacts
    <3> QED
      BY <1>2, <1>3, <1>6, <2>1, <3>1 DEF Stands, AcceptsAlone
  <2>2. CASE d # "hear"
    <3>1. d \in {"answered", "connected", "repeat"} /\ e \in {"answer", "ping", "answered", "repeat"}
      BY <1>1, <1>2, <2>2, PrecedesFacts
    <3> QED
      BY <1>2, <1>3, <1>6, <3>1 DEF Stands, AcceptsAlone
  <2> QED
    BY <2>1, <2>2
<1>8. Told(d, q)'
  <2>1. call'.op = "idle"
    BY DEF Done, Idle
  <2> QED
    BY <1>1, <2>1 DEF Told
<1> QED
  BY <1>1, <1>2, <1>3, <1>5, <1>7, <1>8, DoneReaches DEF Underway

LEMMA BeginKeeps ==
  ASSUME IInv, Begin
  PROVE  TypeOK' /\ Settled'
<1>1. /\ UNCHANGED <<kind, auto, agentVars, pending, store, contextVars, runVars, late, missed, begun>>
      /\ UNCHANGED <<scenario, at, verdict, runs, connection_id_dict, invitation, first, second>>
      /\ call.op = "idle" /\ verdict = "running" /\ at <= Last
      /\ call' = [op |-> OperationOf[Step.do], by |-> Step.by, about |-> IdFor(Step)]
      /\ ~Lacking(Step) /\ ~Heard
  BY DEF Begin, Running, Idle, Last, runVars, contextVars
<1>2. TypeOK /\ Inv /\ Called /\ Agreed /\ Filed /\ Context /\ Turn /\ Joined /\ Awaited
  BY DEF IInv
<1>3. /\ at \in 1..Last /\ Step.do \in Deeds /\ Step.by \in Agents /\ Step.to \in Agents
  BY <1>1, <1>2, HereFacts
<1>4. Underway /\ ~Begins /\ first \in Agents
  BY <1>1, <1>2 DEF Underway, Begins, Inv, Placed
<1>5. /\ call'.op = OperationOf[Step.do] /\ call'.by = Step.by /\ call'.about = IdFor(Step)
      /\ call'.op \in Ops
      /\ call'.op \notin {"inviter-id", "look-to", "active-connection", "request-webhook",
                                   "connection-webhook", "idle"}
      /\ call'.op = "invitation-webhook" => Step.do = "hear"
      /\ call'.op \in Start <=> Step.do \in Firsts
  BY <1>1, <1>3, OpOfStep DEF Firsts
<1>6. Step.do \notin Firsts => invitation \in Exchanges
  <2>1. PICK e, q : e = Reached.do /\ q = Partner
    OBVIOUS
  <2> QED
    BY <1>2, <1>4, <2>1, OldStage
<1>7. None \notin Exchanges
  BY ConnectionsAssumption
<1>8. IdFor(Step) \in Exchanges \cup {None} /\ (IdFor(Step) = None <=> Step.do \in Firsts)
  <2>1. CASE Step.do \in Firsts
    BY <2>1 DEF Firsts, IdFor
  <2>2. CASE Step.do \in {"receive", "take", "hear", "hearPublic"}
    BY <1>6, <1>7, <2>2 DEF Firsts, IdFor
  <2>3. CASE Step.do \in Later
    <3>1. IdFor(Step) # None
      BY <1>1, <2>3 DEF Lacking, Later
    <3>2. connection_id_dict[Step.by][first] \in Exchanges \cup {None} /\ connection_id_dict[Step.by][Step.to] \in Exchanges \cup {None}
      BY <1>2, <1>3, <1>4 DEF TypeOK
    <3> QED
      BY <2>3, <3>1, <3>2 DEF Later, Firsts, IdFor
  <2> QED
    BY <1>3, <2>1, <2>2, <2>3 DEF Deeds, Firsts, Later
<1>9. TypeOK' /\ Agreed' /\ Filed' /\ Context'
  <2>1. call' \in [op : Ops \cup {"idle"}, by : Agents \cup {None}, about : Exchanges \cup {None}]
    BY <1>1, <1>3, <1>5, <1>8
  <2>2. at' \in 1..(Last + 1) /\ verdict' \in {"running", "passed", "failed"} /\ late' \in BOOLEAN /\ missed' \in BOOLEAN
    BY <1>1, <1>2 DEF TypeOK, Last
  <2> QED
    BY <1>1, <1>2, <2>1, <2>2, StillKeeps
<1>10. Step' = Step /\ Last' = Last
  BY <1>1 DEF Step, Last
<1>11. Called'
  <2>1. IdFor(Step)' = IdFor(Step) /\ (Lacking(Step)' <=> Lacking(Step))
    BY <1>1, <1>10 DEF IdFor, Lacking
  <2>2. Step.do = "hear" => IdFor(Step) = invitation /\ connection_id_dict[Step.by][second] = None
    BY <1>1 DEF IdFor, Heard
  <2>3. /\ verdict' # "failed" /\ verdict' # "passed"
    BY <1>1
  <2> QED
    BY <1>1, <1>5, <1>8, <1>10, <2>1, <2>2, <2>3 DEF Called
<1>12. Turn' /\ Joined' /\ Awaited'
  BY <1>1, <1>2, <1>4, <1>5, SameStage
<1>13. FailureHasCause'
  BY <1>1 DEF FailureHasCause
<1> QED
  BY <1>9, <1>11, <1>12, <1>13 DEF Settled


LEMMA PassKeeps ==
  ASSUME IInv, Pass
  PROVE  TypeOK' /\ Settled'
<1>1. /\ UNCHANGED <<kind, auto, agentVars, pending, store, contextVars, scenario, verdict, runs, late, missed, begun>>
      /\ at' = at + 1 /\ call = Idle /\ call' = Idle /\ verdict = "running" /\ at <= Last
      /\ Step.do = "hear" /\ connection_id_dict[Step.by][second] # None
  BY DEF Pass, Running, Last, Heard
<1>2. TypeOK /\ Inv /\ Called /\ Agreed /\ Filed /\ Context /\ Turn /\ Joined /\ Awaited
  BY DEF IInv
<1>3. Done /\ Underway
  BY <1>1 DEF Done, Underway, Idle
<1>4. PICK e, q : e = Reached.do /\ q = Partner
  OBVIOUS
<1>5. /\ e \in Precedes["hear"] /\ Between(Step, first, q) /\ Named(e, q)
  BY <1>1, <1>2, <1>3, <1>4, OldStage, NoIntruder DEF Firsts
<1>6. e = "ask"
  BY <1>5 DEF Precedes
<1>7. Step.by = first /\ Step.to = q
  BY <1>1, <1>5 DEF Between, Inviting
<1>8. q = second
  <2>1. Between(Step, first, second)
    <3>1. /\ scenario.protocol = "did-exchange" => Between(Step, scenario.first, scenario.second)
          /\ scenario.protocol = "connection" => Step.do \in ConnectionDeeds
      BY <1>1, <1>2, HereFacts
    <3>2. scenario.protocol \in Protocols
      BY <1>2, ScenarioFacts DEF TypeOK
    <3> QED
      BY <1>1, <1>2, <3>1, <3>2 DEF Context, Protocols, ConnectionDeeds
  <2> QED
    BY <1>1, <1>7, <2>1 DEF Between, Inviting
<1>9. connection_id_dict[first][q] = invitation
  BY <1>1, <1>5, <1>6, <1>7, <1>8 DEF Named
<1>10. Turn' /\ Awaited'
  BY <1>1, <1>2, <1>3, <1>4, <1>9, StillReaches
<1>11. at < Last /\ at + 1 \in 1..(Last + 1)
  BY <1>1, <1>2, NotLast
<1>12. Joined'
  BY <1>2, <1>3, <1>11, DoneJoined
<1>13. Called' /\ FailureHasCause'
       /\ call' \in [op : Ops \cup {"idle"}, by : Agents \cup {None}, about : Exchanges \cup {None}]
  BY <1>1, <1>2, <1>3, DoneCalled
<1>14. TypeOK' /\ Agreed' /\ Filed' /\ Context'
  <2>1. verdict' \in {"running", "passed", "failed"} /\ late' \in BOOLEAN /\ missed' \in BOOLEAN
    BY <1>1, <1>2 DEF TypeOK
  <2> QED
    BY <1>1, <1>2, <1>11, <1>13, <2>1, StillKeeps
<1> QED
  BY <1>10, <1>12, <1>13, <1>14 DEF Settled

LEMMA SucceedKeeps ==
  ASSUME IInv, Succeed
  PROVE  TypeOK' /\ Settled'
<1>1. /\ UNCHANGED <<kind, auto, agentVars, pending, store, contextVars, scenario, at, runs, call, late, missed, begun>>
      /\ call = Idle /\ verdict' = "passed" /\ at > Last
  BY DEF Succeed, Last
<1>2. TypeOK /\ Agreed /\ Filed /\ Context /\ Joined
  BY DEF IInv
<1>3. TypeOK' /\ Agreed' /\ Filed' /\ Context'
  <2>1. at' \in 1..(Last + 1) /\ late' \in BOOLEAN /\ missed' \in BOOLEAN
        /\ call' \in [op : Ops \cup {"idle"}, by : Agents \cup {None}, about : Exchanges \cup {None}]
    BY <1>1, <1>2 DEF TypeOK, Last
  <2> QED
    BY <1>1, <1>2, <2>1, StillKeeps
<1>4. Last' = Last /\ Pair' = Pair /\ (Excused' <=> Excused) /\ UNCHANGED <<record, exchange, connection_id_dict>>
  BY <1>1 DEF Last, Pair, Excused, agentVars, contextVars
<1>5. Called'
  BY <1>1, <1>4 DEF Called, Idle
<1>6. Turn' /\ Awaited'
  BY <1>1 DEF Turn, Awaited, Underway
<1>7. Joined'
  BY <1>1, <1>2, <1>4 DEF Joined, Conn, Connected
<1>8. FailureHasCause'
  BY <1>1 DEF FailureHasCause
<1> QED
  BY <1>3, <1>5, <1>6, <1>7, <1>8 DEF Settled

\* What fails leaves the rest alone.
LEMMA StillFails ==
  ASSUME IInv, verdict = "running", at <= Last, Fail,
         UNCHANGED <<kind, auto, agentVars, pending, store, contextVars, begun>>, late' \in BOOLEAN, missed' \in BOOLEAN, missed => missed',
         late' \/ missed' \/ Unkeyed \/ Intrusion \/ (auto /\ Step.do = "repeat")
  PROVE  TypeOK' /\ Settled'
<1>1. TypeOK /\ Called /\ Agreed /\ Filed /\ Context
  BY DEF IInv
<1>2. UNCHANGED <<scenario, at, runs, call, record, exchange>> /\ verdict' = "failed"
  BY DEF Fail, agentVars
<1>3. TypeOK' /\ Agreed' /\ Filed' /\ Context'
  <2>1. at' \in 1..(Last + 1)
        /\ call' \in [op : Ops \cup {"idle"}, by : Agents \cup {None}, about : Exchanges \cup {None}]
    BY <1>1, <1>2 DEF TypeOK, Last
  <2> QED
    BY <1>1, <1>2, <2>1, StillKeeps
<1>4. Called' /\ Turn' /\ Joined' /\ Awaited' /\ FailureHasCause'
  BY <1>1, <1>2, FailKeeps
<1> QED
  BY <1>3, <1>4 DEF Settled

\* Only a webhook that came too late leaves a step without the ids it needs.
LEMMA MissingIdKeeps ==
  ASSUME IInv, MissingId
  PROVE  TypeOK' /\ Settled'
<1>1. /\ UNCHANGED <<kind, auto, agentVars, pending, store, contextVars, late, missed, begun>>
      /\ call = Idle /\ verdict = "running" /\ at <= Last /\ Lacking(Step) /\ Fail
  BY DEF MissingId, Running, Last
<1>2. TypeOK /\ Inv /\ Called /\ Context /\ Turn
  BY DEF IInv
<1>3. Underway
  BY <1>1 DEF Underway, Idle
<1>4. Step.do \in Later
  BY <1>1 DEF Lacking, Later
<1>5. Excused \/ late
  BY <1>1, <1>2, <1>3, <1>4, HeldIds
<1>6. (late' \/ missed') /\ late' \in BOOLEAN /\ missed' \in BOOLEAN /\ (missed => missed')
  BY <1>1, <1>2, <1>5 DEF Excused, TypeOK
<1> QED
  BY <1>1, <1>6, StillFails

LEMMA InviterIdMissingKeeps ==
  ASSUME IInv, InviterIdMissing
  PROVE  TypeOK' /\ Settled'
<1>1. /\ UNCHANGED <<kind, auto, agentVars, pending, store, contextVars, late, missed, begun>>
      /\ call.op = "inviter-id" /\ verdict = "running" /\ Fail
  BY DEF InviterIdMissing, Serving
<1>2. TypeOK /\ Inv /\ Called
  BY DEF IInv
<1>3. at \in 1..Last /\ Last \in Nat
  BY <1>1, <1>2, CallFacts, ScenarioFacts DEF TypeOK
<1>4. late' \in BOOLEAN /\ missed' \in BOOLEAN /\ at <= Last
  BY <1>1, <1>2, <1>3 DEF TypeOK
<1> QED
  BY <1>1, <1>4, StillFails DEF Intrusion


----------------------------------------------------------------------------
(* The calls.                                                              *)

\* A call belongs to the step it serves.
LEMMA ServedFacts ==
  ASSUME IInv, verdict = "running", call.op # "idle"
  PROVE  /\ TypeOK /\ Inv /\ Called /\ Agreed /\ Filed /\ Context /\ Turn /\ Joined /\ Awaited
         /\ at \in 1..Last /\ at <= Last /\ Last \in Nat \ {0}
         /\ Step.do \in Deeds /\ Step.by \in Agents /\ Step.to \in Agents /\ Step.by # Step.to
         /\ call.by \in Agents /\ first \in Agents /\ ~Lacking(Step)
         /\ call.about \in Exchanges \/ call.op \in Start
         /\ call.op # "inviter-id" => Underway
         /\ call.op \notin {"inviter-id", "look-to", "active-connection", "request-webhook",
                         "invitation-webhook", "connection-webhook"}
              => call.op = OperationOf[Step.do] /\ call.by = Step.by /\ call.about = IdFor(Step)
<1>1. TypeOK /\ Inv /\ Called /\ Agreed /\ Filed /\ Context /\ Turn /\ Joined /\ Awaited
  BY DEF IInv
<1>2. /\ at \in 1..Last /\ call.by \in Agents /\ first \in Agents
      /\ call.op = OperationOf[Step.do] \/ call.op \in Follow[Step.do]
      /\ call.op = OperationOf[Step.do] => call.by = Step.by /\ call.about = IdFor(Step)
      /\ call.about \in Exchanges \/ call.op \in Start
      /\ ~Lacking(Step)
  BY <1>1, CallFacts
<1>3. Last \in Nat
  BY <1>1, ScenarioFacts DEF TypeOK
<1>4. at <= Last
  BY <1>2, <1>3
<1>5. /\ Last \in Nat \ {0}
      /\ Step.do \in Deeds /\ Step.by \in Agents /\ Step.to \in Agents /\ Step.by # Step.to
  BY <1>1, <1>4, HereFacts
<1>6. call.op \notin {"inviter-id", "look-to", "active-connection", "request-webhook",
                         "invitation-webhook", "connection-webhook"}
        => call.op = OperationOf[Step.do]
  BY <1>2, <1>5, OpOfStep
<1> QED
  BY <1>1, <1>2, <1>4, <1>5, <1>6 DEF Underway

\* "have a connection" looks for the exchange of the scenario.
LEMMA LooksAt ==
  ASSUME IInv, verdict = "running", call.op \in {"look-by", "look-to"}, NEW e, NEW q,
         e = Reached.do, q = Partner
  PROVE  /\ Step.do \in {"connected", "answered"} /\ (call.op = "look-to" => Step.do = "connected")
         /\ e \in Agreeing /\ Stands(e, q) /\ q \in Agents /\ q # first /\ call.by \in {first, q}
         /\ {Step.by, Step.to} = {first, q} /\ ~Begins
         /\ invitation \in Exchanges /\ invitation \in begun
         /\ ~Excused =>
              /\ call.about = invitation
              /\ Step.do = "connected" => /\ connection_id_dict[Step.by][Step.to] = invitation
                                          /\ connection_id_dict[Step.to][Step.by] = invitation
<1>1. /\ TypeOK /\ Inv /\ Called /\ Context /\ Turn /\ Underway /\ Step.do \in Deeds
      /\ call.op = "look-by" => call.op = OperationOf[Step.do] /\ call.by = Step.by /\ call.about = IdFor(Step)
      /\ Step.by \in Agents /\ Step.to \in Agents
  BY ServedFacts
<1>2. Step.do \in {"connected", "answered"} /\ (call.op = "look-to" => Step.do = "connected")
  <2>1. call.op = OperationOf[Step.do] \/ call.op \in Follow[Step.do]
    BY <1>1, CallFacts
  <2> QED
    BY <1>1, <2>1, OpOfStep
<1>3. /\ e \in Precedes[Step.do] /\ Between(Step, first, q) /\ Named(e, q) /\ Stands(e, q)
      /\ invitation \in Exchanges /\ invitation \in begun /\ q \in Agents /\ q # first /\ ~Begins
  BY <1>1, <1>2, OldStage, NoIntruder DEF Firsts
<1>4. e \in Agreeing
  BY <1>2, <1>3, PrecedesFacts DEF Agreeing, Deeds
<1>5. {Step.by, Step.to} = {first, q}
  <2>1. PICK s : s = Step
    OBVIOUS
  <2> QED
    BY <1>1, <1>3, <2>1, ByBetween
<1>6. call.op = "look-to" => call.by = Step.to /\ call.about = connection_id_dict[Step.to][Step.by]
  BY <1>1 DEF Called
<1>a. late => ~Lacking(Step)
  BY ServedFacts
<1>7. ~Excused => /\ IdFor(Step) = invitation
                  /\ Step.do = "connected" => /\ connection_id_dict[Step.by][Step.to] = invitation
                                              /\ connection_id_dict[Step.to][Step.by] = invitation
  BY <1>1, <1>2, <1>a, HeldIds DEF Later
<1> QED
  BY <1>1, <1>2, <1>3, <1>4, <1>5, <1>6, <1>7

LEMMA LookKeeps ==
  ASSUME IInv, Look
  PROVE  TypeOK' /\ Settled'
<1>1. /\ UNCHANGED <<kind, auto, agentVars, pending, store, contextVars, late, missed, begun>>
      /\ UNCHANGED <<record, exchange, wire, connection_id_dict, invitation, first, second>>
      /\ call.op \in {"look-by", "look-to"} /\ verdict = "running"
      /\ Shows(call.by, call.about)
  BY DEF Look, Serving, contextVars, agentVars
<1>2. /\ TypeOK /\ Inv /\ Called /\ Agreed /\ Filed /\ Context /\ Turn /\ Joined /\ Awaited
      /\ at \in 1..Last /\ at <= Last /\ Last \in Nat /\ Underway
      /\ Step.by \in Agents /\ Step.to \in Agents /\ ~Lacking(Step) /\ first \in Agents
      /\ call.op = "look-by" => call.by = Step.by /\ call.about = IdFor(Step)
  BY <1>1, ServedFacts
<1>3. PICK e, q : e = Reached.do /\ q = Partner
  OBVIOUS
<1>4. /\ Step.do \in {"connected", "answered"} /\ (call.op = "look-to" => Step.do = "connected")
      /\ e \in Agreeing /\ Stands(e, q) /\ q \in Agents /\ q # first
      /\ {Step.by, Step.to} = {first, q} /\ ~Begins
      /\ invitation \in Exchanges /\ invitation \in begun
      /\ ~Excused =>
              /\ call.about = invitation
              /\ Step.do = "connected" => /\ connection_id_dict[Step.by][Step.to] = invitation
                                          /\ connection_id_dict[Step.to][Step.by] = invitation
  BY <1>1, <1>3, LooksAt
<1>5. CASE call.op = "look-by" /\ Step.do = "connected"
  <2>1. Then("look-to", Step.to, connection_id_dict[Step.to][Step.by])
    BY <1>5 DEF Look
  <2>2. /\ UNCHANGED runVars /\ UNCHANGED <<scenario, at, verdict, runs>>
        /\ call' = [op |-> "look-to", by |-> Step.to, about |-> connection_id_dict[Step.to][Step.by]]
    BY <2>1 DEF Then, runVars
  <2>3. connection_id_dict[Step.to][Step.by] \in Exchanges
    BY <1>2, <1>5 DEF TypeOK, Lacking
  <2>4. TypeOK' /\ Agreed' /\ Filed' /\ Context'
    <3>1. call' \in [op : Ops \cup {"idle"}, by : Agents \cup {None}, about : Exchanges \cup {None}]
      BY <1>2, <2>2, <2>3 DEF Ops
    <3>2. at' \in 1..(Last + 1) /\ verdict' \in {"running", "passed", "failed"} /\ late' \in BOOLEAN /\ missed' \in BOOLEAN
      BY <1>1, <1>2, <2>2 DEF TypeOK
    <3> QED
      BY <1>1, <1>2, <2>2, <3>1, <3>2, StillKeeps
  <2>5. Turn' /\ Joined' /\ Awaited'
    BY <1>1, <1>2, <1>4, <2>2, SameStage
  <2>6. Step' = Step
    BY <2>2 DEF Step
  <2>7. Called'
    <3>1. ~Lacking(Step)'
      BY <1>1, <1>2, <2>6 DEF Lacking, IdFor
    <3>2. Shows(Step.by, connection_id_dict[Step.by][Step.to])'
      <4>1. Shows(Step.by, connection_id_dict[Step.by][Step.to])
        BY <1>1, <1>2, <1>5 DEF IdFor
      <4> QED
        BY <1>1, <2>2, <2>6, <4>1 DEF Shows, Connected
    <3>3. "look-to" \in Follow[Step.do] /\ "look-to" \notin Start
      BY <1>5 DEF Follow, Start
    <3>4. connection_id_dict[Step.to][Step.by] # None
      BY <2>3, ConnectionsAssumption
    <3> QED
      BY <1>1, <2>2, <2>6, <3>1, <3>2, <3>3, <3>4 DEF Called
  <2>8. FailureHasCause'
    BY <1>1, <2>2 DEF FailureHasCause
  <2> QED
    BY <2>4, <2>5, <2>7, <2>8 DEF Settled
<1>6. CASE ~(call.op = "look-by" /\ Step.do = "connected")
  <2>1. Done
    BY <1>6 DEF Look
  <2>2. Called' /\ FailureHasCause' /\ UNCHANGED <<scenario, verdict, runs>>
        /\ call' \in [op : Ops \cup {"idle"}, by : Agents \cup {None}, about : Exchanges \cup {None}]
    BY <1>1, <1>2, <2>1, DoneCalled
  <2>3. at' = at + 1
    BY <2>1 DEF Done
  <2>4. TypeOK' /\ Agreed' /\ Filed' /\ Context'
    <3>1. at' \in 1..(Last + 1) /\ verdict' \in {"running", "passed", "failed"} /\ late' \in BOOLEAN /\ missed' \in BOOLEAN
      BY <1>1, <1>2, <2>2, <2>3 DEF TypeOK
    <3> QED
      BY <1>1, <1>2, <2>2, <3>1, StillKeeps
  <2>5. Turn' /\ Awaited'
    BY <1>1, <1>2, <1>4, <2>1, StillReaches
  <2>6. CASE at = Last
    <3>1. SUFFICES ASSUME ~Excused PROVE Joined'
      <4>1. Excused' <=> Excused
        BY <1>1, <2>2 DEF Excused
      <4> QED
        BY <2>2, <2>4, <2>5, <4>1 DEF Joined, Settled
    <3>2. Step.do = "connected"
      BY <1>2, <1>4, <2>6, OrderFacts DEF Intrudes, TypeOK
    <3>3. call.op = "look-to"
      BY <1>1, <1>6, <3>2
    <3>4. call.by = Step.to /\ Shows(Step.by, connection_id_dict[Step.by][Step.to])
      BY <1>2, <3>3 DEF Called
    <3>5. Shows(Step.to, invitation) /\ Shows(Step.by, invitation)
      BY <1>1, <1>4, <3>1, <3>2, <3>4
    <3>6. Shows(first, invitation) /\ Shows(q, invitation)
      BY <1>4, <3>5
    <3>7. /\ exchange[invitation].inviter = first /\ exchange[invitation].taker = q
          /\ Conn(first, invitation) /\ Conn(q, invitation)
      BY <1>2, <1>4, <3>6, ShownIsJoined
    <3>8. Pair' = <<Step.by, Step.to>>
      BY <2>2, <2>6 DEF Pair, Step, Last
    <3>9. invitation # None
      BY <1>4, ConnectionsAssumption
    <3>10. (Step.by = first /\ Step.to = q) \/ (Step.by = q /\ Step.to = first)
      BY <1>4
    <3> DEFINE y == connection_id_dict'[Pair'[1]][Pair'[2]]
    <3>11. y = invitation /\ connection_id_dict'[Pair'[2]][Pair'[1]] = invitation
      BY <1>1, <1>4, <3>1, <3>2, <3>8
    <3>12. Pair'[1] = Step.by /\ Pair'[2] = Step.to
      BY <3>8
    <3>13. Conn(Pair[1], connection_id_dict[Pair[1]][Pair[2]])' /\ Conn(Pair[2], connection_id_dict[Pair[1]][Pair[2]])'
      BY <1>1, <2>2, <3>7, <3>10, <3>11, <3>12 DEF Conn, Connected
    <3>14. {exchange'[y].inviter, exchange'[y].taker} = {Pair'[1], Pair'[2]} /\ y \in begun'
      BY <1>1, <1>4, <3>7, <3>11, <3>12
    <3> QED
      BY <3>9, <3>11, <3>13, <3>14 DEF Joined
  <2>7. CASE at # Last
    <3>1. at < Last
      BY <1>2, <2>7
    <3> QED
      BY <1>2, <2>1, <2>2, <2>4, <2>5, <3>1, DoneJoined DEF Settled
  <2> QED
    BY <2>2, <2>4, <2>5, <2>6, <2>7 DEF Settled
<1> QED
  BY <1>5, <1>6

LEMMA LookFailsKeeps ==
  ASSUME IInv, LookFails
  PROVE  TypeOK' /\ Settled'
<1>1. /\ UNCHANGED <<kind, auto, agentVars, pending, store, contextVars, begun>>
      /\ call.op \in {"look-by", "look-to"} /\ verdict = "running" /\ Fail
      /\ ~Shows(call.by, call.about)
      /\ late' = (late \/ UnderWay(call.about)) /\ missed' = missed
  BY DEF LookFails, Late, Serving
<1>2. /\ TypeOK /\ Inv /\ Called /\ Agreed /\ Context
      /\ at <= Last /\ first \in Agents
  BY <1>1, ServedFacts
<1>3. PICK e, q : e = Reached.do /\ q = Partner
  OBVIOUS
<1>4. /\ e \in Agreeing /\ Stands(e, q) /\ q \in Agents /\ q # first /\ call.by \in {first, q}
      /\ invitation \in Exchanges
      /\ ~Excused => call.about = invitation
  BY <1>1, <1>3, LooksAt
<1>5. late \/ missed \/ UnderWay(call.about)
  <2>1. SUFFICES ASSUME ~late, ~missed, ~UnderWay(call.about) PROVE FALSE
    OBVIOUS
  <2>2. call.about = invitation /\ ~Excused
    BY <1>4, <2>1 DEF Excused
  <2>3. Shows(first, invitation) /\ Shows(q, invitation)
    BY <1>2, <1>4, <2>1, <2>2, BothShow
  <2> QED
    BY <1>1, <1>4, <2>2, <2>3
<1>6. (late' \/ missed') /\ late' \in BOOLEAN /\ missed' \in BOOLEAN /\ (missed => missed')
  BY <1>1, <1>2, <1>5 DEF TypeOK
<1> QED
  BY <1>1, <1>2, <1>6, StillFails


\* The two of DID exchange.
LEMMA DidPartner ==
  ASSUME TypeOK, Context, at <= Last, scenario.protocol = "did-exchange", NEW q, Between(Step, first, q)
  PROVE  /\ q = second /\ first = scenario.first /\ second = scenario.second
         /\ q \notin Responders /\ first \in Responders
<1>1. Between(Step, scenario.first, scenario.second) /\ Step.do \in Deeds
  BY HereFacts
<1>2. /\ first = scenario.first /\ second = scenario.second
      /\ scenario.second \notin Responders /\ scenario.first \in Responders
  BY ScenarioFacts DEF TypeOK, Context
<1>3. PICK s, a, b : s = Step /\ a = first /\ b = second
  OBVIOUS
<1>4. {s.by, s.to} = {a, q} /\ {s.by, s.to} = {a, b} /\ a # q /\ a # b
  BY <1>1, <1>2, <1>3, ByBetween
<1>5. q = second
  BY <1>3, <1>4
<1> QED
  BY <1>2, <1>5

MovingDeeds == {"request", "respond", "ping", "ask", "answer", "repeat"}

\* The calls that move a record are about an exchange of the inviter's, and made in turn.
LEMMA MovesAt ==
  ASSUME IInv, verdict = "running", call.op \in Moving, NEW e, NEW q, NEW d,
         e = Reached.do, q = Partner, d = Step.do
  PROVE  /\ d \in MovingDeeds /\ e \in Precedes[d] /\ e \in Deeds
         /\ Between(Step, first, q) /\ Named(e, q) /\ Stands(e, q) /\ ~Begins /\ Started
         /\ q \in Agents /\ q # first /\ invitation \in Exchanges /\ invitation \in begun
         /\ call.op = OperationOf[d]
         /\ call.by = IF call.op \in {"accept-request", "send-response"} THEN first ELSE q
         /\ call.about \in Exchanges /\ exchange[call.about].inviter # None
         /\ ~Excused \/ exchange[call.about].form # "connection"
              => exchange[call.about].inviter = first
         /\ ~Excused => call.about = invitation
         /\ Excused => d \in {"answer", "repeat"}
         /\ exchange[call.about].form # "connection" => q \notin Responders
         /\ d \in {"ask", "answer", "repeat"} => scenario.protocol = "did-exchange"
<1>1. /\ TypeOK /\ Inv /\ Called /\ Context /\ Turn /\ Underway /\ Step.do \in Deeds /\ at <= Last
      /\ call.op = OperationOf[Step.do] /\ call.by = Step.by /\ call.about = IdFor(Step)
      /\ Step.by \in Agents /\ Step.to \in Agents /\ call.about \in Exchanges
  BY ServedFacts DEF Moving, Start
<1>2. d \in MovingDeeds /\ call.op = OperationOf[d]
  BY <1>1, OpOfStep DEF Moving, MovingDeeds
<1>3. /\ e \in Precedes[Step.do] /\ Between(Step, first, q) /\ Named(e, q) /\ Stands(e, q) /\ e \in Deeds
      /\ invitation \in Exchanges /\ invitation \in begun /\ q \in Agents /\ q # first /\ ~Begins
      /\ Started
  BY <1>1, <1>2, OldStage, NoIntruder DEF Firsts, MovingDeeds
<1>4. call.by = IF call.op \in {"accept-request", "send-response"} THEN first ELSE q
  <2>1. Step.by = IF d \in {"respond", "answer", "repeat"} THEN first ELSE q
    BY <1>2, <1>3 DEF Between, Inviting, MovingDeeds
  <2>2. d \in {"respond", "answer", "repeat"} <=> call.op \in {"accept-request", "send-response"}
    BY <1>2 DEF MovingDeeds, OperationOf
  <2> QED
    BY <1>1, <2>1, <2>2
<1>a. (late => ~Lacking(Step)) /\ first \in Agents
  BY ServedFacts DEF Moving
<1>5. ~Excused => call.about = invitation
  BY <1>1, <1>2, <1>a, HeldIds DEF Later, MovingDeeds
<1>6. scenario.protocol \in Protocols /\ scenario \in Scenarios
  BY <1>1, ScenarioFacts DEF TypeOK
<1>7. Excused => scenario.protocol = "did-exchange" /\ d \in {"answer", "repeat"}
  <2>1. SUFFICES ASSUME Excused PROVE scenario.protocol = "did-exchange" /\ d \in {"answer", "repeat"}
    OBVIOUS
  <2>2. scenario.form = "request"
    BY <2>1 DEF Excused
  <2>3. scenario.protocol = "did-exchange"
    BY <1>6, <2>2, ScenarioFacts DEF Protocols
  <2>4. Step.do \notin ConnectionDeeds \ {"connected"}
    BY <1>1, <2>3, HereFacts
  <2>5. d # "ask"
    <3>1. d = "ask" => e = "take"
      BY <1>2, <1>3 DEF Precedes
    <3> QED
      BY <1>3, <2>2, <3>1 DEF Named
  <2> QED
    BY <1>2, <2>3, <2>4, <2>5 DEF ConnectionDeeds, MovingDeeds
<1>8. /\ exchange[call.about].inviter # None
      /\ ~Excused \/ exchange[call.about].form # "connection" => exchange[call.about].inviter = first
  <2>1. CASE Excused
    <3>1. call.about = connection_id_dict[Step.by][Step.to]
      BY <1>1, <1>7, <2>1 DEF IdFor
    <3>2. call.about # None
      BY <1>1, ConnectionsAssumption
    <3>3. Knows(first, call.about)
      BY <1>1, <1>3, <1>7, <1>a, <2>1, <3>1, <3>2 DEF Context
    <3>4. first \in Responders
      BY <1>1, <1>3, <1>7, <2>1, DidPartner
    <3> QED
      BY <2>1, <3>3, <3>4 DEF Knows
  <2>2. CASE ~Excused
    BY <1>1, <1>3, <1>5, <1>a, <2>2, AgentTypes DEF Stands
  <2> QED
    BY <2>1, <2>2
<1>9. exchange[call.about].form # "connection" => q \notin Responders
  <2>1. SUFFICES ASSUME exchange[call.about].form # "connection" PROVE q \notin Responders
    OBVIOUS
  <2>2. ~Excused => scenario.form # "connection"
    BY <1>3, <1>5, <2>1 DEF Stands
  <2>3. scenario.protocol = "did-exchange"
    BY <1>6, <1>7, <2>2, ScenarioFacts DEF Protocols
  <2> QED
    BY <1>1, <1>3, <2>3, DidPartner
<1>10. d \in {"ask", "answer", "repeat"} => scenario.protocol = "did-exchange"
  <2>1. scenario.protocol = "connection" => Step.do \in ConnectionDeeds
    BY <1>1, HereFacts
  <2> QED
    BY <1>6, <2>1 DEF Protocols, ConnectionDeeds
<1> QED
  BY <1>1, <1>2, <1>3, <1>4, <1>5, <1>7, <1>8, <1>9, <1>10

\* What the agent refuses, or was waited for in vain, is under way.
LEMMA RefusedIsLate ==
  ASSUME IInv, verdict = "running", call.op \in Moving, Step.do # "repeat", ~late, ~missed, ~Skipped,
         ~UnderWay(call.about)
  PROVE  Ready /\ \E m \in Moves : Fits(m)
<1>1. PICK e, q, d : e = Reached.do /\ q = Partner /\ d = Step.do
  OBVIOUS
<1>2. /\ d \in MovingDeeds /\ e \in Precedes[d] /\ e \in Deeds
      /\ Stands(e, q) /\ q \in Agents /\ q # first /\ invitation \in Exchanges
      /\ call.op = OperationOf[d]
      /\ call.by = IF call.op \in {"accept-request", "send-response"} THEN first ELSE q
      /\ ~Excused => call.about = invitation
      /\ d \in {"ask", "answer", "repeat"} => scenario.protocol = "did-exchange"
  BY <1>1, MovesAt
<1>3. TypeOK /\ Agreed /\ first \in Agents /\ call.about = invitation /\ ~Excused
  BY <1>2, ServedFacts DEF Excused, Moving
<1>4. kind[call.by] = "acapy" /\ ~(auto /\ call.op \in {"accept-request", "send-response"})
  <2>1. call.by \in Agents
    BY <1>2, <1>3
  <2> QED
    BY <1>3, <2>1, AgentTypes DEF Skipped
<1>a. call.op \in {"send-request", "send-response"} => exchange[call.about].form # "connection"
  <2>1. call.op \in {"send-request", "send-response"} => d \in {"ask", "answer", "repeat"}
    BY <1>2 DEF OperationOf, MovingDeeds
  <2>2. exchange[call.about].form = scenario.form
    BY <1>2, <1>3 DEF Stands
  <2> QED
    BY <1>2, <1>3, <2>1, <2>2, ScenarioFacts DEF TypeOK
<1>5. CASE d \in {"request", "ask"}
  <2>1. call.op \in {"accept-invitation", "send-request"} /\ call.by = q /\ e \in {"receive", "take"}
    BY <1>2, <1>5 DEF OperationOf, Precedes
  <2>2. record[q][invitation] = "invitation"
    BY <1>2, <1>4, <2>1 DEF Stands
  <2>3. \E m \in Moves : m.op = call.op /\ m.from = "invitation"
    BY <2>1 DEF Moves
  <2> QED
    BY <1>3, <1>a, <2>1, <2>2, <2>3 DEF Fits, Ready
<1>6. CASE d \in {"respond", "answer"}
  <2>1. call.op \in {"accept-request", "send-response"} /\ call.by = first /\ e \in {"request", "hear", "hearPublic"}
    BY <1>2, <1>6 DEF OperationOf, Precedes
  <2>2. ~AcceptsAlone(first)
    BY <1>4, <2>1 DEF AcceptsAlone
  <2>3. record[first][invitation] \in {"none", "invitation", "request"} /\ record[q][invitation] \in Moved
    BY <1>2, <1>3, <2>1, <2>2 DEF Stands
  <2>4. record[first][invitation] = "request"
    BY <1>2, <1>3, <2>3, Settles
  <2>5. \E m \in Moves : m.op = call.op /\ m.from = "request"
    BY <2>1 DEF Moves
  <2> QED
    BY <1>3, <1>4, <1>a, <2>1, <2>4, <2>5 DEF Fits, Ready
<1>7. CASE d = "ping"
  <2>1. call.op = "send-ping" /\ call.by = q /\ e = "respond"
    BY <1>2, <1>7 DEF OperationOf, Precedes
  <2>2. record[q][invitation] \in Moved
    BY <1>2, <2>1 DEF Stands
  <2>3. AcceptsAlone(first) \/ record[first][invitation] \in {"response", "completed"}
    BY <1>2, <1>3, <2>1 DEF Stands
  <2>4. record[q][invitation] \in {"response", "completed"}
    BY <1>2, <1>3, <2>2, <2>3, Settles
  <2>5. \A v \in {"response", "completed"} : \E m \in Moves : m.op = "send-ping" /\ m.from = v
    BY DEF Moves
  <2> QED
    BY <1>3, <1>a, <2>1, <2>4, <2>5 DEF Fits, Ready
<1> QED
  BY <1>1, <1>2, <1>5, <1>6, <1>7 DEF MovingDeeds

LEMMA RefusedKeeps ==
  ASSUME IInv, Refused
  PROVE  TypeOK' /\ Settled'
<1>1. /\ UNCHANGED <<kind, auto, agentVars, pending, store, contextVars, begun>>
      /\ call.op \in Moving /\ verdict = "running" /\ ~Skipped /\ Answered(FALSE)
      /\ ~\E m \in Moves : Fits(m)
      /\ Step.do = "repeat" => late' = late
      /\ Step.do # "repeat" => late' = (late \/ UnderWay(call.about))
      /\ missed' = missed
  BY DEF Refused, Late, Serving
<1>2. /\ TypeOK /\ Inv /\ Called /\ Agreed /\ Filed /\ Context /\ Turn /\ at <= Last /\ Underway
      /\ at \in 1..Last
  BY <1>1, ServedFacts DEF Moving
<1>3. CASE Step.do # "repeat"
  <2>1. late' \/ missed'
    BY <1>1, <1>3, RefusedIsLate
  <2>2. Fail
    BY <1>1, <1>3 DEF Answered
  <2>3. late' \in BOOLEAN /\ missed' \in BOOLEAN /\ (missed => missed')
    BY <1>1, <1>2, <1>3 DEF TypeOK
  <2> QED
    BY <1>1, <1>2, <2>1, <2>2, <2>3, StillFails
<1>4. CASE Step.do = "repeat"
  <2>1. Done
    BY <1>1, <1>4 DEF Answered
  <2>2. Called' /\ FailureHasCause' /\ UNCHANGED <<scenario, verdict, runs>>
        /\ call' \in [op : Ops \cup {"idle"}, by : Agents \cup {None}, about : Exchanges \cup {None}]
    BY <1>1, <1>2, <2>1, DoneCalled
  <2>3. at < Last /\ at + 1 \in 1..(Last + 1) /\ at' = at + 1
    BY <1>2, <1>4, <2>1, NotLast DEF Done
  <2>4. Turn' /\ Awaited' /\ Joined'
    BY <1>1, <1>2, <1>4, <2>1, <2>3, StillReaches, DoneJoined, ServedFacts DEF Moving
  <2>5. TypeOK' /\ Agreed' /\ Filed' /\ Context'
    <3>1. at' \in 1..(Last + 1) /\ verdict' \in {"running", "passed", "failed"} /\ late' \in BOOLEAN /\ missed' \in BOOLEAN
      BY <1>1, <1>2, <1>4, <2>2, <2>3 DEF TypeOK
    <3> QED
      BY <1>1, <1>2, <2>2, <3>1, StillKeeps
  <2> QED
    BY <2>2, <2>4, <2>5 DEF Settled
<1> QED
  BY <1>3, <1>4

LEMMA GiveUpKeeps ==
  ASSUME IInv, GiveUp
  PROVE  TypeOK' /\ Settled'
<1>1. /\ UNCHANGED <<kind, auto, agentVars, pending, store, contextVars, begun>>
      /\ call.op \in Moving /\ verdict = "running" /\ ~Ready /\ Fail
      /\ late' = (late \/ UnderWay(call.about)) /\ missed' = missed
  BY DEF GiveUp, Late, Serving
<1>2. TypeOK /\ Agreed /\ at <= Last /\ first \in Agents
  BY <1>1, ServedFacts DEF Moving
<1>3. PICK e, q, d : e = Reached.do /\ q = Partner /\ d = Step.do
  OBVIOUS
<1>4. /\ d \in MovingDeeds /\ e \in Precedes[d]
      /\ Stands(e, q) /\ q \in Agents /\ q # first /\ invitation \in Exchanges
      /\ call.op = OperationOf[d]
      /\ call.by = IF call.op \in {"accept-request", "send-response"} THEN first ELSE q
      /\ ~Excused => call.about = invitation
      /\ Excused => d \in {"answer", "repeat"}
  BY <1>1, <1>3, MovesAt
<1>5. call.op = "accept-request" /\ d = "respond" /\ e = "request" /\ call.by = first
  BY <1>1, <1>4 DEF Ready, OperationOf, MovingDeeds, Precedes
<1>6. call.about = invitation /\ ~Excused
  BY <1>4, <1>5
<1>7. record[q][invitation] \in Moved
  BY <1>4, <1>5 DEF Stands
<1>8. UnderWay(invitation)
  <2>1. SUFFICES ASSUME ~UnderWay(invitation) PROVE FALSE
    OBVIOUS
  <2>2. record[first][invitation] \in {"request", "response", "completed"}
    BY <1>2, <1>4, <1>7, <2>1, Settles
  <2>3. kind[first] # "credo" /\ ~auto /\ record[first][invitation] # "request"
    BY <1>1, <1>5, <1>6, <2>2 DEF Ready
  <2> QED
    BY <1>4, <1>5, <1>6, <2>2, <2>3 DEF Stands, AcceptsAlone
<1>9. late' /\ late' \in BOOLEAN /\ missed' \in BOOLEAN /\ (missed => missed')
  BY <1>1, <1>2, <1>6, <1>8 DEF TypeOK
<1> QED
  BY <1>1, <1>2, <1>9, StillFails


\* What a call that moves a record does to it.
LEMMA PostFacts ==
  ASSUME IInv, Post, NEW q, q = Partner
  PROVE  /\ UNCHANGED <<kind, auto, exchange, store, contextVars, late, missed, begun>>
         /\ call.op \in Moving /\ verdict = "running" /\ Answered(TRUE)
         /\ \A a \in Agents : pending[a] \subseteq pending'[a]
         /\ record' \in [Agents -> [Exchanges -> States]] /\ wire' \subseteq Messages
         /\ pending' \in [Agents -> SUBSET Webhooks]
         /\ Agreed' /\ Filed'
         /\ \/ Skipped /\ record' = record
            \/ /\ ~Skipped
               /\ \E m \in Moves : Fits(m) /\ Sets(call.by, call.about, m.to)
<1>1. /\ UNCHANGED <<kind, auto, exchange, store, contextVars, late, missed, begun>>
      /\ call.op \in Moving /\ verdict = "running" /\ Answered(TRUE)
  BY DEF Post, Serving
<1>2. /\ TypeOK /\ Agreed /\ Filed /\ call.by \in Agents /\ first \in Agents
  BY <1>1, ServedFacts DEF Moving
<1>3. PICK e, d : e = Reached.do /\ d = Step.do
  OBVIOUS
<1>4. /\ q \in Agents /\ q # first
      /\ call.by = IF call.op \in {"accept-request", "send-response"} THEN first ELSE q
      /\ call.about \in Exchanges /\ exchange[call.about].inviter # None
      /\ ~Excused \/ exchange[call.about].form # "connection"
              => exchange[call.about].inviter = first
      /\ exchange[call.about].form # "connection" => q \notin Responders
      /\ Excused => d \in {"answer", "repeat"}
      /\ d \in MovingDeeds /\ call.op = OperationOf[d]
  BY <1>1, <1>3, MovesAt
<1>5. CASE Skipped /\ UNCHANGED <<record, wire, pending>>
  <2>1. UNCHANGED agentVars
    BY <1>1, <1>5 DEF agentVars
  <2>2. Agreed' /\ Filed'
    BY <1>1, <1>2, <1>5, <2>1, SameAgents, SameWebhooks
  <2> QED
    BY <1>1, <1>2, <1>5, <2>2 DEF TypeOK
<1>6. CASE /\ ~Skipped
           /\ \E m \in Moves :
                /\ Fits(m)
                /\ record' = [record EXCEPT ![call.by][call.about] = m.to]
                /\ wire' = wire \cup {Message(m.is, call.by, PeerOf(call.by, call.about), call.about)}
                /\ Tells(call.by, call.about, exchange[call.about].form, {m.to})
  <2>1. PICK m \in Moves :
                /\ Fits(m)
                /\ record' = [record EXCEPT ![call.by][call.about] = m.to]
                /\ wire' = wire \cup {Message(m.is, call.by, PeerOf(call.by, call.about), call.about)}
                /\ Tells(call.by, call.about, exchange[call.about].form, {m.to})
    BY <1>6
  <2>2. PICK b, x, f : b = call.by /\ x = call.about /\ f = exchange[call.about].form
    OBVIOUS
  <2>3. b \in Agents /\ x \in Exchanges /\ m.to \in States /\ m.is \in {"request", "response", "complete"}
    BY <1>2, <1>4, <2>2, MovesFacts DEF States, Moving
  <2>0. exchange[x].inviter = first
    <3>1. Excused => call.op = "send-response"
      BY <1>4 DEF OperationOf
    <3>2. Excused => exchange[call.about].form # "connection"
      BY <2>1, <3>1 DEF Fits
    <3> QED
      BY <1>4, <2>2, <3>2
  <2>4. Sets(b, x, m.to) /\ record' \in [Agents -> [Exchanges -> States]]
    BY <1>2, <2>1, <2>2, <2>3, SetsRecord
  <2>5. Agreed' /\ PeerOf(b, x) \in Agents
    <3>1. m.from = record[b][x] /\ m.op = call.op
      BY <2>1, <2>2 DEF Fits
    <3>2. exchange[x].inviter # None
      BY <1>4, <2>2
    <3>3. wire' = wire \cup {Message(m.is, b, PeerOf(b, x), x)}
      BY <2>1, <2>2
    <3>4. b = exchange[x].inviter <=> m.op \in {"accept-request", "send-response"}
      BY <1>4, <2>2, <2>0, <3>1
    <3> QED
      BY <1>1, <1>2, <2>3, <2>4, <3>1, <3>2, <3>3, <3>4, MoveAgreed
  <2>6. wire' \subseteq Messages
    <3>1. Message(m.is, b, PeerOf(b, x), x) \in Messages
      BY <2>3, <2>5 DEF Message, Messages
    <3> QED
      BY <1>2, <2>1, <2>2, <3>1 DEF TypeOK
  <2>7. PICK ss : ss = {m.to}
    OBVIOUS
  <2>8. /\ pending' \in [Agents -> SUBSET Webhooks]
        /\ \A a \in Agents : pending[a] \subseteq pending'[a]
        /\ \A a \in Agents \ {b} : pending'[a] = pending[a]
        /\ \A w \in pending'[b] : w \in pending[b] \/ w[1][1] = x
    BY <1>2, <2>1, <2>2, <2>3, <2>7, TellsFacts
  <2>9. Filed'
    <3>1. Knows(b, x)
      BY <1>4, <2>0, <2>2 DEF Knows
    <3>2. exchange' = exchange /\ store' = store
      BY <1>1
    <3>3. \A a \in Agents : \A w \in pending'[a] : w \in pending[a] \/ Knows(a, w[1][1])
      BY <2>8, <3>1
    <3>4. \A a \in Agents : \A w \in pending'[a] : Knows(a, w[1][1])
      BY <1>2, <3>3 DEF Filed
    <3> QED
      BY <1>2, <3>2, <3>4 DEF Filed, Knows
  <2> QED
    BY <1>1, <1>6, <2>1, <2>2, <2>4, <2>5, <2>6, <2>8, <2>9
<1> QED
  BY <1>5, <1>6 DEF Post

\* A response is repeated in vain unless the agent accepts by itself.
LEMMA RepeatedResponse ==
  ASSUME IInv, Post, Step.do = "repeat", ~late, ~missed
  PROVE  auto
<1>1. PICK e, q, d : e = Reached.do /\ q = Partner /\ d = Step.do
  OBVIOUS
<1>2. /\ call.op \in Moving /\ verdict = "running"
      /\ \/ Skipped
         \/ ~Skipped /\ \E m \in Moves : Fits(m)
  BY <1>1, PostFacts
<1>3. /\ e \in Precedes[d] /\ Stands(e, q)
      /\ call.op = OperationOf[d]
      /\ call.by = IF call.op \in {"accept-request", "send-response"} THEN first ELSE q
      /\ ~Excused => call.about = invitation
  BY <1>1, <1>2, MovesAt
<1>4. call.op = "send-response" /\ call.by = first /\ e = "answered" /\ call.about = invitation /\ ~Excused
  BY <1>1, <1>3 DEF OperationOf, Precedes, Excused
<1>5. kind[first] # "credo"
  <2>1. TypeOK /\ Context /\ first \in Agents /\ at <= Last
    BY <1>2, ServedFacts DEF Moving
  <2>2. scenario.protocol \in Protocols /\ (scenario.protocol = "connection" => Step.do \in ConnectionDeeds)
    BY <2>1, HereFacts, ScenarioFacts DEF TypeOK
  <2> QED
    BY <2>1, <2>2 DEF Context, Protocols, ConnectionDeeds
<1>6. CASE Skipped
  BY <1>4, <1>5, <1>6 DEF Skipped
<1>7. CASE \E m \in Moves : Fits(m)
  <2>1. record[first][invitation] = "request"
    BY <1>4, <1>7, MovesFacts DEF Fits
  <2> QED
    BY <1>3, <1>4, <1>5, <2>1 DEF Stands, AcceptsAlone
<1> QED
  BY <1>2, <1>6, <1>7

\* So stands the exchange after a call that moves a record.
LEMMA PostStands ==
  ASSUME IInv, Post, NEW e, NEW q, NEW d, e = Reached.do, q = Partner, d = Step.do, d # "repeat",
         UNCHANGED scenario
  PROVE  Stands(d, q)'
<1>1. /\ UNCHANGED <<kind, auto, exchange, contextVars, missed>>
      /\ call.op \in Moving /\ verdict = "running"
      /\ \/ Skipped /\ record' = record
         \/ /\ ~Skipped
            /\ \E m \in Moves : Fits(m) /\ Sets(call.by, call.about, m.to)
  BY PostFacts
<1>2. /\ d \in MovingDeeds /\ e \in Precedes[d] /\ e \in Deeds
      /\ Stands(e, q) /\ q \in Agents /\ q # first /\ invitation \in Exchanges
      /\ call.op = OperationOf[d]
      /\ call.by = IF call.op \in {"accept-request", "send-response"} THEN first ELSE q
      /\ ~Excused => call.about = invitation
      /\ Excused => d \in {"answer", "repeat"}
  BY <1>1, MovesAt
<1>3. TypeOK /\ first \in Agents
  BY <1>1, ServedFacts DEF Moving
<1>4. UNCHANGED <<invitation, first>> /\ (Excused' <=> Excused)
  BY <1>1 DEF contextVars, Excused
<1>5. \A c \in Agents \ {first, q} : record'[c][invitation] = "none"
  <2>1. \A c \in Agents \ {first, q} : record'[c][invitation] = record[c][invitation]
    BY <1>1, <1>2 DEF Sets
  <2> QED
    BY <1>2, <2>1 DEF Stands
<1>6. kind[q] \in {"acapy", "credo"} /\ record[q][invitation] \in States
      /\ kind[first] \in {"acapy", "credo"}
  BY <1>2, <1>3, AgentTypes
<1>7. CASE d \in {"request", "ask"}
  <2>1. /\ call.op \in {"accept-invitation", "send-request"} /\ call.by = q /\ e \in {"receive", "take"}
        /\ call.about = invitation /\ ~Excused
    BY <1>2, <1>7 DEF OperationOf, Precedes
  <2>2. record'[first][invitation] = record[first][invitation]
    BY <1>1, <1>2, <1>3, <2>1 DEF Sets
  <2>3. record'[q][invitation] \in Moved
    <3>1. CASE Skipped /\ record' = record
      BY <1>2, <2>1, <3>1 DEF Skipped, Stands
    <3>2. CASE \E m \in Moves : Fits(m) /\ Sets(call.by, call.about, m.to)
      BY <1>2, <2>1, <3>2, MovesFacts DEF Sets, Moved
    <3> QED
      BY <1>1, <3>1, <3>2
  <2> QED
    BY <1>1, <1>2, <1>4, <1>5, <1>7, <2>1, <2>2, <2>3 DEF Stands, AcceptsAlone
<1>8. CASE d \in {"respond", "answer"}
  <2>1. call.op \in {"accept-request", "send-response"} /\ call.by = first /\ e \in {"request", "hear", "hearPublic"}
    BY <1>2, <1>8 DEF OperationOf, Precedes
  <2>2. record'[q][invitation] = record[q][invitation] /\ record[q][invitation] \in Moved
    BY <1>1, <1>2, <1>3, <2>1 DEF Sets, Stands
  <2>3. AcceptsAlone(first) \/ Excused \/ record'[first][invitation] \in {"response", "completed"}
    <3>1. CASE Skipped
      BY <2>1, <3>1 DEF Skipped, AcceptsAlone
    <3>2. CASE \E m \in Moves : Fits(m) /\ Sets(call.by, call.about, m.to)
      BY <1>2, <1>3, <2>1, <3>2, MovesFacts DEF Sets, Fits
    <3> QED
      BY <1>1, <3>1, <3>2
  <2> QED
    BY <1>1, <1>2, <1>4, <1>5, <1>8, <2>2, <2>3 DEF Stands, AcceptsAlone
<1>9. CASE d = "ping"
  <2>1. /\ call.op = "send-ping" /\ call.by = q /\ e = "respond" /\ call.about = invitation /\ ~Excused
    BY <1>2, <1>9 DEF OperationOf, Precedes
  <2>2. record'[first][invitation] = record[first][invitation]
    BY <1>1, <1>2, <1>3, <2>1 DEF Sets
  <2>3. record[q][invitation] \in Moved
    BY <1>2, <2>1 DEF Stands
  <2>4. record'[q][invitation] \in Moved /\ (kind[q] = "acapy" => record'[q][invitation] = "completed")
    <3>1. CASE Skipped /\ record' = record
      BY <2>1, <2>3, <3>1 DEF Skipped
    <3>2. CASE \E m \in Moves : Fits(m) /\ Sets(call.by, call.about, m.to)
      BY <1>2, <2>1, <3>2, MovesFacts DEF Sets, Moved, Fits
    <3> QED
      BY <1>1, <3>1, <3>2
  <2> QED
    BY <1>1, <1>2, <1>4, <1>5, <1>9, <2>1, <2>2, <2>4 DEF Stands, AcceptsAlone
<1> QED
  BY <1>2, <1>7, <1>8, <1>9 DEF MovingDeeds

LEMMA PostKeeps ==
  ASSUME IInv, Post
  PROVE  TypeOK' /\ Settled'
<1>1. PICK e, q, d : e = Reached.do /\ q = Partner /\ d = Step.do
  OBVIOUS
<1>2. /\ UNCHANGED <<kind, auto, exchange, store, contextVars, late, missed, begun>>
      /\ UNCHANGED <<connection_id_dict, temp_connection_id_dict, invitation, first, second>>
      /\ call.op \in Moving /\ verdict = "running" /\ Answered(TRUE)
      /\ \A a \in Agents : pending[a] \subseteq pending'[a]
      /\ record' \in [Agents -> [Exchanges -> States]] /\ wire' \subseteq Messages
      /\ pending' \in [Agents -> SUBSET Webhooks]
      /\ Agreed' /\ Filed'
      /\ \/ Skipped /\ record' = record
         \/ /\ ~Skipped
            /\ \E m \in Moves : Fits(m) /\ Sets(call.by, call.about, m.to)
  BY <1>1, PostFacts DEF contextVars
<1>3. /\ TypeOK /\ Inv /\ Called /\ Context /\ Turn /\ Awaited /\ Underway
      /\ at \in 1..Last /\ at <= Last /\ Last \in Nat /\ first \in Agents
  BY <1>2, ServedFacts DEF Moving
<1>4. /\ d \in MovingDeeds /\ e \in Precedes[d] /\ e \in Deeds
      /\ Between(Step, first, q) /\ Named(e, q) /\ Stands(e, q) /\ ~Begins /\ Started
      /\ q \in Agents /\ q # first /\ invitation \in Exchanges
      /\ call.op = OperationOf[d]
      /\ call.by = IF call.op \in {"accept-request", "send-response"} THEN first ELSE q
      /\ ~Excused => call.about = invitation
  BY <1>1, <1>2, MovesAt
<1>5. UNCHANGED <<scenario, runs>>
  BY <1>2 DEF Answered, Done, Fail
<1>6. Context'
  BY <1>2, <1>3, <1>5 DEF Context, Knows
<1>7. ASSUME at' \in 1..(Last + 1), verdict' \in {"running", "passed", "failed"},
             call' \in [op : Ops \cup {"idle"}, by : Agents \cup {None}, about : Exchanges \cup {None}]
      PROVE  TypeOK'
  BY <1>2, <1>3, <1>5, <1>7 DEF TypeOK, Last
<1>8. CASE d = "repeat"
  <2>1. Fail /\ (late \/ missed \/ auto)
    BY <1>1, <1>2, <1>8, RepeatedResponse DEF Answered
  <2>2. Called' /\ Turn' /\ Joined' /\ Awaited' /\ FailureHasCause'
    BY <1>1, <1>2, <1>3, <1>8, <2>1, FailKeeps DEF Moving
  <2>3. TypeOK'
    BY <1>3, <1>7, <2>1 DEF Fail, TypeOK
  <2> QED
    BY <1>2, <1>6, <2>2, <2>3 DEF Settled
<1>9. CASE d # "repeat"
  <2>1. Done
    BY <1>1, <1>2, <1>9 DEF Answered
  <2>2. Called' /\ FailureHasCause' /\ UNCHANGED <<scenario, verdict, runs>>
        /\ call' \in [op : Ops \cup {"idle"}, by : Agents \cup {None}, about : Exchanges \cup {None}]
    BY <1>2, <1>3, <2>1, DoneCalled
  <2>3. at < Last /\ at + 1 \in 1..(Last + 1) /\ at' = at + 1
    BY <1>1, <1>3, <1>4, <2>1, NotLast DEF Done, MovingDeeds
  <2>4. Joined'
    BY <1>3, <2>1, <2>3, DoneJoined
  <2>5. Named(d, q)'
    <3>1. e # "answer"
      <4>1. d \in Deeds /\ d # "answered"
        BY <1>4 DEF MovingDeeds, Deeds
      <4> QED
        BY <1>4, <4>1, PrecedesFacts
    <3>2. call.op # "request-webhook" /\ d \in Later
      BY <1>2, <1>4 DEF Moving, MovingDeeds, Later
    <3> QED
      BY <1>2, <1>4, <1>5, <3>1, <3>2, NamedOn DEF Later
  <2>6. Stands(d, q)'
    BY <1>1, <1>5, <1>9, PostStands
  <2>7. Told(d, q)'
    <3>1. call'.op = "idle"
      BY <2>1 DEF Done, Idle
    <3>2. CASE d = "ask"
      <4>1. e = "take" /\ call.op = "send-request" /\ call.by = q
        BY <1>4, <3>2 DEF Precedes, OperationOf
      <4>2. Told(e, q)
        BY <1>1, <1>3, <1>4 DEF Awaited
      <4>3. record'[first][invitation] = record[first][invitation]
        BY <1>2, <1>3, <1>4, <4>1 DEF Sets
      <4> QED
        BY <1>2, <1>3, <3>1, <3>2, <4>1, <4>2, <4>3 DEF Told, Coming, InStore
    <3>3. CASE d # "ask"
      BY <1>4, <3>1, <3>3 DEF Told, MovingDeeds
    <3> QED
      BY <3>2, <3>3
  <2>8. Turn' /\ Awaited'
    BY <1>1, <1>2, <1>3, <1>4, <2>1, <2>5, <2>6, <2>7, DoneReaches
  <2>9. TypeOK'
    BY <1>3, <1>7, <2>2, <2>3 DEF TypeOK
  <2> QED
    BY <1>2, <1>6, <2>2, <2>4, <2>8, <2>9 DEF Settled
<1> QED
  BY <1>8, <1>9


\* An exchange that has not begun is nobody's.
LEMMA FreshFacts ==
  ASSUME TypeOK, Agreed, Fresh # {}, NEW x, x = NewExchange
  PROVE  /\ x \in Fresh /\ x \in Exchanges /\ exchange[x].inviter = None
         /\ \A a \in Agents : record[a][x] = "none"
<1>1. NewExchange \in Fresh
  BY DEF NewExchange
<1>2. x \in Exchanges /\ exchange[x].inviter = None
  BY <1>1 DEF Fresh
<1> QED
  BY <1>1, <1>2 DEF Agreed, AgreedOn, Untouched

\* The webhooks stay those of their exchanges when another begins.
LEMMA FiledBegins ==
  ASSUME Filed, TypeOK, NEW x \in Exchanges, exchange[x].inviter = None, NEW i \in Agents,
         exchange'[x].inviter = i, \A y \in Exchanges \ {x} : exchange'[y] = exchange[y],
         store' = store, pending' \in [Agents -> SUBSET Webhooks],
         \A a \in Agents : \A w \in pending'[a] :
           \/ w \in pending[a]
           \/ w[1][1] = x /\ (a = i \/ a \notin Responders)
  PROVE  Filed'
<1>2. exchange'[x].inviter = i /\ i # None
  BY AgentTypes
<1>3. \A a \in Agents, y \in Exchanges : Knows(a, y) => Knows(a, y)'
  BY DEF Knows
<1>4. ASSUME NEW a \in Agents, NEW w \in pending'[a]
      PROVE  Knows(a, w[1][1])'
  <2>1. w \in Webhooks /\ w[1][1] \in Exchanges
    BY WebhookParts
  <2>2. CASE w \in pending[a]
    BY <1>3, <2>1, <2>2 DEF Filed
  <2>3. CASE w[1][1] = x /\ (a = i \/ a \notin Responders)
    BY <1>2, <2>3 DEF Knows
  <2> QED
    BY <2>2, <2>3
<1>5. ASSUME NEW a \in Agents, NEW j \in Ids, Store!Inserted(store'[a], j)
      PROVE  Knows(a, j[1])'
  <2>1. j[1] \in Exchanges
    BY DEF Ids
  <2> QED
    BY <1>3, <1>5, <2>1 DEF Filed
<1> QED
  BY <1>4, <1>5 DEF Filed

LEMMA CreateInvitationKeeps ==
  ASSUME IInv, CreateInvitation
  PROVE  TypeOK' /\ Settled'
<1>1. PICK x : x = NewExchange
  OBVIOUS
<1>2. /\ call.op = "create-invitation" /\ verdict = "running" /\ Fresh # {}
      /\ record' = [record EXCEPT ![call.by][x] = "invitation"]
      /\ exchange' = [exchange EXCEPT ![x] = [form |-> "connection", inviter |-> call.by, taker |-> None, keyed |-> FALSE]]
      /\ temp_connection_id_dict' = [temp_connection_id_dict EXCEPT ![call.by] = x]
      /\ invitation' = x /\ begun' = begun \cup {x} /\ first' = call.by /\ Done
      /\ Tells(call.by, x, "connection", {"invitation"})
      /\ UNCHANGED <<kind, auto, wire, store, connection_id_dict, second, late, missed>>
  BY <1>1 DEF CreateInvitation, Serving
<1>3. /\ TypeOK /\ Inv /\ Called /\ Agreed /\ Filed /\ Context /\ Turn /\ Underway
      /\ at \in 1..Last /\ at <= Last /\ Last \in Nat /\ call.by \in Agents
      /\ call.op = OperationOf[Step.do] /\ call.by = Step.by /\ Step.do \in Deeds
      /\ Step.by \in Agents /\ Step.to \in Agents /\ Step.by # Step.to
  BY <1>2, ServedFacts
<1>4. Step.do = "generate"
  BY <1>2, <1>3, OpOfStep
<1>5. scenario.protocol = "connection" /\ scenario.form = "connection" /\ scenario \in Scenarios
  <2>1. scenario.protocol \in Protocols
    BY <1>3, ScenarioFacts DEF TypeOK
  <2>2. scenario.protocol = "did-exchange" => Step.do \notin ConnectionDeeds \ {"connected"}
    BY <1>3, HereFacts
  <2> QED
    BY <1>3, <1>4, <2>1, <2>2, ScenarioFacts DEF Protocols, ConnectionDeeds, TypeOK
<1>6. x \in Fresh /\ x \in Exchanges /\ exchange[x].inviter = None
      /\ \A a \in Agents : record[a][x] = "none"
  BY <1>1, <1>2, <1>3, FreshFacts
<1>7. PICK b, q : b = call.by /\ q = Step.to
  OBVIOUS
<1>8. b \in Agents /\ q \in Agents /\ b # q
  BY <1>3, <1>7
<1>9. Sets(b, x, "invitation") /\ record' \in [Agents -> [Exchanges -> States]]
  BY <1>2, <1>3, <1>6, <1>7, <1>8, SetsRecord DEF States
<1>10. Agreed' /\ exchange' \in [Exchanges -> [form : Forms, inviter : Agents \cup {None}, taker : Agents \cup {None}, keyed : BOOLEAN]]
  <2>1. PICK f, v : f = "connection" /\ v = "invitation"
    OBVIOUS
  <2>2. f \in Forms /\ v \in States
    BY <2>1 DEF Forms, States
  <2>3. exchange' = [exchange EXCEPT ![x] = [form |-> f, inviter |-> b, taker |-> None, keyed |-> FALSE]] /\ Sets(b, x, v)
    BY <1>2, <1>7, <1>9, <2>1
  <2> QED
    BY <1>2, <1>3, <1>6, <1>8, <2>1, <2>2, <2>3, BeginsAgreed
<1>11. exchange'[x].inviter = b /\ exchange'[x].form = "connection" /\ exchange'[x].taker = None
       /\ \A y \in Exchanges \ {x} : exchange'[y] = exchange[y]
  BY <1>2, <1>3, <1>6, <1>7 DEF TypeOK
<1>a. /\ pending' \in [Agents -> SUBSET Webhooks]
      /\ \A a \in Agents \ {b} : pending'[a] = pending[a]
      /\ \A w \in pending'[b] : w \in pending[b] \/ w[1][1] = x
  <2>1. PICK f, ss : f = "connection" /\ ss = {"invitation"}
    OBVIOUS
  <2>2. Tells(b, x, f, ss)
    BY <1>2, <1>7, <2>1
  <2> QED
    BY <1>3, <1>6, <1>8, <2>2, TellsFacts
<1>12. Filed'
  <2>1. \A a \in Agents : \A w \in pending'[a] : w \in pending[a] \/ (w[1][1] = x /\ a = b)
    BY <1>a
  <2> QED
    BY <1>2, <1>3, <1>6, <1>8, <1>11, <1>a, <2>1, FiledBegins
<1>13. \A a \in Agents : temp_connection_id_dict[a] = None
  <2>1. CASE Started
    <3>1. at # 1 /\ ~Begins
      BY <1>2, <1>4, <2>1 DEF Started, Begins
    <3>2. Reached.do \in Precedes["generate"]
      BY <1>3, <1>4, <1>5, <3>1, OrderFacts DEF Intrudes, Reached
    <3>3. Named(Reached.do, Partner)
      BY <1>3, <2>1, TurnFacts
    <3> QED
      BY <3>2, <3>3 DEF Precedes, Named
  <2>2. CASE ~Started
    BY <1>3, <2>2 DEF Turn
  <2> QED
    BY <2>1, <2>2
<1>14. \A a \in Agents : temp_connection_id_dict'[a] = IF a = b THEN x ELSE None
  BY <1>2, <1>3, <1>7, <1>13 DEF TypeOK
<1>15. Called' /\ FailureHasCause' /\ UNCHANGED <<scenario, verdict, runs>>
        /\ call' \in [op : Ops \cup {"idle"}, by : Agents \cup {None}, about : Exchanges \cup {None}]
  BY <1>2, <1>3, DoneCalled
<1>16. at < Last /\ at + 1 \in 1..(Last + 1) /\ at' = at + 1
  BY <1>2, <1>3, <1>4, NotLast DEF Done
<1>17. Joined'
  BY <1>2, <1>3, <1>16, DoneJoined
<1>18. Context'
  <2>1. scenario'.protocol # "did-exchange"
    BY <1>5, <1>15
  <2>2. \A y \in begun' : exchange'[y].inviter # None
    <3>1. begun \subseteq Exchanges /\ b # None
      BY <1>3, <1>8, AgentTypes DEF TypeOK
    <3> QED
      BY <1>2, <1>3, <1>11, <3>1 DEF Context
  <2> QED
    BY <1>2, <2>1, <2>2 DEF Context
<1>19. Turn' /\ Awaited'
  <2>1. Between(Step, first', q)
    BY <1>2, <1>4, <1>7, <1>8, <1>3 DEF Between, Inviting
  <2>2. PICK d : d = "generate"
    OBVIOUS
  <2>3. Named(d, q)'
    BY <1>2, <1>7, <1>14, <2>2 DEF Named
  <2>4. Stands(d, q)'
    <3>1. \A c \in Agents \ {b} : record'[c][x] = "none"
      BY <1>6, <1>9 DEF Sets
    <3>2. record'[b][x] = "invitation"
      BY <1>6, <1>8, <1>9 DEF Sets
    <3> QED
      BY <1>2, <1>5, <1>7, <1>8, <1>11, <1>15, <2>2, <3>1, <3>2 DEF Stands
  <2>5. Told(d, q)'
    <3>1. call'.op = "idle"
      BY <1>2 DEF Done, Idle
    <3> QED
      BY <2>2, <3>1 DEF Told
  <2> QED
    BY <1>2, <1>3, <1>4, <2>1, <2>2, <2>3, <2>4, <2>5, DoneReaches
<1>20. TypeOK'
  <2>1. temp_connection_id_dict' \in [Agents -> Exchanges \cup {None}]
    BY <1>2, <1>3, <1>6 DEF TypeOK
  <2>2. begun' \subseteq Exchanges /\ at' \in 1..(Len(scenario'.steps) + 1)
    BY <1>2, <1>3, <1>6, <1>15, <1>16 DEF TypeOK, Last
  <2> QED
    BY <1>2, <1>3, <1>6, <1>9, <1>10, <1>15, <1>a, <2>1, <2>2 DEF TypeOK
<1> QED
  BY <1>10, <1>12, <1>15, <1>17, <1>18, <1>19, <1>20 DEF Settled


\* A scenario of DID exchange begins with its first step.
LEMMA FirstStep ==
  ASSUME TypeOK, Context, at <= Last, Step.do \in {"invite", "askPublic"}
  PROVE  /\ at = 1 /\ scenario.protocol = "did-exchange" /\ at < Last
         /\ Between(Step, first, second) /\ second \in Agents /\ first \in Agents /\ first # second
         /\ first \in Responders /\ second \notin Responders
         /\ scenario.form \in Forms \ {"connection"}
         /\ Step.do = "askPublic" <=> scenario.form = "request"
<1>1. /\ at \in 1..Last /\ Step.do \in Deeds /\ scenario \in Scenarios
      /\ scenario.protocol = "connection" => Step.do \in ConnectionDeeds
  BY HereFacts DEF TypeOK
<1>2. scenario.protocol = "did-exchange"
  <2>1. scenario.protocol \in Protocols
    BY <1>1, ScenarioFacts
  <2>2. scenario.protocol = "connection" => Step.do \in ConnectionDeeds
    BY HereFacts
  <2> QED
    BY <2>1, <2>2 DEF Protocols, ConnectionDeeds
<1>3. at = 1
  BY <1>1, OrderFacts DEF Intrudes, Precedes
<1>4. first = scenario.first /\ second = scenario.second /\ first \in Agents /\ second \in Agents
      /\ first \in Responders /\ second \notin Responders
      /\ scenario.form \in Forms /\ scenario.form # "connection"
  BY <1>1, <1>2, ScenarioFacts DEF Context
<1>5. Between(Step, first, second)
  BY <1>2, <1>4, HereFacts
<1>6. Step.do = "askPublic" <=> scenario.form = "request"
  BY <1>1, <1>2, <1>3, ScenarioFacts DEF Step
<1>7. at < Last
  BY NotLast
<1> QED
  BY <1>2, <1>3, <1>4, <1>5, <1>6, <1>7

\* The invitation has begun an exchange, whose webhook the step waits for.
LEMMA BegunOne ==
  ASSUME TypeOK, Context, NEW x \in Exchanges, first \in Agents,
         scenario.protocol = "did-exchange",
         \A y \in Exchanges \ {x} : exchange'[y] = exchange[y], exchange'[x].inviter = first,
         exchange[x].inviter = None, invitation' = x, begun' = begun \cup {x},
         UNCHANGED <<kind, scenario, connection_id_dict>>, first' = first, second' = second
  PROVE  Context'
<1>2. first # None /\ begun \subseteq Exchanges
  BY AgentTypes DEF TypeOK
<1>3. \A y \in begun' : exchange'[y].inviter # None
  BY <1>2 DEF Context
<1>4. ASSUME NEW a \in Agents, NEW b \in Agents, connection_id_dict[a][b] # None
      PROVE  Knows(first, connection_id_dict[a][b])'
  <2>1. PICK y : y = connection_id_dict[a][b]
    OBVIOUS
  <2>2. y \in Exchanges /\ Knows(first, y)
    BY <1>4, <2>1 DEF TypeOK, Context
  <2>3. y # x
    BY <2>2 DEF Knows
  <2>4. exchange'[y] = exchange[y]
    BY <2>2, <2>3
  <2> QED
    BY <2>1, <2>2, <2>4 DEF Knows
<1>5. \A a, b \in Agents : connection_id_dict'[a][b] # None => Knows(first, connection_id_dict[a][b])'
  BY <1>4
<1>6. /\ scenario'.protocol = "did-exchange" => first' = scenario'.first /\ second' = scenario'.second
      /\ \A a \in Agents : kind'[a] = "acapy"
  BY DEF Context
<1>7. \A a, b \in Agents : connection_id_dict'[a][b] # None => Knows(first, connection_id_dict[a][b])'
  BY <1>4
<1> QED
  BY <1>3, <1>6, <1>7 DEF Context, Knows

LEMMA SendInvitationKeeps ==
  ASSUME IInv, SendInvitation
  PROVE  TypeOK' /\ Settled'
<1>1. PICK x, b, f : x = NewExchange /\ b = call.by /\ f = scenario.form
  OBVIOUS
<1>2. /\ call.op = "send-invitation" /\ verdict = "running" /\ Fresh # {}
      /\ invitation' = x /\ begun' = begun \cup {x} /\ first' = b /\ second' = Step.to
      /\ Then("invitation-webhook", b, x)
      /\ UNCHANGED <<kind, auto, wire, store, connection_id_dict, temp_connection_id_dict, late, missed>>
  BY <1>1 DEF SendInvitation, Serving, Invite
<1>a. PICK k \in BOOLEAN : Invite(x, b, f, k) /\ (f = "invitation" => k)
  BY <1>1 DEF SendInvitation
<1>b. exchange' = [exchange EXCEPT ![x] = [form |-> f, inviter |-> b, taker |-> None, keyed |-> k]]
  BY <1>a DEF Invite
<1> DEFINE told == {<<<<x, "invitation">>, "out-of-band-msg">>}
                     \cup {WebhookOf(x, f, s) : s \in IF k THEN {"invitation"} ELSE {}}
<1>c. Sends(b, f, told)
  BY <1>a DEF Invite
<1>3. PICK v :
        \/ v = "none" /\ ~k /\ record' = record
        \/ v = "invitation" /\ k /\ record' = [record EXCEPT ![b][x] = "invitation"]
  <2>1. CASE k
    BY <1>a, <2>1 DEF Invite
  <2>2. CASE ~k
    BY <1>a, <2>2 DEF Invite
  <2> QED
    BY <2>1, <2>2
<1>d. PICK ws : ws = told
  OBVIOUS
<1> HIDE DEF told
<1>4. /\ TypeOK /\ Inv /\ Called /\ Agreed /\ Filed /\ Context /\ Turn /\ Underway
      /\ at \in 1..Last /\ at <= Last /\ Last \in Nat /\ b \in Agents
      /\ call.op = OperationOf[Step.do] /\ b = Step.by /\ Step.do \in Deeds
      /\ Step.by \in Agents /\ Step.to \in Agents
  BY <1>1, <1>2, ServedFacts
<1>5. Step.do = "invite"
  BY <1>2, <1>4, OpOfStep
<1>6. /\ at = 1 /\ scenario.protocol = "did-exchange" /\ at < Last
      /\ Between(Step, first, second) /\ second \in Agents /\ first # second
      /\ first \in Responders /\ f \in Forms \ {"connection"} /\ f # "request"
  BY <1>1, <1>4, <1>5, FirstStep
<1>7. b = first /\ Step.to = second /\ first' = first /\ second' = second
  BY <1>2, <1>4, <1>5, <1>6 DEF Between, Inviting
<1>8. /\ UNCHANGED <<scenario, at, verdict, runs>>
      /\ call' = [op |-> "invitation-webhook", by |-> b, about |-> x]
  BY <1>2 DEF Then, runVars
<1>9. x \in Fresh /\ x \in Exchanges /\ exchange[x].inviter = None
      /\ \A a \in Agents : record[a][x] = "none"
  BY <1>1, <1>2, <1>4, FreshFacts
<1>10. v \in States /\ Sets(b, x, v) /\ record' \in [Agents -> [Exchanges -> States]]
  <2>1. CASE v = "none" /\ record' = record
    BY <1>4, <1>9, <2>1 DEF Sets, States, TypeOK
  <2>2. CASE v = "invitation" /\ record' = [record EXCEPT ![b][x] = "invitation"]
    <3>1. v \in States /\ record' = [record EXCEPT ![b][x] = v]
      BY <2>2 DEF States
    <3> QED
      BY <1>4, <1>9, <3>1, SetsRecord
  <2> QED
    BY <1>3, <2>1, <2>2
<1>11. Agreed' /\ exchange' \in [Exchanges -> [form : Forms, inviter : Agents \cup {None}, taker : Agents \cup {None}, keyed : BOOLEAN]]
  <2>1. \A a \in Agents : kind[a] = "acapy"
    BY <1>4, <1>6 DEF Context
  <2> QED
    BY <1>2, <1>3, <1>b, <1>4, <1>6, <1>7, <1>9, <1>10, <2>1, BeginsAgreed
<1>12. /\ Context'
       /\ exchange'[x].inviter = b /\ exchange'[x].form = f /\ exchange'[x].taker = None
       /\ (exchange'[x].keyed <=> k)
       /\ \A y \in Exchanges \ {x} : exchange'[y] = exchange[y]
  <2>1. /\ exchange'[x].inviter = b /\ exchange'[x].form = f /\ exchange'[x].taker = None
        /\ (exchange'[x].keyed <=> k)
        /\ \A y \in Exchanges \ {x} : exchange'[y] = exchange[y]
    BY <1>b, <1>4, <1>9 DEF TypeOK
  <2> QED
    BY <1>2, <1>4, <1>6, <1>7, <1>8, <1>9, <2>1, BegunOne
<1>13. /\ pending' \in [Agents -> SUBSET Webhooks]
       /\ \A a \in Agents \ {b} : pending'[a] = pending[a]
       /\ b \in Hearers /\ k => BoxOf(<<x, "invitation">>) \in pending'[b]
       /\ \A w \in pending'[b] : w \in pending[b] \/ w[1][1] = x
  <2>1. PICK m : m = "invitation"
    OBVIOUS
  <2>2. WebhookOf(x, f, m) \in Webhooks /\ WebhookOf(x, f, m)[1][1] = x
        /\ WebhookOf(x, f, m) = BoxOf(<<x, "invitation">>) /\ WebhookOf(x, f, m)[2] = "didexchange-msg"
    BY <1>6, <1>9, <2>1, WebhookOfFacts
  <2>3. <<<<x, "invitation">>, "out-of-band-msg">> \in Webhooks
    BY <1>9 DEF Webhooks, Store!Boxes, Ids
  <2>4. \A w \in told : w = <<<<x, "invitation">>, "out-of-band-msg">> \/ w = WebhookOf(x, f, m)
    BY <2>1 DEF told
  <2>5. k => WebhookOf(x, f, m) \in told
    BY <2>1 DEF told
  <2>6. PICK u : u = WebhookOf(x, f, m)
    OBVIOUS
  <2>7. /\ ws \in SUBSET Webhooks /\ \A w \in ws : w[1][1] = x
        /\ (k => u \in ws) /\ u = BoxOf(<<x, "invitation">>) /\ u[2] = "didexchange-msg"
    BY <1>d, <2>2, <2>3, <2>4, <2>5, <2>6
  <2>8. Sends(b, f, ws)
    BY <1>c, <1>d
  <2>9. /\ pending' \in [Agents -> SUBSET Webhooks]
        /\ \A a \in Agents \ {b} : pending'[a] = pending[a]
        /\ b \in Hearers => \A w \in ws : w[2] = "didexchange-msg" => w \in pending'[b]
        /\ \A w \in pending'[b] : w \in pending[b] \/ w \in ws
    BY <1>4, <2>7, <2>8, SendsFacts
  <2> QED
    BY <2>7, <2>9
<1>14. Filed'
  <2>1. \A a \in Agents : \A w \in pending'[a] : w \in pending[a] \/ (w[1][1] = x /\ a = b)
    BY <1>13
  <2> QED
    BY <1>2, <1>4, <1>9, <1>12, <1>13, <2>1, FiledBegins
<1>15. Step' = Step /\ Last' = Last
  BY <1>8 DEF Step, Last
<1>16. ~Started /\ \A a \in Agents : temp_connection_id_dict[a] = None
       /\ \A c, d \in Agents : connection_id_dict[c][d] = None
  <2>1. ~Started
    BY <1>2, <1>6 DEF Started, Begins
  <2> QED
    BY <1>4, <2>1 DEF Turn
<1>17. Called'
  <2>1. ~Lacking(Step)'
    BY <1>5, <1>15 DEF Lacking
  <2>2. "invitation-webhook" \in Follow[Step.do] /\ "invitation-webhook" \notin Start
    BY <1>5 DEF Follow, Start
  <2>3. connection_id_dict'[Step.by][second'] = None /\ x # None
    BY <1>2, <1>4, <1>6, <1>7, <1>9, <1>16, ConnectionsAssumption
  <2> QED
    BY <1>2, <1>4, <1>8, <1>15, <2>1, <2>2, <2>3 DEF Called
<1>18. Turn' /\ Awaited'
  <2>1. Begins' /\ Started' /\ Reached' = Step
    BY <1>5, <1>8, <1>15 DEF Begins, Started, Reached
  <2>2. PICK d, q, s : d = "invite" /\ q = second /\ s = Step
    OBVIOUS
  <2>3. Named(d, q)'
    <3>1. connection_id_dict[first][q] = None
      BY <1>4, <1>6, <1>7, <1>16, <2>2
    <3> QED
      BY <1>1, <1>2, <1>6, <1>7, <1>8, <1>16, <2>2, <3>1 DEF Named
  <2>4. \A c \in Agents \ {b} : record'[c][x] = "none"
    BY <1>9, <1>10 DEF Sets
  <2>5. record'[b][x] \in {"none", "invitation"}
    BY <1>3, <1>4, <1>9, <1>10 DEF Sets
  <2>6. Stands(d, q)'
    BY <1>1, <1>2, <1>a, <1>6, <1>7, <1>8, <1>12, <2>2, <2>4, <2>5 DEF Stands
  <2>7. Told(d, q)'
    <3>1. first \in Hearers
      BY <1>1, <1>4, <1>6, ResponderHears
    <3>2. exchange'[x].keyed => BoxOf(<<x, "invitation">>) \in pending'[b]
      BY <1>7, <1>12, <1>13, <3>1
    <3> QED
      BY <1>2, <1>7, <1>8, <2>2, <3>2 DEF Told, Coming
  <2>8. s.do = d /\ d \in Deeds /\ Between(s, first', q)
    BY <1>5, <1>6, <1>7, <2>2 DEF Deeds
  <2> QED
    BY <2>1, <2>2, <2>3, <2>6, <2>7, <2>8, Reaches
<1>19. Joined'
  BY <1>4, <1>6, <1>8, <1>15 DEF Joined
<1>20. FailureHasCause'
  BY <1>2, <1>8 DEF FailureHasCause
<1>21. TypeOK'
  <2>1. call' \in [op : Ops \cup {"idle"}, by : Agents \cup {None}, about : Exchanges \cup {None}]
    BY <1>4, <1>8, <1>9 DEF Ops
  <2>2. begun' \subseteq Exchanges /\ invitation' \in Exchanges \cup {None}
    BY <1>2, <1>4, <1>9 DEF TypeOK
  <2> QED
    BY <1>2, <1>4, <1>7, <1>8, <1>10, <1>11, <1>13, <2>1, <2>2 DEF TypeOK
<1> QED
  BY <1>11, <1>12, <1>14, <1>17, <1>18, <1>19, <1>20, <1>21 DEF Settled

LEMMA CreateRequestKeeps ==
  ASSUME IInv, CreateRequest
  PROVE  TypeOK' /\ Settled'
<1>1. PICK x, b, i : x = NewExchange /\ b = call.by /\ i = Step.to
  OBVIOUS
<1>2. /\ call.op = "create-request" /\ verdict = "running" /\ Fresh # {}
      /\ record' = [record EXCEPT ![b][x] = "request"]
      /\ exchange' = [exchange EXCEPT ![x] = [form |-> "request", inviter |-> i, taker |-> None, keyed |-> FALSE]]
      /\ wire' = wire \cup {Message("request", b, i, x)}
      /\ Tells(b, x, "request", {"request"})
      /\ invitation' = x /\ begun' = begun \cup {x}
      /\ Then("request-webhook", b, x)
      /\ UNCHANGED <<kind, auto, store, connection_id_dict, temp_connection_id_dict, first, second, late, missed>>
  BY <1>1 DEF CreateRequest, Serving
<1>4. /\ TypeOK /\ Inv /\ Called /\ Agreed /\ Filed /\ Context /\ Turn /\ Underway
      /\ at \in 1..Last /\ at <= Last /\ Last \in Nat /\ b \in Agents /\ i \in Agents
      /\ call.op = OperationOf[Step.do] /\ b = Step.by /\ Step.do \in Deeds
  BY <1>1, <1>2, ServedFacts
<1>5. Step.do = "askPublic"
  BY <1>2, <1>4, OpOfStep
<1>6. /\ at = 1 /\ scenario.protocol = "did-exchange" /\ at < Last
      /\ Between(Step, first, second) /\ second \in Agents /\ first # second
      /\ first \in Responders /\ second \notin Responders /\ scenario.form = "request"
  BY <1>4, <1>5, FirstStep
<1>7. b = second /\ i = first /\ first' = first /\ second' = second
  BY <1>1, <1>2, <1>4, <1>5, <1>6 DEF Between, Inviting
<1>8. /\ UNCHANGED <<scenario, at, verdict, runs>>
      /\ call' = [op |-> "request-webhook", by |-> b, about |-> x]
  BY <1>2 DEF Then, runVars
<1>9. x \in Fresh /\ x \in Exchanges /\ exchange[x].inviter = None
      /\ \A a \in Agents : record[a][x] = "none"
  BY <1>1, <1>2, <1>4, FreshFacts
<1>10. Sets(b, x, "request") /\ record' \in [Agents -> [Exchanges -> States]]
  BY <1>2, <1>4, <1>9, SetsRecord DEF States
<1>11. Agreed' /\ exchange' \in [Exchanges -> [form : Forms, inviter : Agents \cup {None}, taker : Agents \cup {None}, keyed : BOOLEAN]]
  <2>1. \A a \in Agents : kind[a] = "acapy"
    BY <1>4, <1>6 DEF Context
  <2>2. PICK f, v : f = "request" /\ v = "request"
    OBVIOUS
  <2>3. f \in Forms /\ v \in States /\ Sets(b, x, v)
        /\ exchange' = [exchange EXCEPT ![x] = [form |-> f, inviter |-> i, taker |-> None, keyed |-> FALSE]]
    BY <1>2, <1>10, <2>2 DEF Forms, States
  <2>4. PICK k \in BOOLEAN :
          exchange' = [exchange EXCEPT ![x] = [form |-> f, inviter |-> i, taker |-> None, keyed |-> k]]
    BY <2>3
  <2>5. /\ i \in Agents /\ b \in Agents /\ b # i /\ i \in Responders /\ b \notin Responders
        /\ x \in Fresh /\ v = "request" /\ UNCHANGED <<kind, auto>>
        /\ wire' = wire \cup {Message("request", b, i, x)}
    BY <1>2, <1>4, <1>6, <1>7, <1>9, <2>2
  <2> QED
    BY <1>4, <2>1, <2>3, <2>4, <2>5, BeginsAgreed
<1>12. /\ Context'
       /\ exchange'[x].inviter = i /\ exchange'[x].form = "request" /\ exchange'[x].taker = None
       /\ \A y \in Exchanges \ {x} : exchange'[y] = exchange[y]
  <2>1. /\ exchange'[x].inviter = i /\ exchange'[x].form = "request" /\ exchange'[x].taker = None
        /\ \A y \in Exchanges \ {x} : exchange'[y] = exchange[y]
    BY <1>2, <1>4, <1>9 DEF TypeOK
  <2> QED
    BY <1>2, <1>4, <1>6, <1>7, <1>8, <1>9, <2>1, BegunOne
<1>13. /\ pending' \in [Agents -> SUBSET Webhooks]
       /\ \A a \in Agents \ {b} : pending'[a] = pending[a]
       /\ BoxOf(<<x, "request">>) \in pending'[b]
       /\ \A w \in pending'[b] : w \in pending[b] \/ w[1][1] = x
  <2>1. PICK f, ss : f = "request" /\ ss = {"request"}
    OBVIOUS
  <2>2. Tells(b, x, f, ss)
    BY <1>2, <2>1
  <2>3. /\ pending' \in [Agents -> SUBSET Webhooks]
        /\ \A a \in Agents \ {b} : pending'[a] = pending[a]
        /\ \A s \in ss : BoxOf(<<x, IF s = "invitation" THEN "invitation" ELSE "request">>) \in pending'[b]
        /\ \A w \in pending'[b] : w \in pending[b] \/ w[1][1] = x
    BY <1>4, <1>9, <2>1, <2>2, TellsFacts
  <2>4. PICK s : s = "request" /\ s \in ss
    BY <2>1
  <2>6. BoxOf(<<x, "request">>) \in pending'[b]
    BY <2>3, <2>4
  <2> QED
    BY <2>3, <2>6
<1>14. Filed'
  <2>1. \A a \in Agents : \A w \in pending'[a] :
           \/ w \in pending[a]
           \/ w[1][1] = x /\ (a = i \/ a \notin Responders)
    BY <1>6, <1>7, <1>13
  <2> QED
    BY <1>2, <1>4, <1>9, <1>12, <1>13, <2>1, FiledBegins
<1>15. Step' = Step /\ Last' = Last
  BY <1>8 DEF Step, Last
<1>16. /\ \A a \in Agents : temp_connection_id_dict[a] = None
       /\ connection_id_dict[second][first] = None
  <2>1. ~Started
    BY <1>2, <1>6 DEF Started, Begins
  <2> QED
    BY <1>4, <1>6, <1>7, <2>1 DEF Turn
<1>17. Called'
  <2>1. ~Lacking(Step)'
    BY <1>5, <1>15 DEF Lacking
  <2>2. "request-webhook" \in Follow[Step.do] /\ "request-webhook" \notin Start
    BY <1>5 DEF Follow, Start
  <2>3. x # None
    BY <1>9, ConnectionsAssumption
  <2> QED
    BY <1>2, <1>4, <1>8, <1>15, <2>1, <2>2, <2>3 DEF Called
<1>18. Turn' /\ Awaited'
  <2>1. Begins' /\ Started' /\ Reached' = Step
    BY <1>5, <1>8, <1>15 DEF Begins, Started, Reached
  <2>2. PICK d, q, s : d = "askPublic" /\ q = second /\ s = Step
    OBVIOUS
  <2>3. Named(d, q)'
    BY <1>2, <1>6, <1>7, <1>8, <1>16, <2>2 DEF Named
  <2>4. \A c \in Agents \ {b} : record'[c][x] = "none"
    BY <1>9, <1>10 DEF Sets
  <2>5. record'[b][x] = "request"
    BY <1>4, <1>9, <1>10 DEF Sets
  <2>6. Stands(d, q)'
    BY <1>2, <1>4, <1>6, <1>7, <1>8, <1>12, <2>2, <2>4, <2>5 DEF Stands, Moved
  <2>7. Told(d, q)'
    <3>1. d # "invite" /\ d # "take" /\ d # "ask"
      BY <2>2
    <3> QED
      BY <1>2, <1>7, <1>8, <1>12, <1>13, <2>2, <3>1 DEF Told, Coming
  <2>8. s.do = d /\ d \in Deeds /\ Between(s, first', q)
    BY <1>2, <1>5, <1>6, <1>7, <2>2 DEF Deeds
  <2> QED
    BY <2>1, <2>2, <2>3, <2>6, <2>7, <2>8, Reaches
<1>19. Joined'
  BY <1>4, <1>6, <1>8, <1>15 DEF Joined
<1>20. FailureHasCause'
  BY <1>2, <1>8 DEF FailureHasCause
<1>21. TypeOK'
  <2>1. call' \in [op : Ops \cup {"idle"}, by : Agents \cup {None}, about : Exchanges \cup {None}]
    BY <1>4, <1>8, <1>9 DEF Ops
  <2>2. begun' \subseteq Exchanges /\ invitation' \in Exchanges \cup {None}
    BY <1>2, <1>4, <1>9 DEF TypeOK
  <2>3. wire' \subseteq Messages
    <3>1. Message("request", b, i, x) \in Messages
      BY <1>4, <1>9 DEF Message, Messages
    <3> QED
      BY <1>2, <1>4, <3>1 DEF TypeOK
  <2> QED
    BY <1>2, <1>4, <1>8, <1>10, <1>11, <1>13, <2>1, <2>2, <2>3 DEF TypeOK
<1> QED
  BY <1>11, <1>12, <1>14, <1>17, <1>18, <1>19, <1>20, <1>21 DEF Settled


\* What the context holds after ids have been stored.
LEMMA StoredOne ==
  ASSUME TypeOK, NEW a \in Agents, NEW b \in Agents, NEW x \in Exchanges,
         NEW es, <<a, b, x>> \in es, \A e \in es : e = <<a, b, x>>, connection_id_dict' = Stored(es)
  PROVE  /\ connection_id_dict' \in [Agents -> [Agents -> Exchanges \cup {None}]]
         /\ \A c, d \in Agents :
              connection_id_dict'[c][d] = IF c = a /\ d = b THEN x ELSE connection_id_dict[c][d]
<1>1. \A c, d \in Agents : (\E e \in es : e[1] = c /\ e[2] = d) <=> c = a /\ d = b
  OBVIOUS
<1>2. (CHOOSE e \in es : e[1] = a /\ e[2] = b)[3] = x
  <2>1. \E e \in es : e[1] = a /\ e[2] = b
    OBVIOUS
  <2>2. (CHOOSE e \in es : e[1] = a /\ e[2] = b) \in es
    BY <2>1
  <2> QED
    BY <2>2
<1>3. \A c, d \in Agents :
        connection_id_dict'[c][d] = IF c = a /\ d = b THEN x ELSE connection_id_dict[c][d]
  BY <1>1, <1>2 DEF Stored
<1>4. connection_id_dict' = [c \in Agents |-> [d \in Agents |-> connection_id_dict'[c][d]]]
  BY DEF Stored
<1>5. \A c, d \in Agents : connection_id_dict'[c][d] \in Exchanges \cup {None}
  <2>1. \A c, d \in Agents : connection_id_dict[c][d] \in Exchanges \cup {None}
    BY DEF TypeOK
  <2> QED
    BY <1>3, <2>1
<1>6. connection_id_dict' \in [Agents -> [Agents -> Exchanges \cup {None}]]
  <2>1. \A c \in Agents : [d \in Agents |-> connection_id_dict'[c][d]] \in [Agents -> Exchanges \cup {None}]
    BY <1>5
  <2> QED
    BY <1>4, <2>1
<1> QED
  BY <1>3, <1>6

LEMMA StoredTwo ==
  ASSUME TypeOK, NEW a \in Agents, NEW b \in Agents, a # b, NEW x \in Exchanges, NEW y \in Exchanges,
         NEW es, <<a, b, x>> \in es, <<b, a, y>> \in es,
         \A e \in es : e = <<a, b, x>> \/ e = <<b, a, y>>, connection_id_dict' = Stored(es)
  PROVE  /\ connection_id_dict' \in [Agents -> [Agents -> Exchanges \cup {None}]]
         /\ connection_id_dict'[a][b] = x /\ connection_id_dict'[b][a] = y
         /\ \A c, d \in Agents : \/ c = a /\ d = b
                                 \/ c = b /\ d = a
                                 \/ connection_id_dict'[c][d] = connection_id_dict[c][d]
<1>1. \A c, d \in Agents : (\E e \in es : e[1] = c /\ e[2] = d) <=> (c = a /\ d = b) \/ (c = b /\ d = a)
  OBVIOUS
<1>2. (CHOOSE e \in es : e[1] = a /\ e[2] = b)[3] = x
  <2>1. <<a, b, x>> \in es /\ <<a, b, x>>[1] = a /\ <<a, b, x>>[2] = b
    OBVIOUS
  <2>2. (CHOOSE e \in es : e[1] = a /\ e[2] = b) \in {e \in es : e[1] = a /\ e[2] = b}
    BY <2>1
  <2>3. {e \in es : e[1] = a /\ e[2] = b} = {<<a, b, x>>}
    BY <2>1
  <2> QED
    BY <2>2, <2>3
<1>3. (CHOOSE e \in es : e[1] = b /\ e[2] = a)[3] = y
  <2>1. <<b, a, y>> \in es /\ <<b, a, y>>[1] = b /\ <<b, a, y>>[2] = a
    OBVIOUS
  <2>2. (CHOOSE e \in es : e[1] = b /\ e[2] = a) \in {e \in es : e[1] = b /\ e[2] = a}
    BY <2>1
  <2>3. {e \in es : e[1] = b /\ e[2] = a} = {<<b, a, y>>}
    BY <2>1
  <2> QED
    BY <2>2, <2>3
<1>4. connection_id_dict'[a][b] = x /\ connection_id_dict'[b][a] = y
  BY <1>1, <1>2, <1>3 DEF Stored
<1>5. \A c, d \in Agents : \/ c = a /\ d = b
                           \/ c = b /\ d = a
                           \/ connection_id_dict'[c][d] = connection_id_dict[c][d]
  BY <1>1 DEF Stored
<1>6. connection_id_dict' = [c \in Agents |-> [d \in Agents |-> connection_id_dict'[c][d]]]
  BY DEF Stored
<1>7. \A c, d \in Agents : connection_id_dict[c][d] \in Exchanges \cup {None}
  BY DEF TypeOK
<1>8. \A c, d \in Agents : connection_id_dict'[c][d] \in Exchanges \cup {None}
  BY <1>4, <1>5, <1>7
<1>9. connection_id_dict' \in [Agents -> [Agents -> Exchanges \cup {None}]]
  <2>1. \A c \in Agents : [d \in Agents |-> connection_id_dict'[c][d]] \in [Agents -> Exchanges \cup {None}]
    BY <1>8
  <2> QED
    BY <1>6, <2>1
<1> QED
  BY <1>4, <1>5, <1>9

\* The record of an invitation is new to who receives it.
LEMMA TakeInvitationKeeps ==
  ASSUME IInv, TakeInvitation
  PROVE  TypeOK' /\ Settled'
<1>1. PICK e, q, d, x, f : e = Reached.do /\ q = Partner /\ d = Step.do /\ x = call.about /\ f = exchange[x].form
  OBVIOUS
<1>2. /\ call.op = "receive-oob" /\ verdict = "running" /\ Done
      /\ record' = [record EXCEPT ![call.by][x] = "invitation"]
      /\ Tells(call.by, x, f, {"invitation"})
      /\ connection_id_dict' = Stored({<<call.by, first, x>>})
      /\ UNCHANGED <<kind, auto, exchange, wire, store, temp_connection_id_dict, invitation, first,
                     second, late, missed, begun>>
  BY <1>1 DEF TakeInvitation, Serving
<1>3. /\ TypeOK /\ Inv /\ Called /\ Agreed /\ Filed /\ Context /\ Turn /\ Awaited /\ Underway
      /\ at \in 1..Last /\ at <= Last /\ Last \in Nat /\ first \in Agents
      /\ call.op = OperationOf[Step.do] /\ call.by = Step.by /\ call.about = IdFor(Step) /\ d \in Deeds
  BY <1>1, <1>2, ServedFacts
<1>4. d = "take"
  BY <1>1, <1>2, <1>3, OpOfStep
<1>5. /\ e \in Precedes[d] /\ Between(Step, first, q) /\ Named(e, q) /\ Stands(e, q) /\ ~Begins /\ Started
      /\ q \in Agents /\ q # first /\ invitation \in Exchanges /\ invitation \in begun
  BY <1>1, <1>3, <1>4, OldStage, NoIntruder DEF Firsts
<1>6. e = "invite" /\ call.by = q /\ x = invitation
  BY <1>1, <1>3, <1>4, <1>5 DEF Precedes, Between, Inviting, IdFor
<1>7. scenario.protocol = "did-exchange" /\ scenario.form # "request"
  <2>1. scenario.protocol \in Protocols /\ (scenario.protocol = "connection" => Step.do \in ConnectionDeeds)
    BY <1>3, HereFacts, ScenarioFacts DEF TypeOK
  <2> QED
    BY <1>1, <1>4, <1>5, <1>6, <2>1 DEF Protocols, ConnectionDeeds, Named
<1>8. q \notin Responders
  BY <1>3, <1>5, <1>7, DidPartner
<1>9. /\ exchange[x].inviter = first /\ record[q][x] = "none"
      /\ \A c \in Agents \ {first, q} : record[c][x] = "none"
      /\ AcceptsAlone(first) \/ Excused \/ record[first][x] \in {"none", "invitation", "request"}
  BY <1>5, <1>6 DEF Stands
<1>10. Sets(q, x, "invitation") /\ record' \in [Agents -> [Exchanges -> States]]
  BY <1>2, <1>3, <1>5, <1>6, SetsRecord DEF States
<1>11. Agreed'
  <2>1. PICK v : v = "invitation"
    OBVIOUS
  <2>2. v \in States /\ Sets(q, x, v) /\ exchange[x].inviter # None
    BY <1>3, <1>9, <1>10, <2>1, AgentTypes DEF States
  <2> QED
    BY <1>2, <1>3, <1>5, <1>6, <1>8, <1>9, <2>1, <2>2, TakesAgreed
<1>12. /\ connection_id_dict' \in [Agents -> [Agents -> Exchanges \cup {None}]]
       /\ \A b, c \in Agents :
            connection_id_dict'[b][c] = IF b = q /\ c = first THEN x ELSE connection_id_dict[b][c]
  <2>1. PICK i, es : i = first /\ es = {<<q, i, x>>}
    OBVIOUS
  <2>2. TypeOK /\ q \in Agents /\ i \in Agents /\ x \in Exchanges
    BY <1>3, <1>5, <1>6, <2>1
  <2>4. connection_id_dict' = Stored(es)
    BY <1>2, <1>6, <2>1
  <2>5. <<q, i, x>> \in es /\ \A e1 \in es : e1 = <<q, i, x>>
    BY <2>1
  <2>3. /\ connection_id_dict' \in [Agents -> [Agents -> Exchanges \cup {None}]]
        /\ \A b, c \in Agents :
             connection_id_dict'[b][c] = IF b = q /\ c = i THEN x ELSE connection_id_dict[b][c]
    BY <2>2, <2>4, <2>5, StoredOne
  <2> QED
    BY <2>1, <2>3
<1>13. /\ pending' \in [Agents -> SUBSET Webhooks]
       /\ \A a \in Agents : pending[a] \subseteq pending'[a]
       /\ \A a \in Agents \ {q} : pending'[a] = pending[a]
       /\ \A w \in pending'[q] : w \in pending[q] \/ w[1][1] = x
  <2>1. PICK ss, b : ss = {"invitation"} /\ b = call.by
    OBVIOUS
  <2>2. Tells(b, x, f, ss) /\ b \in Agents /\ x \in Exchanges /\ b = q
    BY <1>2, <1>5, <1>6, <2>1
  <2> QED
    BY <1>3, <2>2, TellsFacts
<1>14. Filed'
  <2>1. Knows(q, x)
    BY <1>3, <1>8, <1>9, AgentTypes DEF Knows
  <2>2. \A a \in Agents : \A w \in pending'[a] : w \in pending[a] \/ Knows(a, w[1][1])
    BY <1>13, <2>1
  <2>3. \A a \in Agents : \A w \in pending'[a] : Knows(a, w[1][1])
    BY <1>3, <2>2 DEF Filed
  <2>4. exchange' = exchange /\ store' = store
    BY <1>2
  <2> QED
    BY <1>3, <2>3, <2>4 DEF Filed, Knows
<1>15. Called' /\ FailureHasCause' /\ UNCHANGED <<scenario, verdict, runs>>
        /\ call' \in [op : Ops \cup {"idle"}, by : Agents \cup {None}, about : Exchanges \cup {None}]
  BY <1>2, <1>3, DoneCalled
<1>16. at < Last /\ at + 1 \in 1..(Last + 1) /\ at' = at + 1
  BY <1>1, <1>2, <1>3, <1>4, NotLast DEF Done
<1>17. Joined'
  BY <1>2, <1>3, <1>16, DoneJoined
<1>18. Context'
  <2>1. Knows(first, x)
    BY <1>3, <1>9, AgentTypes DEF Knows
  <2>2. \A b, c \in Agents : connection_id_dict'[b][c] # None => Knows(first, connection_id_dict'[b][c])
    BY <1>3, <1>7, <1>12, <2>1 DEF Context
  <2> QED
    BY <1>2, <1>3, <1>15, <2>2 DEF Context, Knows
<1>19. record'[first][x] = record[first][x] /\ record'[q][x] = "invitation"
       /\ \A c \in Agents \ {first, q} : record'[c][x] = "none"
  BY <1>3, <1>5, <1>6, <1>9, <1>10 DEF Sets
<1>20. connection_id_dict'[q][first] = x /\ connection_id_dict'[first][q] = connection_id_dict[first][q]
  BY <1>3, <1>5, <1>12
<1>21. Named(d, q)'
  BY <1>2, <1>4, <1>5, <1>6, <1>7, <1>15, <1>20 DEF Named
<1>22. Stands(d, q)'
  <2>1. kind[q] = "acapy"
    BY <1>3, <1>5, <1>7 DEF Context
  <2> QED
    BY <1>2, <1>4, <1>5, <1>6, <1>9, <1>15, <1>19, <2>1 DEF Stands, AcceptsAlone, Excused
<1>23. Told(d, q)'
  <2>1. Told(e, q)
    BY <1>1, <1>3, <1>5 DEF Awaited
  <2>2. call'.op = "idle"
    BY <1>2 DEF Done, Idle
  <2> QED
    BY <1>2, <1>3, <1>4, <1>6, <1>13, <1>19, <1>20, <2>1, <2>2 DEF Told, Coming, InStore
<1>24. Turn' /\ Awaited'
  <2>1. Between(Step, first', q)
    BY <1>2, <1>5
  <2> QED
    BY <1>1, <1>2, <1>3, <1>5, <1>21, <1>22, <1>23, <2>1, DoneReaches
<1>25. TypeOK'
  <2>1. UNCHANGED <<scenario, runs, verdict, exchange, wire, store, late, kind, auto, begun>> /\ at' \in 1..(Last + 1)
    BY <1>2, <1>15, <1>16
  <2> QED
    BY <1>2, <1>3, <1>10, <1>12, <1>13, <1>15, <2>1 DEF TypeOK, Last
<1> QED
  BY <1>11, <1>14, <1>15, <1>17, <1>18, <1>24, <1>25 DEF Settled


\* Whoever receives the invitation has no record of it yet: the invitee, whose exchange it
\* is, or a third agent, after which the scenario fails.
LEMMA ReceiveInvitationKeeps ==
  ASSUME IInv, ReceiveInvitation
  PROVE  TypeOK' /\ Settled'
<1>1. PICK e, q, d, x, b : e = Reached.do /\ q = Partner /\ d = Step.do /\ x = call.about /\ b = call.by
  OBVIOUS
<1>2. /\ call.op = "receive-invitation" /\ verdict = "running"
      /\ \/ kind[b] = "credo" /\ record' = [record EXCEPT ![b][x] = "request"]
              /\ wire' = wire \cup {Message("request", b, exchange[x].inviter, x)}
         \/ kind[b] # "credo" /\ record' = [record EXCEPT ![b][x] = "invitation"] /\ wire' = wire
      /\ temp_connection_id_dict' = [a \in Agents |-> None]
      /\ Tells(b, x, exchange[x].form, {"invitation"})
      /\ UNCHANGED <<kind, auto, exchange, store, invitation, first, late, missed, begun>>
  BY <1>1 DEF ReceiveInvitation, Serving
<1>3. \/ /\ temp_connection_id_dict[first] # None
         /\ connection_id_dict' = Stored({<<b, first, x>>, <<first, b, temp_connection_id_dict[first]>>})
         /\ second' = IF second = None THEN b ELSE second
         /\ Done
      \/ /\ temp_connection_id_dict[first] = None
         /\ connection_id_dict' = Stored({<<b, first, x>>})
         /\ Then("inviter-id", first, x) /\ second' = second
  BY <1>1 DEF ReceiveInvitation
<1>4. /\ TypeOK /\ Inv /\ Called /\ Agreed /\ Filed /\ Context /\ Turn /\ Awaited /\ Underway
      /\ at \in 1..Last /\ at <= Last /\ Last \in Nat /\ first \in Agents
      /\ call.op = OperationOf[Step.do] /\ call.by = Step.by /\ call.about = IdFor(Step) /\ d \in Deeds
      /\ b \in Agents
  BY <1>1, <1>2, ServedFacts
<1>5. d = "receive"
  BY <1>1, <1>2, <1>4, OpOfStep
<1>6. scenario.protocol = "connection" /\ scenario.form = "connection" /\ ~Excused /\ scenario \in Scenarios
  <2>1. scenario.protocol \in Protocols
    BY <1>4, ScenarioFacts DEF TypeOK
  <2>2. scenario.protocol = "did-exchange" => Step.do \notin ConnectionDeeds \ {"connected"}
    BY <1>4, HereFacts
  <2> QED
    BY <1>1, <1>4, <1>5, <2>1, <2>2, ScenarioFacts DEF Protocols, ConnectionDeeds, TypeOK, Excused
<1>7. /\ Named(e, q) /\ Stands(e, q) /\ Between(Reached, first, q) /\ ~Begins /\ at # 1 /\ e \in Deeds
      /\ q \in Agents /\ q # first /\ invitation \in Exchanges /\ invitation \in begun
      /\ \/ at = Last /\ Intrudes(Reached, Step)
         \/ e \in Precedes[Step.do] /\ Between(Step, first, q)
  BY <1>1, <1>4, <1>5, OldStage DEF Firsts
<1>8. x = invitation
  BY <1>1, <1>4, <1>5 DEF IdFor
<1>9. \/ e = "generate" /\ b = q
      \/ e # "generate" /\ b \notin {first, q} /\ at = Last
  <2>1. CASE Intrudes(Reached, Step)
    <3>1. {Reached.by, Reached.to} = {first, q}
      BY <1>1, <1>7, ByBetween
    <3> QED
      BY <1>1, <1>4, <1>5, <1>7, <2>1, <3>1 DEF Intrudes, Precedes
  <2>2. CASE e \in Precedes[Step.do] /\ Between(Step, first, q)
    BY <1>1, <1>4, <1>5, <2>2 DEF Precedes, Between, Inviting
  <2> QED
    BY <1>7, <2>1, <2>2
<1>10. b # first /\ record[b][x] = "none" /\ exchange[x].inviter = first /\ exchange[x].form = "connection"
  BY <1>4, <1>6, <1>7, <1>8, <1>9 DEF Stands
<1>11. PICK v : v = IF kind[b] = "credo" THEN "request" ELSE "invitation"
  OBVIOUS
<1>12. Sets(b, x, v) /\ record' \in [Agents -> [Exchanges -> States]] /\ v \in States
  <2>1. v \in States /\ record' = [record EXCEPT ![b][x] = v]
    BY <1>2, <1>11 DEF States
  <2> QED
    BY <1>4, <1>7, <1>8, <2>1, SetsRecord
<1>13. Agreed' /\ wire' \subseteq Messages
  <2>1. \/ v = "invitation" /\ wire' = wire
        \/ v = "request" /\ wire' = wire \cup {Message("request", b, exchange[x].inviter, x)}
    BY <1>2, <1>11
  <2>2. exchange[x].inviter # None /\ exchange[x].form = "connection" /\ b # exchange[x].inviter
    BY <1>4, <1>10, AgentTypes
  <2>3. Agreed'
    BY <1>2, <1>4, <1>7, <1>8, <1>10, <1>12, <2>1, <2>2, TakesAgreed
  <2>4. Message("request", b, exchange[x].inviter, x) \in Messages /\ wire \subseteq Messages
    BY <1>4, <1>7, <1>8, <1>10 DEF Message, Messages, TypeOK
  <2> QED
    BY <2>1, <2>3, <2>4
<1>20. /\ pending' \in [Agents -> SUBSET Webhooks]
       /\ \A a \in Agents \ {b} : pending'[a] = pending[a]
       /\ \A w \in pending'[b] : w \in pending[b] \/ w[1][1] = x
  <2>1. PICK f, ss : f = exchange[x].form /\ ss = {"invitation"}
    OBVIOUS
  <2>2. Tells(b, x, f, ss) /\ x \in Exchanges
    BY <1>2, <1>7, <1>8, <2>1
  <2> QED
    BY <1>4, <2>2, TellsFacts
<1>14. Filed'
  <2>1. Knows(b, x)
    BY <1>4, <1>10, AgentTypes DEF Knows
  <2>2. \A a \in Agents : \A w \in pending'[a] : w \in pending[a] \/ Knows(a, w[1][1])
    BY <1>20, <2>1
  <2>3. \A a \in Agents : \A w \in pending'[a] : Knows(a, w[1][1])
    BY <1>4, <2>2 DEF Filed
  <2>4. exchange' = exchange /\ store' = store
    BY <1>2
  <2> QED
    BY <1>4, <2>3, <2>4 DEF Filed, Knows
<1>15. UNCHANGED scenario
  BY <1>3 DEF Done, Then, runVars
<1>16. Context'
  BY <1>2, <1>4, <1>6, <1>15 DEF Context
<1>17. \A c \in Agents \ {b} : record'[c][x] = record[c][x]
  BY <1>7, <1>8, <1>12 DEF Sets
<1>18. CASE e = "generate" /\ b = q
  <2>1. temp_connection_id_dict[first] = x /\ x # None
    BY <1>4, <1>7, <1>8, <1>18, AgentTypes DEF Named
  <2>2. connection_id_dict' = Stored({<<q, first, x>>, <<first, q, x>>}) /\ Done /\ second' \in Agents \cup {None}
    <3>1. second \in Agents \cup {None}
      BY <1>4 DEF TypeOK
    <3> QED
      BY <1>3, <1>4, <1>18, <2>1, <3>1
  <2>3. /\ connection_id_dict' \in [Agents -> [Agents -> Exchanges \cup {None}]]
        /\ connection_id_dict'[q][first] = x /\ connection_id_dict'[first][q] = x
    <3>1. PICK i, es : i = first /\ es = {<<q, i, x>>, <<i, q, x>>}
      OBVIOUS
    <3>2. TypeOK /\ q \in Agents /\ i \in Agents /\ q # i /\ x \in Exchanges
      BY <1>4, <1>7, <1>8, <3>1
    <3>3. connection_id_dict' = Stored(es)
      BY <2>2, <3>1
    <3>4. <<q, i, x>> \in es /\ <<i, q, x>> \in es /\ \A e1 \in es : e1 = <<q, i, x>> \/ e1 = <<i, q, x>>
      BY <3>1
    <3>5. /\ connection_id_dict' \in [Agents -> [Agents -> Exchanges \cup {None}]]
          /\ connection_id_dict'[q][i] = x /\ connection_id_dict'[i][q] = x
      BY <3>2, <3>3, <3>4, StoredTwo
    <3> QED
      BY <3>1, <3>5
  <2>4. Called' /\ FailureHasCause' /\ UNCHANGED <<scenario, verdict, runs>>
        /\ call' \in [op : Ops \cup {"idle"}, by : Agents \cup {None}, about : Exchanges \cup {None}]
    BY <1>2, <1>4, <2>2, DoneCalled
  <2>5. at < Last /\ at' = at + 1 /\ at + 1 \in 1..(Last + 1)
    <3>1. Reached = scenario.steps[at-1]
      BY <1>7 DEF Reached
    <3>2. at # Last
      BY <1>1, <1>4, <1>5, <1>6, <1>18, <3>1, OrderFacts DEF Intrudes
    <3> QED
      BY <1>4, <2>2, <3>2 DEF Done
  <2>6. Joined'
    BY <1>4, <2>2, <2>5, DoneJoined
  <2>7. Named(d, q)'
    BY <1>2, <1>5, <1>7, <1>8, <2>3, <2>4 DEF Named
  <2>8. record'[q][x] = v /\ record'[first][x] = record[first][x]
    BY <1>4, <1>7, <1>8, <1>10, <1>12, <1>17, <1>18 DEF Sets
  <2>9. kind[q] \in {"acapy", "credo"}
    BY <1>4, <1>7, AgentTypes
  <2>10. \A c \in Agents \ {first, q} : record'[c][x] = "none"
    BY <1>7, <1>8, <1>17, <1>18 DEF Stands
  <2>11. AcceptsAlone(first) \/ record[first][x] \in {"none", "invitation", "request"}
    BY <1>6, <1>7, <1>8, <1>18 DEF Stands
  <2>12. Stands(d, q)'
    BY <1>2, <1>5, <1>6, <1>8, <1>10, <1>11, <1>15, <1>18, <2>8, <2>9, <2>10, <2>11
    DEF Stands, Moved, AcceptsAlone
  <2>13. Told(d, q)'
    <3>1. call'.op = "idle"
      BY <2>2 DEF Done, Idle
    <3> QED
      BY <1>5, <3>1 DEF Told
  <2>14. Turn' /\ Awaited'
    <3>1. Between(Step, first', q)
      BY <1>1, <1>2, <1>7, <1>18 DEF Intrudes
    <3> QED
      BY <1>1, <1>4, <2>2, <2>7, <2>12, <2>13, <3>1, DoneReaches
  <2>15. TypeOK'
    <3>1. temp_connection_id_dict' \in [Agents -> Exchanges \cup {None}] /\ at' \in 1..(Last + 1)
      BY <1>2, <2>5
    <3> QED
      BY <1>2, <1>4, <1>12, <1>13, <1>20, <2>2, <2>3, <2>4, <3>1 DEF TypeOK, Last
  <2> QED
    BY <1>13, <1>14, <1>16, <2>4, <2>6, <2>14, <2>15 DEF Settled
<1>19. CASE e # "generate" /\ b \notin {first, q} /\ at = Last
  <2>1. temp_connection_id_dict[first] = None
    BY <1>4, <1>7, <1>19 DEF Named
  <2>2. connection_id_dict' = Stored({<<b, first, x>>}) /\ Then("inviter-id", first, x) /\ second' = second
    BY <1>3, <2>1
  <2>3. connection_id_dict' \in [Agents -> [Agents -> Exchanges \cup {None}]]
    <3>1. PICK i, es : i = first /\ es = {<<b, i, x>>}
      OBVIOUS
    <3>2. TypeOK /\ b \in Agents /\ i \in Agents /\ x \in Exchanges
      BY <1>4, <1>7, <1>8, <3>1
    <3>3. connection_id_dict' = Stored(es)
      BY <2>2, <3>1
    <3>4. <<b, i, x>> \in es /\ \A e1 \in es : e1 = <<b, i, x>>
      BY <3>1
    <3> QED
      BY <3>2, <3>3, <3>4, StoredOne
  <2>4. /\ call'.op = "inviter-id" /\ call'.by = first /\ call'.about = x
        /\ call' \in [op : Ops \cup {"idle"}, by : Agents \cup {None}, about : Exchanges \cup {None}]
        /\ UNCHANGED <<scenario, at, verdict, runs>> /\ Step' = Step
    BY <1>4, <1>7, <1>8, <2>2 DEF Then, runVars, Ops, Step
  <2>5. Called'
    <3>1. ~Lacking(Step)'
      BY <1>1, <1>5, <2>4 DEF Lacking
    <3>2. call'.op \in Follow[Step'.do]
      <4>1. Step'.do = "receive" /\ call'.op = "inviter-id"
        BY <1>1, <1>5, <2>4
      <4> QED
        BY <4>1 DEF Follow
    <3>3. verdict' = "running" /\ first' = first /\ call'.about # None
      BY <1>2, <1>4, <1>7, <1>8, <2>4, AgentTypes
    <3> QED
      BY <2>4, <3>1, <3>2, <3>3 DEF Called, Start
  <2>6. Turn' /\ Awaited'
    BY <2>4 DEF Turn, Awaited, Underway
  <2>7. Joined'
    BY <1>4, <2>4 DEF Joined, Last
  <2>8. FailureHasCause'
    BY <1>2, <2>4 DEF FailureHasCause
  <2>9. TypeOK'
    <3>1. temp_connection_id_dict' \in [Agents -> Exchanges \cup {None}] /\ second' \in Agents \cup {None}
      BY <1>2, <1>4, <2>2 DEF TypeOK
    <3> QED
      BY <1>2, <1>4, <1>12, <1>13, <1>20, <2>3, <2>4, <3>1 DEF TypeOK
  <2> QED
    BY <1>13, <1>14, <1>16, <2>5, <2>6, <2>7, <2>8, <2>9 DEF Settled
<1> QED
  BY <1>9, <1>18, <1>19


\* Whose record of an exchange is completed, is the one whose request was taken.
LEMMA CompletedTaker ==
  ASSUME TypeOK, Agreed, NEW y \in Exchanges, NEW i \in Agents, NEW q \in Agents, q # i,
         exchange[y].inviter = i, record[q][y] = "completed"
  PROVE  /\ exchange[y].taker = q /\ record[i][y] \in {"response", "completed"}
         /\ record[i][y] = "response" => UnderWay(y)
<1>1. AgreedOn(y) /\ i # None
  BY AgentTypes DEF Agreed
<1>2. exchange[y].taker # None
  BY <1>1 DEF AgreedOn, Open
<1>3. Paired(y)
  BY <1>1, <1>2 DEF AgreedOn
<1>4. exchange[y].taker = q
  BY <1>3 DEF Paired
<1>5. record[i][y] \in {"response", "completed"}
  BY <1>3, <1>4 DEF Paired
<1>6. record[i][y] = "response" => Message("complete", q, i, y) \in wire
  BY <1>3, <1>4 DEF Paired
<1>7. Message("complete", q, i, y).about = y
  BY DEF Message
<1> QED
  BY <1>4, <1>5, <1>6, <1>7 DEF UnderWay

\* The connection reused is one of the responder the invitee has completed.
LEMMA ReuseConnectionKeeps ==
  ASSUME IInv, ReuseConnection
  PROVE  TypeOK' /\ Settled'
<1>1. /\ call.op = "receive-oob" /\ verdict = "running" /\ scenario.reuse
      /\ UNCHANGED <<kind, auto, agentVars, pending, store, contextVars, late, missed, begun>>
  BY DEF ReuseConnection, Serving
<1>2. PICK y \in Exchanges : /\ exchange[y].form = "public" /\ exchange[y].inviter = first
                             /\ record[call.by][y] = "completed"
                             /\ Then("active-connection", first, y)
  BY DEF ReuseConnection
<1>3. /\ TypeOK /\ Inv /\ Called /\ Agreed /\ Filed /\ Context /\ Turn /\ Joined /\ Awaited
      /\ at \in 1..Last /\ first \in Agents /\ Step.do \in Deeds
      /\ call.op = OperationOf[Step.do] /\ call.by = Step.by
  BY <1>1, ServedFacts
<1>4. PICK d : d = Step.do
  OBVIOUS
<1>5. d = "take"
  BY <1>1, <1>3, <1>4, OpOfStep
<1>6. /\ call'.op = "active-connection" /\ call'.by = first /\ call'.about = y
      /\ call' \in [op : Ops \cup {"idle"}, by : Agents \cup {None}, about : Exchanges \cup {None}]
      /\ UNCHANGED <<scenario, at, verdict, runs>> /\ Step' = Step
  BY <1>2, <1>3 DEF Then, runVars, Ops, Step
<1>7. Called'
  <2>1. ~Lacking(Step)'
    BY <1>4, <1>5, <1>6 DEF Lacking
  <2>2. call'.op \in Follow[Step'.do]
    <3>1. Step'.do = "take" /\ call'.op = "active-connection"
      BY <1>4, <1>5, <1>6
    <3> QED
      BY <3>1 DEF Follow
  <2>3. verdict' = "running" /\ first' = first /\ call'.about # None /\ scenario'.reuse
        /\ exchange'[y].inviter = first /\ exchange'[y].form = "public"
    BY <1>1, <1>2, <1>3, <1>6, AgentTypes DEF agentVars, contextVars
  <2>4. record'[Step'.by][y] = "completed"
    BY <1>1, <1>2, <1>3, <1>6 DEF agentVars
  <2> QED
    BY <1>6, <2>1, <2>2, <2>3, <2>4 DEF Called, Start
<1>8. Turn' /\ Joined' /\ Awaited'
  <2>1. UNCHANGED runVars
    BY <1>2 DEF Then
  <2>2. ~Begins /\ call.op \notin {"inviter-id", "request-webhook"}
        /\ call'.op # "request-webhook" /\ call'.op # "invitation-webhook"
    BY <1>1, <1>6 DEF Begins
  <2> QED
    BY <1>1, <1>3, <2>1, <2>2, SameStage
<1>9. FailureHasCause'
  BY <1>1, <1>6 DEF FailureHasCause
<1>10. TypeOK' /\ Agreed' /\ Filed' /\ Context'
  <2>1. at' \in 1..(Last + 1) /\ verdict' \in {"running", "passed", "failed"} /\ late' \in BOOLEAN /\ missed' \in BOOLEAN
    BY <1>1, <1>3, <1>6 DEF TypeOK, Last
  <2> QED
    BY <1>1, <1>3, <1>6, <2>1, StillKeeps
<1> QED
  BY <1>7, <1>8, <1>9, <1>10 DEF Settled

\* What a call for the active connection knows.
LEMMA ReusedFacts ==
  ASSUME IInv, verdict = "running", call.op = "active-connection", NEW q, q = Partner
  PROVE  /\ call.about \in Exchanges /\ q \in Agents /\ q # first /\ Step.by = q
         /\ scenario.protocol = "did-exchange" /\ scenario.reuse /\ scenario.form = "public"
         /\ q = scenario.second /\ first = scenario.first
         /\ exchange[call.about].inviter = first /\ record[q][call.about] = "completed"
<1>1. /\ TypeOK /\ Inv /\ Called /\ Context /\ Turn /\ Underway
      /\ at \in 1..Last /\ at <= Last /\ first \in Agents /\ Step.do \in Deeds
      /\ call.op = OperationOf[Step.do] \/ call.op \in Follow[Step.do]
  <2>1. /\ TypeOK /\ Inv /\ Called /\ Context /\ Turn /\ Underway
        /\ at \in 1..Last /\ at <= Last /\ first \in Agents /\ Step.do \in Deeds
    BY ServedFacts
  <2> QED
    BY <2>1, CallFacts
<1>2. PICK d, e : d = Step.do /\ e = Reached.do
  OBVIOUS
<1>3. d = "take"
  BY <1>1, <1>2, OpOfStep
<1>4. e \in Precedes[d] /\ Between(Step, first, q) /\ Named(e, q) /\ q \in Agents /\ q # first
  BY <1>1, <1>2, <1>3, OldStage, NoIntruder DEF Firsts
<1>5. Step.by = q
  BY <1>2, <1>3, <1>4 DEF Between, Inviting
<1>6. /\ scenario.reuse /\ call.about # None /\ exchange[call.about].inviter = first
      /\ record[Step.by][call.about] = "completed"
  BY <1>1 DEF Called
<1>7. call.about \in Exchanges
  BY <1>1, <1>6 DEF TypeOK
<1>8. scenario.protocol = "did-exchange" /\ scenario.form = "public"
  BY <1>1, <1>6, ScenarioFacts DEF Protocols, TypeOK
<1>9. first = scenario.first /\ Between(Step, scenario.first, scenario.second)
  BY <1>1, <1>8, HereFacts DEF Context
<1>10. q = scenario.second
  BY <1>2, <1>3, <1>4, <1>9 DEF Between, Inviting
<1> QED
  BY <1>4, <1>5, <1>6, <1>7, <1>8, <1>9, <1>10

LEMMA SetupAlreadyConnectedKeeps ==
  ASSUME IInv, SetupAlreadyConnected
  PROVE  TypeOK' /\ Settled'
<1>1. PICK q, y : q = Partner /\ y = call.about
  OBVIOUS
<1>2. /\ call.op = "active-connection" /\ verdict = "running" /\ record[first][y] = "completed"
      /\ connection_id_dict' = Stored({<<Step.by, first, y>>, <<first, Step.by, y>>})
      /\ at' = Last + 1 /\ call' = Idle
      /\ UNCHANGED <<kind, auto, agentVars, pending, store, temp_connection_id_dict, invitation, first,
                     second, scenario, verdict, runs, late, missed, begun>>
  BY <1>1 DEF SetupAlreadyConnected, Serving, Last
<1>3. /\ TypeOK /\ Agreed /\ Filed /\ Context /\ Last \in Nat \ {0} /\ first \in Agents
  BY <1>2, ServedFacts
<1>4. /\ y \in Exchanges /\ q \in Agents /\ q # first /\ Step.by = q
      /\ scenario.protocol = "did-exchange" /\ scenario.reuse /\ scenario.form = "public"
      /\ q = scenario.second /\ first = scenario.first
      /\ exchange[y].inviter = first /\ record[q][y] = "completed"
  BY <1>1, <1>2, ReusedFacts
<1>5. exchange[y].taker = q
  BY <1>3, <1>4, CompletedTaker
<1>6. /\ connection_id_dict' \in [Agents -> [Agents -> Exchanges \cup {None}]]
      /\ connection_id_dict'[q][first] = y /\ connection_id_dict'[first][q] = y
      /\ \A c, d \in Agents : \/ c = q /\ d = first
                              \/ c = first /\ d = q
                              \/ connection_id_dict'[c][d] = connection_id_dict[c][d]
  <2>1. PICK i, es : i = first /\ es = {<<q, i, y>>, <<i, q, y>>}
    OBVIOUS
  <2>2. TypeOK /\ q \in Agents /\ i \in Agents /\ q # i /\ y \in Exchanges
    BY <1>3, <1>4, <2>1
  <2>3. connection_id_dict' = Stored(es)
    BY <1>2, <1>4, <2>1
  <2>4. <<q, i, y>> \in es /\ <<i, q, y>> \in es /\ \A e1 \in es : e1 = <<q, i, y>> \/ e1 = <<i, q, y>>
    BY <2>1
  <2>5. /\ connection_id_dict' \in [Agents -> [Agents -> Exchanges \cup {None}]]
        /\ connection_id_dict'[q][i] = y /\ connection_id_dict'[i][q] = y
        /\ \A c, d \in Agents : \/ c = q /\ d = i
                                \/ c = i /\ d = q
                                \/ connection_id_dict'[c][d] = connection_id_dict[c][d]
    BY <2>2, <2>3, <2>4, StoredTwo
  <2> QED
    BY <2>1, <2>5
<1>7. TypeOK'
  <2>1. at' \in 1..(Last + 1)
    BY <1>2, <1>3
  <2>2. call' \in [op : Ops \cup {"idle"}, by : Agents \cup {None}, about : Exchanges \cup {None}]
    BY <1>2 DEF Idle
  <2> QED
    BY <1>2, <1>3, <1>6, <2>1, <2>2 DEF TypeOK, Last, agentVars
<1>8. Agreed' /\ Filed'
  BY <1>2, <1>3, SameAgents, SameWebhooks DEF agentVars
<1>9. Context'
  <2>1. ASSUME NEW c \in Agents, NEW d \in Agents, connection_id_dict'[c][d] # None
        PROVE  Knows(first, connection_id_dict'[c][d])
    <3>1. CASE (c = q /\ d = first) \/ (c = first /\ d = q)
      <4>1. Knows(first, y)
        BY <1>3, <1>4, AgentTypes DEF Knows
      <4> QED
        BY <1>6, <3>1, <4>1
    <3>2. CASE connection_id_dict'[c][d] = connection_id_dict[c][d]
      <4>1. connection_id_dict'[c][d] = connection_id_dict[c][d]
        BY <3>2
      <4>2. connection_id_dict[c][d] # None
        BY <2>1, <4>1
      <4>3. Knows(first, connection_id_dict[c][d])
        BY <1>3, <1>4, <4>2 DEF Context
      <4> QED
        BY <4>1, <4>3
    <3> QED
      BY <1>6, <3>1, <3>2
  <2> QED
    BY <1>2, <1>3, <2>1 DEF Context, agentVars, Knows
<1>10. Called' /\ FailureHasCause'
  <2>1. call'.op = "idle"
    BY <1>2 DEF Idle
  <2> QED
    BY <1>2, <2>1 DEF Called, FailureHasCause
<1>11. Turn' /\ Awaited'
  <2>1. ~(at' <= Last')
    BY <1>2, <1>3 DEF Last
  <2> QED
    BY <2>1 DEF Turn, Awaited, Underway
<1>12. Joined'
  <2>1. {Pair[1], Pair[2]} = {first, q} /\ Pair[1] \in Agents /\ Pair[2] \in Agents /\ Pair[1] # Pair[2]
    <3>1. PICK s : s = scenario.steps[Last]
      OBVIOUS
    <3>2. Between(s, first, q) /\ s.do \in Deeds
      BY <1>3, <1>4, <3>1, StepFacts DEF TypeOK
    <3>3. {s.by, s.to} = {first, q}
      BY <3>2, ByBetween
    <3> QED
      BY <1>3, <3>1, <3>3, PairFacts
  <2>2. PICK a, b : a = Pair[1] /\ b = Pair[2]
    OBVIOUS
  <2>3. \/ a = first /\ b = q
        \/ a = q /\ b = first
    BY <2>1, <2>2
  <2>4. Pair' = Pair
    BY <1>2 DEF Pair
  <2>5. connection_id_dict'[a][b] = y /\ connection_id_dict'[b][a] = y /\ y # None
    BY <1>3, <1>4, <1>6, <2>3, AgentTypes
  <2>6. {exchange'[y].inviter, exchange'[y].taker} = {a, b}
    BY <1>2, <1>4, <1>5, <2>3 DEF agentVars
  <2>7. Conn(a, y)' /\ Conn(b, y)'
    <3>1. record'[first][y] = "completed" /\ record'[q][y] = "completed"
      BY <1>2, <1>4 DEF agentVars
    <3> QED
      BY <2>3, <3>1 DEF Conn, Connected
  <2>8. scenario'.reuse
    BY <1>2, <1>4
  <2>9. Pair'[1] = a /\ Pair'[2] = b
    BY <2>2, <2>4
  <2> QED
    BY <2>5, <2>6, <2>7, <2>8, <2>9 DEF Joined
<1> QED
  BY <1>7, <1>8, <1>9, <1>10, <1>11, <1>12 DEF Settled

LEMMA NotYetActiveKeeps ==
  ASSUME IInv, NotYetActive
  PROVE  TypeOK' /\ Settled'
<1>1. /\ call.op = "active-connection" /\ verdict = "running" /\ record[first][call.about] # "completed"
      /\ Fail /\ Late
      /\ UNCHANGED <<kind, auto, agentVars, pending, store, contextVars, begun>>
  BY DEF NotYetActive, Serving
<1>2. PICK q, y : q = Partner /\ y = call.about
  OBVIOUS
<1>3. TypeOK /\ Agreed /\ at <= Last /\ first \in Agents
  BY <1>1, ServedFacts
<1>4. y \in Exchanges /\ q \in Agents /\ q # first /\ exchange[y].inviter = first /\ record[q][y] = "completed"
  BY <1>1, <1>2, ReusedFacts
<1>5. UnderWay(y)
  BY <1>1, <1>2, <1>3, <1>4, CompletedTaker
<1>6. late' /\ late' \in BOOLEAN /\ missed' \in BOOLEAN /\ (missed => missed')
  BY <1>1, <1>2, <1>3, <1>5 DEF Late, TypeOK
<1> QED
  BY <1>1, <1>3, <1>6, StillFails


\* A poll takes a webhook from its list.
LEMMA PoppedStore ==
  ASSUME TypeOK, Filed, NEW a \in Agents, NEW w \in Webhooks, Store!CanPop(store[a], w), NEW r,
         r \in {Store!pop_resource(store[a], w), Store!pop_resource_latest(store[a], w)},
         store' = [store EXCEPT ![a] = r], UNCHANGED <<exchange, pending>>
  PROVE  /\ Filed' /\ store' \in [Agents -> Store!Stores]
         /\ \A b \in Agents \ {a} : store'[b] = store[b]
<1>1. store \in [Agents -> Store!Stores] /\ store[a] \in Store!Stores
  BY DEF TypeOK
<1>2. /\ r \in Store!Stores /\ r.order = store[a].order
      /\ \A v \in Webhooks \ {w} : /\ r.list[v] = store[a].list[v]
                                   /\ Store!CanPop(r, v) <=> Store!CanPop(store[a], v)
      /\ \A k \in DOMAIN r.list[w] : \E l \in DOMAIN store[a].list[w] : r.list[w][k] = store[a].list[w][l]
  <2>1. PICK st : st = store[a]
    OBVIOUS
  <2>2. st \in Store!Stores /\ Store!CanPop(st, w)
        /\ r \in {Store!pop_resource(st, w), Store!pop_resource_latest(st, w)}
    BY <1>1, <2>1
  <2>3. /\ r \in Store!Stores /\ r.order = st.order
        /\ \A v \in Webhooks \ {w} : /\ r.list[v] = st.list[v]
                                     /\ Store!CanPop(r, v) <=> Store!CanPop(st, v)
        /\ \A k \in DOMAIN r.list[w] : \E l \in DOMAIN st.list[w] : r.list[w][k] = st.list[w][l]
    BY <2>2, PopFacts
  <2> QED
    BY <2>1, <2>3
<1>3. store'[a] = r /\ \A b \in Agents \ {a} : store'[b] = store[b]
  BY <1>1
<1>4. store' \in [Agents -> Store!Stores]
  BY <1>1, <1>2
<1>5. \A b \in Agents : store'[b].order = store[b].order
  BY <1>2, <1>3
<1>6. \A b \in Agents, v \in Webhooks : Store!CanPop(store'[b], v) => Store!CanPop(store[b], v)
  <2>1. ASSUME NEW v \in Webhooks, Store!CanPop(r, v) PROVE Store!CanPop(store[a], v)
    BY <1>2, <2>1
  <2> QED
    BY <1>3, <2>1
<1>7. \A b \in Agents : \A j : Store!Inserted(store'[b], j) <=> Store!Inserted(store[b], j)
  BY <1>5 DEF Store!Inserted
<1>8. ASSUME NEW b \in Agents, NEW v \in Webhooks
      PROVE  \A k \in DOMAIN store'[b].list[v] : store'[b].list[v][k] = v[1][1]
  <2>1. \A k \in DOMAIN store[b].list[v] : store[b].list[v][k] = v[1][1]
    BY DEF Filed
  <2>2. CASE b = a /\ v = w
    <3>1. \A k \in DOMAIN r.list[w] : r.list[w][k] = w[1][1]
      BY <1>2, <2>1, <2>2
    <3> QED
      BY <1>3, <2>2, <3>1
  <2>3. CASE b # a \/ v # w
    <3>1. store'[b].list[v] = store[b].list[v]
      BY <1>2, <1>3, <2>3
    <3> QED
      BY <2>1, <3>1
  <2> QED
    BY <2>2, <2>3
<1>9. \A b \in Agents, v \in Webhooks : Store!CanPop(store'[b], v) => Store!Inserted(store'[b], v[1])
  BY <1>6, <1>7 DEF Filed
<1>10. \A b \in Agents : \A i \in Ids : Store!Inserted(store'[b], i) => Knows(b, i[1])
  BY <1>7 DEF Filed
<1>11. \A b \in Agents : \A v \in pending[b] : Knows(b, v[1][1])
  BY DEF Filed
<1>12. Filed'
  BY <1>8, <1>9, <1>10, <1>11 DEF Filed, Knows
<1> QED
  BY <1>3, <1>4, <1>12

\* What a poll for the webhook of an invitation knows.
LEMMA InvitationPoll ==
  ASSUME IInv, verdict = "running", call.op = "invitation-webhook", NEW d, d = Step.do,
         NEW e, e = Reached.do, NEW q, q = second
  PROVE  /\ \/ d = "invite" /\ e = "invite"
            \/ d = "hear" /\ e = "ask"
         /\ scenario.protocol = "did-exchange" /\ scenario.form # "request"
         /\ call.by = first /\ call.about = invitation /\ invitation \in Exchanges /\ invitation \in begun
         /\ q \in Agents /\ q # first /\ Between(Step, first, q)
         /\ Named(e, q) /\ Stands(e, q) /\ Told(e, q)
         /\ connection_id_dict[first][q] = None
<1>1. /\ TypeOK /\ Inv /\ Called /\ Context /\ Turn /\ Awaited /\ Underway
      /\ at \in 1..Last /\ at <= Last /\ first \in Agents /\ Step.do \in Deeds
      /\ call.about \in Exchanges
  BY ServedFacts DEF Start
<1>2. call.op = OperationOf[Step.do] \/ call.op \in Follow[Step.do]
  BY <1>1, CallFacts
<1>3. d \in {"invite", "hear"}
  BY <1>1, <1>2, OpOfStep
<1>4. call.by = Step.by /\ call.about = invitation /\ connection_id_dict[Step.by][second] = None
  BY <1>1 DEF Called
<1>5. scenario.protocol = "did-exchange"
  <2>1. scenario.protocol \in Protocols /\ (scenario.protocol = "connection" => Step.do \in ConnectionDeeds)
    BY <1>1, HereFacts, ScenarioFacts DEF TypeOK
  <2> QED
    BY <1>3, <2>1 DEF Protocols, ConnectionDeeds
<1>6. Between(Step, scenario.first, scenario.second) /\ first = scenario.first /\ second = scenario.second
  BY <1>1, <1>5, HereFacts DEF Context
<1>7. Between(Step, first, q) /\ Step.by = first /\ q # first
  BY <1>3, <1>6 DEF Between, Inviting
<1>8. Started /\ (d = "invite" => e = "invite") /\ (d = "hear" => e = "ask")
  <2>1. CASE d = "invite"
    BY <1>3, <2>1 DEF Started, Begins, Reached
  <2>2. CASE d = "hear"
    <3>1. Started /\ e \in Precedes[Step.do]
      BY <1>1, <2>2, OldStage, NoIntruder DEF Firsts
    <3> QED
      BY <2>2, <3>1 DEF Precedes
  <2> QED
    BY <1>3, <2>1, <2>2
<1>9. /\ Between(Reached, first, Partner) /\ Named(e, Partner) /\ Stands(e, Partner) /\ Told(e, Partner)
      /\ invitation \in Exchanges /\ invitation \in begun /\ Partner \in Agents
  BY <1>1, <1>8, TurnFacts, ReachedFacts DEF Awaited
<1>10. Partner = q
  <2>1. CASE d = "invite"
    <3>1. Reached = Step
      BY <2>1 DEF Reached, Begins
    <3>2. Between(Step, first, Partner)
      BY <1>9, <3>1
    <3> QED
      BY <2>1, <1>7, <3>2 DEF Between, Inviting
  <2>2. CASE d = "hear"
    <3>1. Between(Step, first, Partner)
      BY <1>1, <2>2, OldStage, NoIntruder DEF Firsts
    <3> QED
      BY <2>2, <1>7, <3>1 DEF Between, Inviting
  <2> QED
    BY <1>3, <2>1, <2>2
<1>11. scenario.form # "request"
  BY <1>3, <1>8, <1>9 DEF Named
<1> QED
  BY <1>3, <1>4, <1>5, <1>7, <1>8, <1>9, <1>10, <1>11

\* The responder's id is that of the invitation.
LEMMA InvitationWebhookKeeps ==
  ASSUME IInv, InvitationWebhook
  PROVE  TypeOK' /\ Settled'
<1>1. PICK d, e, q, x : d = Step.do /\ e = Reached.do /\ q = second /\ x = call.about
  OBVIOUS
<1>2. /\ call.op = "invitation-webhook" /\ verdict = "running" /\ Done
      /\ Store!CanPop(store[call.by], BoxOf(<<x, "invitation">>))
      /\ store' = [store EXCEPT ![call.by] = Store!pop_resource(@, BoxOf(<<x, "invitation">>))]
      /\ connection_id_dict' = Stored({<<call.by, q, x>>})
      /\ UNCHANGED <<kind, auto, agentVars, pending, temp_connection_id_dict, invitation, first,
                     second, late, missed, begun>>
  BY <1>1 DEF InvitationWebhook, Serving, PopsFor
<1>3. /\ TypeOK /\ Agreed /\ Filed /\ Context
      /\ at \in 1..Last /\ at <= Last /\ first \in Agents
  BY <1>2, ServedFacts
<1>4. /\ \/ d = "invite" /\ e = "invite"
         \/ d = "hear" /\ e = "ask"
      /\ scenario.protocol = "did-exchange" /\ scenario.form # "request"
      /\ call.by = first /\ x = invitation /\ x \in Exchanges /\ x \in begun
      /\ q \in Agents /\ q # first /\ Between(Step, first, q)
      /\ Named(e, q) /\ Stands(e, q)
      /\ connection_id_dict[first][q] = None
  BY <1>1, <1>2, InvitationPoll
<1>5. Filed' /\ store' \in [Agents -> Store!Stores]
  <2>1. PICK w, a, r : w = BoxOf(<<x, "invitation">>) /\ a = first /\ r = Store!pop_resource(store[a], w)
    OBVIOUS
  <2>2. w \in Webhooks /\ a \in Agents /\ Store!CanPop(store[a], w) /\ store' = [store EXCEPT ![a] = r]
    BY <1>2, <1>3, <1>4, <2>1, WebhookParts DEF Ids
  <2>3. r \in {Store!pop_resource(store[a], w), Store!pop_resource_latest(store[a], w)}
        /\ UNCHANGED <<exchange, pending>>
    BY <1>2, <2>1 DEF agentVars
  <2> QED
    BY <1>3, <2>2, <2>3, PoppedStore
<1>6. /\ connection_id_dict' \in [Agents -> [Agents -> Exchanges \cup {None}]]
      /\ \A c, b \in Agents :
           connection_id_dict'[c][b] = IF c = first /\ b = q THEN x ELSE connection_id_dict[c][b]
  <2>1. PICK i, es : i = first /\ es = {<<i, q, x>>}
    OBVIOUS
  <2>2. TypeOK /\ q \in Agents /\ i \in Agents /\ x \in Exchanges
    BY <1>3, <1>4, <2>1
  <2>3. connection_id_dict' = Stored(es)
    BY <1>2, <1>4, <2>1
  <2>4. <<i, q, x>> \in es /\ \A e1 \in es : e1 = <<i, q, x>>
    BY <2>1
  <2>5. /\ connection_id_dict' \in [Agents -> [Agents -> Exchanges \cup {None}]]
        /\ \A c, b \in Agents :
             connection_id_dict'[c][b] = IF c = i /\ b = q THEN x ELSE connection_id_dict[c][b]
    BY <2>2, <2>3, <2>4, StoredOne
  <2> QED
    BY <2>1, <2>5
<1>7. Called' /\ FailureHasCause' /\ UNCHANGED <<scenario, verdict, runs>>
      /\ call' \in [op : Ops \cup {"idle"}, by : Agents \cup {None}, about : Exchanges \cup {None}]
  BY <1>2, <1>3, DoneCalled
<1>8. at < Last /\ at + 1 \in 1..(Last + 1) /\ at' = at + 1
  BY <1>1, <1>2, <1>3, <1>4, NotLast DEF Done
<1>9. Joined'
  BY <1>2, <1>3, <1>8, DoneJoined
<1>10. Agreed'
  BY <1>2, <1>3, SameAgents
<1>11. Context'
  <2>1. Knows(first, x)
    BY <1>3, <1>4, AgentTypes DEF Stands, Knows
  <2>2. \A c, b \in Agents : connection_id_dict'[c][b] # None => Knows(first, connection_id_dict'[c][b])
    BY <1>3, <1>4, <1>6, <2>1 DEF Context
  <2> QED
    BY <1>2, <1>3, <1>7, <2>2 DEF Context, agentVars, Knows
<1>12. connection_id_dict'[first][q] = x /\ connection_id_dict'[q][first] = connection_id_dict[q][first]
  BY <1>3, <1>4, <1>6
<1>13. Named(d, q)'
  BY <1>2, <1>4, <1>7, <1>12 DEF Named, Excused
<1>14. Stands(d, q)'
  BY <1>2, <1>4, <1>7 DEF Stands, AcceptsAlone, Excused, agentVars
<1>15. Told(d, q)'
  <2>1. call'.op = "idle" /\ x # None
    BY <1>2, <1>3, <1>4, AgentTypes DEF Done, Idle
  <2> QED
    BY <1>2, <1>4, <1>12, <2>1 DEF Told
<1>16. Turn' /\ Awaited'
  <2>1. Between(Step, first', q)
    BY <1>2, <1>4
  <2> QED
    BY <1>1, <1>2, <1>3, <1>13, <1>14, <1>15, <2>1, DoneReaches
<1>17. TypeOK'
  <2>1. UNCHANGED <<scenario, runs, verdict, record, exchange, wire>> /\ at' \in 1..(Last + 1)
    BY <1>2, <1>7, <1>8 DEF agentVars
  <2> QED
    BY <1>2, <1>3, <1>5, <1>6, <1>7, <2>1 DEF TypeOK, Last
<1> QED
  BY <1>5, <1>7, <1>9, <1>10, <1>11, <1>16, <1>17 DEF Settled

\* The webhook of the invitation is missing only while it is under way, or where no webhook
\* is keyed on the invitation.
LEMMA NoInvitationWebhookKeeps ==
  ASSUME IInv, NoInvitationWebhook
  PROVE  TypeOK' /\ Settled'
<1>1. PICK d, e, q, x : d = Step.do /\ e = Reached.do /\ q = second /\ x = call.about
  OBVIOUS
<1>2. /\ call.op = "invitation-webhook" /\ verdict = "running"
      /\ ~Store!CanPop(store[call.by], BoxOf(<<x, "invitation">>))
      /\ IF d = "hear" THEN Fail ELSE Done
      /\ LateWebhook(<<x, "invitation">>)
      /\ UNCHANGED <<kind, auto, agentVars, pending, store, contextVars, begun>>
  BY <1>1 DEF NoInvitationWebhook, Serving
<1>3. /\ TypeOK /\ Agreed /\ Filed /\ Context
      /\ at \in 1..Last /\ at <= Last /\ Last \in Nat /\ first \in Agents
  BY <1>2, ServedFacts
<1>4. /\ \/ d = "invite" /\ e = "invite"
         \/ d = "hear" /\ e = "ask"
      /\ scenario.protocol = "did-exchange" /\ scenario.form # "request"
      /\ call.by = first /\ x = invitation /\ x \in Exchanges /\ x \in begun
      /\ q \in Agents /\ q # first /\ Between(Step, first, q)
      /\ Named(e, q) /\ Stands(e, q) /\ Told(e, q)
      /\ connection_id_dict[first][q] = None
  BY <1>1, <1>2, InvitationPoll
<1>5. /\ late' = (late \/ BoxOf(<<x, "invitation">>) \in pending[first])
      /\ late' \in BOOLEAN /\ missed' \in BOOLEAN /\ missed' = missed
  BY <1>1, <1>2, <1>3, <1>4 DEF LateWebhook, TypeOK
<1>6. CASE d = "hear"
  <2>1. ASSUME exchange[x].keyed PROVE late'
    <3>1. Coming(first, <<x, "invitation">>)
      BY <1>4, <1>6, <2>1 DEF Told
    <3> QED
      BY <1>2, <1>4, <1>5, <3>1 DEF Coming, InStore
  <2>2. ASSUME ~exchange[x].keyed PROVE Unkeyed
    <3>1. scenario.form \in Forms /\ scenario.form # "connection"
      BY <1>3, <1>4, ScenarioFacts DEF TypeOK
    <3>2. scenario.form = "public"
      BY <1>4, <2>2, <3>1 DEF Stands, Forms
    <3> QED
      BY <1>1, <1>2, <2>2, <3>2 DEF Unkeyed
  <2>3. Fail
    BY <1>2, <1>6
  <2>4. late' \/ Unkeyed
    BY <2>1, <2>2
  <2> QED
    BY <1>2, <1>3, <1>5, <2>3, <2>4, StillFails
<1>7. CASE d = "invite"
  <2>1. Done /\ e = "invite"
    BY <1>2, <1>4, <1>7
  <2>2. Called' /\ FailureHasCause' /\ UNCHANGED <<scenario, verdict, runs>>
        /\ call' \in [op : Ops \cup {"idle"}, by : Agents \cup {None}, about : Exchanges \cup {None}]
    BY <1>2, <1>3, <2>1, DoneCalled
  <2>3. at < Last /\ at + 1 \in 1..(Last + 1) /\ at' = at + 1
    BY <1>1, <1>3, <1>7, <2>1, NotLast DEF Done
  <2>4. Joined'
    BY <1>3, <2>1, <2>3, DoneJoined
  <2>5. TypeOK' /\ Agreed' /\ Filed' /\ Context'
    <3>1. verdict' \in {"running", "passed", "failed"}
      BY <1>2, <2>2
    <3> QED
      BY <1>2, <1>3, <1>5, <2>2, <2>3, <3>1, StillKeeps
  <2>6. Named(d, q)'
    BY <1>2, <1>4, <1>7, <2>1, <2>2 DEF Named, contextVars
  <2>7. Stands(d, q)'
    BY <1>2, <1>4, <1>7, <2>1, <2>2 DEF Stands, AcceptsAlone, Excused, agentVars, contextVars
  <2>8. Told(d, q)'
    <3>1. call'.op = "idle"
      BY <2>1 DEF Done, Idle
    <3> QED
      BY <1>2, <1>4, <1>7, <2>1, <3>1 DEF Told, Coming, InStore, agentVars, contextVars
  <2>9. Turn' /\ Awaited'
    <3>1. Between(Step, first', q)
      BY <1>2, <1>4 DEF contextVars
    <3> QED
      BY <1>1, <1>3, <2>1, <2>6, <2>7, <2>8, <3>1, DoneReaches
  <2> QED
    BY <2>2, <2>4, <2>5, <2>9 DEF Settled
<1> QED
  BY <1>4, <1>6, <1>7


\* What a poll for the webhook of a request knows.
LEMMA RequestPoll ==
  ASSUME IInv, verdict = "running", call.op = "request-webhook", NEW d, d = Step.do,
         NEW q, q = Step.by
  PROVE  /\ d = "askPublic" /\ scenario.protocol = "did-exchange" /\ scenario.form = "request"
         /\ call.by = q /\ call.about = invitation /\ invitation \in Exchanges /\ invitation \in begun
         /\ q \in Agents /\ q # first /\ Step.to = first /\ Between(Step, first, q)
         /\ Named(d, q) /\ Stands(d, q) /\ Told(d, q)
<1>1. /\ TypeOK /\ Inv /\ Called /\ Context /\ Turn /\ Awaited /\ Underway
      /\ at \in 1..Last /\ at <= Last /\ first \in Agents /\ Step.do \in Deeds
      /\ call.about \in Exchanges
  BY ServedFacts DEF Start
<1>2. call.op = OperationOf[Step.do] \/ call.op \in Follow[Step.do]
  BY <1>1, CallFacts
<1>3. d = "askPublic"
  BY <1>1, <1>2, OpOfStep
<1>4. call.by = q /\ call.about = invitation
  BY <1>1 DEF Called
<1>5. scenario.protocol = "did-exchange"
  <2>1. scenario.protocol \in Protocols /\ (scenario.protocol = "connection" => Step.do \in ConnectionDeeds)
    BY <1>1, HereFacts, ScenarioFacts DEF TypeOK
  <2> QED
    BY <1>3, <2>1 DEF Protocols, ConnectionDeeds
<1>6. Started /\ Reached = Step
  BY DEF Started, Begins, Reached
<1>7. /\ Between(Reached, first, Partner) /\ Named(d, Partner) /\ Stands(d, Partner) /\ Told(d, Partner)
      /\ invitation \in Exchanges /\ invitation \in begun /\ Partner \in Agents /\ first # Partner
  BY <1>1, <1>6, TurnFacts, ReachedFacts DEF Awaited
<1>8. Between(Step, first, Partner)
  BY <1>6, <1>7
<1>9. Partner = q /\ Step.to = first
  BY <1>3, <1>8 DEF Between, Inviting
<1>10. scenario.form = "request"
  BY <1>3, <1>7 DEF Named
<1> QED
  BY <1>3, <1>4, <1>5, <1>7, <1>8, <1>9, <1>10

\* What the responder has been told of stands, whatever the others take.
LEMMA RequestWebhookKeeps ==
  ASSUME IInv, RequestWebhook
  PROVE  TypeOK' /\ Settled'
<1>1. PICK d, q, x : d = Step.do /\ q = Step.by /\ x = call.about
  OBVIOUS
<1>2. /\ call.op = "request-webhook" /\ verdict = "running" /\ Done
      /\ Store!CanPop(store[call.by], BoxOf(<<x, "request">>))
      /\ store' = [store EXCEPT ![call.by] = Store!pop_resource(@, BoxOf(<<x, "request">>))]
      /\ connection_id_dict' = Stored({<<call.by, Step.to, x>>})
      /\ UNCHANGED <<kind, auto, agentVars, pending, temp_connection_id_dict, invitation, first,
                     second, late, missed, begun>>
  BY <1>1 DEF RequestWebhook, Serving, PopsFor
<1>3. /\ TypeOK /\ Agreed /\ Filed /\ Context
      /\ at \in 1..Last /\ at <= Last /\ first \in Agents
  BY <1>2, ServedFacts
<1>4. /\ d = "askPublic" /\ scenario.protocol = "did-exchange" /\ scenario.form = "request"
      /\ call.by = q /\ x = invitation /\ x \in Exchanges /\ x \in begun
      /\ q \in Agents /\ q # first /\ Step.to = first /\ Between(Step, first, q)
      /\ Named(d, q) /\ Stands(d, q) /\ Told(d, q)
  BY <1>1, <1>2, RequestPoll
<1>5. Filed' /\ store' \in [Agents -> Store!Stores] /\ store'[first] = store[first]
  <2>1. PICK w, r : w = BoxOf(<<x, "request">>) /\ r = Store!pop_resource(store[q], w)
    OBVIOUS
  <2>2. w \in Webhooks /\ Store!CanPop(store[q], w) /\ store' = [store EXCEPT ![q] = r]
    BY <1>2, <1>4, <2>1, WebhookParts DEF Ids
  <2>3. r \in {Store!pop_resource(store[q], w), Store!pop_resource_latest(store[q], w)}
        /\ UNCHANGED <<exchange, pending>>
    BY <1>2, <2>1 DEF agentVars
  <2>4. Filed' /\ store' \in [Agents -> Store!Stores] /\ \A b \in Agents \ {q} : store'[b] = store[b]
    BY <1>3, <1>4, <2>2, <2>3, PoppedStore
  <2> QED
    BY <1>3, <1>4, <2>4
<1>6. /\ connection_id_dict' \in [Agents -> [Agents -> Exchanges \cup {None}]]
      /\ \A c, b \in Agents :
           connection_id_dict'[c][b] = IF c = q /\ b = first THEN x ELSE connection_id_dict[c][b]
  <2>1. PICK i, es : i = first /\ es = {<<q, i, x>>}
    OBVIOUS
  <2>2. TypeOK /\ q \in Agents /\ i \in Agents /\ x \in Exchanges
    BY <1>3, <1>4, <2>1
  <2>3. connection_id_dict' = Stored(es)
    BY <1>2, <1>4, <2>1
  <2>4. <<q, i, x>> \in es /\ \A e1 \in es : e1 = <<q, i, x>>
    BY <2>1
  <2>5. /\ connection_id_dict' \in [Agents -> [Agents -> Exchanges \cup {None}]]
        /\ \A c, b \in Agents :
             connection_id_dict'[c][b] = IF c = q /\ b = i THEN x ELSE connection_id_dict[c][b]
    BY <2>2, <2>3, <2>4, StoredOne
  <2> QED
    BY <2>1, <2>5
<1>7. Called' /\ FailureHasCause' /\ UNCHANGED <<scenario, verdict, runs>>
      /\ call' \in [op : Ops \cup {"idle"}, by : Agents \cup {None}, about : Exchanges \cup {None}]
  BY <1>2, <1>3, DoneCalled
<1>8. at < Last /\ at + 1 \in 1..(Last + 1) /\ at' = at + 1
  BY <1>1, <1>2, <1>3, <1>4, NotLast DEF Done
<1>9. Joined'
  BY <1>2, <1>3, <1>8, DoneJoined
<1>10. Agreed'
  BY <1>2, <1>3, SameAgents
<1>11. Context'
  <2>1. Knows(first, x)
    BY <1>3, <1>4, AgentTypes DEF Stands, Knows
  <2>2. \A c, b \in Agents : connection_id_dict'[c][b] # None => Knows(first, connection_id_dict'[c][b])
    BY <1>3, <1>4, <1>6, <2>1 DEF Context
  <2> QED
    BY <1>2, <1>3, <1>7, <2>2 DEF Context, agentVars, Knows
<1>12. connection_id_dict'[q][first] = x
  BY <1>3, <1>4, <1>6
<1>13. Named(d, q)'
  BY <1>2, <1>4, <1>7, <1>12 DEF Named
<1>14. Stands(d, q)'
  BY <1>2, <1>4, <1>7 DEF Stands, AcceptsAlone, Excused, agentVars
<1>15. Told(d, q)'
  <2>1. call'.op = "idle"
    BY <1>2 DEF Done, Idle
  <2> QED
    BY <1>2, <1>4, <1>5, <2>1 DEF Told, Coming, InStore, agentVars
<1>16. Turn' /\ Awaited'
  <2>1. Between(Step, first', q)
    BY <1>2, <1>4
  <2> QED
    BY <1>1, <1>2, <1>3, <1>13, <1>14, <1>15, <2>1, DoneReaches
<1>17. TypeOK'
  <2>1. UNCHANGED <<scenario, runs, verdict, record, exchange, wire>> /\ at' \in 1..(Last + 1)
    BY <1>2, <1>7, <1>8 DEF agentVars
  <2> QED
    BY <1>2, <1>3, <1>5, <1>6, <1>7, <2>1 DEF TypeOK, Last
<1> QED
  BY <1>5, <1>7, <1>9, <1>10, <1>11, <1>16, <1>17 DEF Settled

\* The webhook of the request is under way when the poll ends without it.
LEMMA NoRequestWebhookKeeps ==
  ASSUME IInv, NoRequestWebhook
  PROVE  TypeOK' /\ Settled'
<1>1. PICK d, q, x : d = Step.do /\ q = Step.by /\ x = call.about
  OBVIOUS
<1>2. /\ call.op = "request-webhook" /\ verdict = "running" /\ Done /\ LateWebhook(<<x, "request">>)
      /\ ~Store!CanPop(store[call.by], BoxOf(<<x, "request">>))
      /\ UNCHANGED <<kind, auto, agentVars, pending, store, contextVars, begun>>
  BY <1>1 DEF NoRequestWebhook, Serving
<1>3. /\ TypeOK /\ Agreed /\ Filed /\ Context
      /\ at \in 1..Last /\ at <= Last /\ Last \in Nat /\ first \in Agents
  BY <1>2, ServedFacts
<1>4. /\ d = "askPublic" /\ scenario.protocol = "did-exchange" /\ scenario.form = "request"
      /\ call.by = q /\ x = invitation /\ x \in Exchanges /\ x \in begun
      /\ q \in Agents /\ q # first /\ Step.to = first /\ Between(Step, first, q)
      /\ Named(d, q) /\ Stands(d, q) /\ Told(d, q)
  BY <1>1, <1>2, RequestPoll
<1>5. late' /\ late' \in BOOLEAN /\ missed' \in BOOLEAN /\ missed' = missed
  <2>1. Coming(q, <<x, "request">>)
    BY <1>2, <1>4 DEF Told
  <2>2. BoxOf(<<x, "request">>) \in pending[q]
    BY <1>2, <1>4, <2>1 DEF Coming, InStore
  <2> QED
    BY <1>2, <1>3, <1>4, <2>2 DEF LateWebhook, TypeOK
<1>6. Called' /\ FailureHasCause' /\ UNCHANGED <<scenario, verdict, runs>>
      /\ call' \in [op : Ops \cup {"idle"}, by : Agents \cup {None}, about : Exchanges \cup {None}]
  BY <1>2, <1>3, DoneCalled
<1>7. at < Last /\ at + 1 \in 1..(Last + 1) /\ at' = at + 1
  BY <1>1, <1>2, <1>3, <1>4, NotLast DEF Done
<1>8. Joined'
  BY <1>2, <1>3, <1>7, DoneJoined
<1>9. TypeOK' /\ Agreed' /\ Filed' /\ Context'
  <2>1. verdict' \in {"running", "passed", "failed"}
    BY <1>2, <1>6
  <2> QED
    BY <1>2, <1>3, <1>5, <1>6, <1>7, <2>1, StillKeeps
<1>10. Named(d, q)'
  BY <1>2, <1>4, <1>5, <1>6 DEF Named, contextVars
<1>11. Stands(d, q)'
  BY <1>2, <1>4, <1>5, <1>6 DEF Stands, AcceptsAlone, Excused, agentVars, contextVars
<1>12. Told(d, q)'
  <2>1. call'.op = "idle"
    BY <1>2 DEF Done, Idle
  <2> QED
    BY <1>2, <1>4, <1>5, <2>1 DEF Told, Coming, InStore, agentVars, contextVars
<1>13. Turn' /\ Awaited'
  <2>1. Between(Step, first', q)
    BY <1>2, <1>4 DEF contextVars
  <2> QED
    BY <1>1, <1>2, <1>3, <1>10, <1>11, <1>12, <2>1, DoneReaches
<1> QED
  BY <1>6, <1>8, <1>9, <1>13 DEF Settled


\* What a look for the webhook that came last knows.
LEMMA LatestPoll ==
  ASSUME IInv, verdict = "running", call.op \in {"latest-webhook", "connection-webhook"},
         NEW q, q = Partner
  PROVE  /\ Step.do = "hearPublic" /\ scenario.protocol = "did-exchange" /\ scenario.form = "request"
         /\ call.by = first /\ call.about = invitation /\ invitation \in Exchanges /\ invitation \in begun
         /\ q \in Agents /\ q # first /\ q = second /\ first \in Responders /\ Between(Step, first, q)
         /\ Named("askPublic", q) /\ Stands("askPublic", q) /\ Told("askPublic", q)
         /\ Started /\ ~Begins /\ Reached.do = "askPublic" /\ Between(Reached, first, q)
         /\ call.op = "connection-webhook" => missed
<1>1. /\ TypeOK /\ Inv /\ Called /\ Context /\ Turn /\ Awaited /\ Underway
      /\ at \in 1..Last /\ at <= Last /\ first \in Agents /\ Step.do \in Deeds
  BY ServedFacts
<1>2. PICK d, e : d = Step.do /\ e = Reached.do
  OBVIOUS
<1>3. /\ call.op = OperationOf[Step.do] \/ call.op \in Follow[Step.do]
      /\ call.op = OperationOf[Step.do] => call.by = Step.by /\ call.about = IdFor(Step)
  BY <1>1, CallFacts
<1>4. d = "hearPublic"
  BY <1>1, <1>2, <1>3, OpOfStep
<1>5. scenario.protocol = "did-exchange"
  <2>1. scenario.protocol \in Protocols /\ (scenario.protocol = "connection" => Step.do \in ConnectionDeeds)
    BY <1>1, HereFacts, ScenarioFacts DEF TypeOK
  <2> QED
    BY <1>2, <1>4, <2>1 DEF Protocols, ConnectionDeeds
<1>6. /\ e \in Precedes[d] /\ Between(Step, first, q) /\ Named(e, q) /\ Stands(e, q) /\ Started
      /\ q \in Agents /\ q # first /\ invitation \in Exchanges /\ invitation \in begun
      /\ ~Begins /\ Between(Reached, first, q)
  BY <1>1, <1>2, <1>4, OldStage, NoIntruder DEF Firsts
<1>7. e = "askPublic"
  BY <1>4, <1>6 DEF Precedes
<1>8. Told(e, q)
  BY <1>1, <1>2, <1>6 DEF Awaited
<1>9. call.by = first /\ call.about = invitation
  <2>1. CASE call.op = "connection-webhook"
    BY <1>1, <2>1 DEF Called
  <2>2. CASE call.op = "latest-webhook"
    <3>1. call.by = Step.by /\ call.about = IdFor(Step)
      BY <1>1, <2>2, ServedFacts
    <3> QED
      BY <1>2, <1>4, <1>6, <3>1 DEF Between, Inviting, IdFor
  <2> QED
    BY <2>1, <2>2
<1>10. q = second /\ first \in Responders
  BY <1>1, <1>5, <1>6, DidPartner
<1>11. scenario.form = "request"
  BY <1>6, <1>7 DEF Named
<1>12. call.op = "connection-webhook" => missed
  BY <1>1 DEF Called
<1> QED
  BY <1>2, <1>4, <1>5, <1>6, <1>7, <1>8, <1>9, <1>10, <1>11, <1>12

\* The webhook that came last tells of an exchange this responder knows: the one begun, or
\* an older one, which missed remembers.
LEMMA LatestWebhookKeeps ==
  ASSUME IInv, LatestWebhook \/ LatestConnectionWebhook
  PROVE  TypeOK' /\ Settled'
<1>0. PICK type \in {"didexchange-msg", "connection-msg"} :
        /\ PopsLatest(type) /\ verdict = "running"
        /\ call.op \in {"latest-webhook", "connection-webhook"}
  BY DEF LatestWebhook, LatestConnectionWebhook, Serving
<1>1. PICK q, x, f, b, y : /\ q = Partner /\ x = call.about /\ f = first
                           /\ b = Store!LatestBox(store[call.by], type)
                           /\ y = Store!PoppedTail(store[call.by], b)
  OBVIOUS
<1>2. /\ Done
      /\ ~Store!LatestRaises(store[call.by])
      /\ Store!CanPop(store[call.by], b)
      /\ store' = [store EXCEPT ![call.by] = Store!pop_resource_latest(@, b)]
      /\ connection_id_dict' = Stored({<<call.by, second, y>>})
      /\ missed' = (missed \/ y # x)
      /\ UNCHANGED <<kind, auto, agentVars, pending, temp_connection_id_dict, invitation, first,
                     second, late, begun>>
  BY <1>0, <1>1 DEF PopsLatest
<1>3. /\ TypeOK /\ Agreed /\ Filed /\ Context
      /\ at \in 1..Last /\ at <= Last /\ first \in Agents
  BY <1>0, ServedFacts
<1>4. /\ Step.do = "hearPublic" /\ scenario.protocol = "did-exchange" /\ scenario.form = "request"
      /\ call.by = first /\ x = invitation /\ x \in Exchanges /\ x \in begun
      /\ q \in Agents /\ q # first /\ q = second /\ first \in Responders /\ Between(Step, first, q)
      /\ Named("askPublic", q) /\ Stands("askPublic", q)
  BY <1>0, <1>1, LatestPoll
<1>5. PICK i, st : st = store[f] /\ i = st.order[Len(st.order)]
  OBVIOUS
<1>6. i \in Ids /\ b \in Webhooks /\ b[1] = i /\ st \in Store!Stores /\ Store!CanPop(store[f], b)
      /\ f \in Agents /\ call.by = f
  <2>1. st \in Store!Stores /\ f \in Agents /\ call.by = f
    BY <1>1, <1>3, <1>4, <1>5 DEF TypeOK
  <2>2. st.order \in Seq(Ids) /\ st.order # <<>>
    BY <1>2, <1>5, <2>1, StoreParts DEF Store!LatestRaises
  <2>3. i \in Ids
    BY <1>5, <2>2
  <2>4. b = <<i, type>>
    BY <1>1, <1>5, <2>1 DEF Store!LatestBox
  <2>5. b \in Webhooks
    BY <2>3, <2>4 DEF Webhooks, Store!Boxes
  <2> QED
    BY <1>2, <1>5, <2>1, <2>3, <2>4, <2>5
<1>7. y = i[1] /\ y \in Exchanges
  <2>1. PICK r : r = Store!pop_resource_latest(st, b)
    OBVIOUS
  <2>2. Len(st.list[b]) \in DOMAIN st.list[b]
    BY <1>5, <1>6, <2>1, PopFacts
  <2>3. \A j \in DOMAIN st.list[b] : st.list[b][j] = b[1][1]
    BY <1>3, <1>5, <1>6 DEF Filed
  <2>4. y = st.list[b][Len(st.list[b])]
    BY <1>1, <1>5, <1>6 DEF Store!PoppedTail
  <2> QED
    BY <1>6, <2>2, <2>3, <2>4 DEF Ids
<1>8. Knows(first, y)
  <2>1. Store!Inserted(store[f], i)
    BY <1>3, <1>6 DEF Filed
  <2> QED
    BY <1>1, <1>3, <1>6, <1>7, <2>1 DEF Filed
<1>9. Filed' /\ store' \in [Agents -> Store!Stores]
  <2>1. PICK r : r = Store!pop_resource_latest(store[f], b)
    OBVIOUS
  <2>2. store' = [store EXCEPT ![f] = r] /\ UNCHANGED <<exchange, pending>>
        /\ r \in {Store!pop_resource(store[f], b), Store!pop_resource_latest(store[f], b)}
    BY <1>2, <1>6, <2>1 DEF agentVars
  <2> QED
    BY <1>3, <1>6, <2>2, PoppedStore
<1>10. /\ connection_id_dict' \in [Agents -> [Agents -> Exchanges \cup {None}]]
       /\ \A c, d \in Agents :
            connection_id_dict'[c][d] = IF c = f /\ d = q THEN y ELSE connection_id_dict[c][d]
  <2>1. PICK es : es = {<<f, q, y>>}
    OBVIOUS
  <2>2. connection_id_dict' = Stored(es)
    BY <1>2, <1>4, <1>6, <2>1
  <2>3. <<f, q, y>> \in es /\ \A e1 \in es : e1 = <<f, q, y>>
    BY <2>1
  <2> QED
    BY <1>3, <1>4, <1>6, <1>7, <2>2, <2>3, StoredOne
<1>11. Called' /\ FailureHasCause' /\ UNCHANGED <<scenario, verdict, runs>>
       /\ call' \in [op : Ops \cup {"idle"}, by : Agents \cup {None}, about : Exchanges \cup {None}]
  BY <1>0, <1>2, <1>3, DoneCalled
<1>12. at < Last /\ at + 1 \in 1..(Last + 1) /\ at' = at + 1
  BY <1>2, <1>3, <1>4, NotLast DEF Done
<1>13. Joined'
  BY <1>2, <1>3, <1>12, DoneJoined
<1>14. Agreed'
  BY <1>2, <1>3, SameAgents
<1>15. Context'
  <2>1. \A c, d \in Agents : connection_id_dict'[c][d] # None => Knows(first, connection_id_dict'[c][d])
    BY <1>3, <1>4, <1>8, <1>10 DEF Context
  <2> QED
    BY <1>2, <1>3, <1>11, <2>1 DEF Context, agentVars, Knows
<1>16. connection_id_dict'[first][q] = y /\ connection_id_dict'[q][first] = connection_id_dict[q][first]
  BY <1>1, <1>3, <1>4, <1>10
<1>17. missed' \in BOOLEAN /\ (missed => missed') /\ (y = x \/ missed')
  BY <1>2, <1>3 DEF TypeOK
<1>18. PICK d : d = "hearPublic"
  OBVIOUS
<1>19. Named(d, q)'
  BY <1>0, <1>2, <1>4, <1>11, <1>16, <1>17, <1>18 DEF Named, Excused
<1>20. Stands(d, q)'
  BY <1>2, <1>4, <1>11, <1>17, <1>18 DEF Stands, AcceptsAlone, Excused, agentVars
<1>21. Told(d, q)'
  <2>1. call'.op = "idle"
    BY <1>2 DEF Done, Idle
  <2> QED
    BY <1>18, <2>1 DEF Told
<1>22. Turn' /\ Awaited'
  <2>1. Between(Step, first', q) /\ Step.do = d
    BY <1>2, <1>4, <1>18
  <2> QED
    BY <1>2, <1>3, <1>19, <1>20, <1>21, <2>1, DoneReaches
<1>23. TypeOK'
  <2>1. UNCHANGED <<scenario, runs, verdict, record, exchange, wire>> /\ at' \in 1..(Last + 1)
    BY <1>2, <1>11, <1>12 DEF agentVars
  <2> QED
    BY <1>2, <1>3, <1>9, <1>10, <1>11, <1>17, <2>1 DEF TypeOK, Last
<1> QED
  BY <1>9, <1>11, <1>13, <1>14, <1>15, <1>22, <1>23 DEF Settled

\* Where the first look finds nothing, the webhook of the request is still to come, or it
\* is in the store behind another id.
LEMMA FirstLookFailsKeeps ==
  ASSUME IInv, FirstLookFails
  PROVE  TypeOK' /\ Settled'
<1>1. PICK q, x, f : q = Partner /\ x = call.about /\ f = first
  OBVIOUS
<1>2. /\ call.op = "latest-webhook" /\ verdict = "running"
      /\ Fail \/ Then("connection-webhook", call.by, x)
      /\ missed' = (missed \/ Unseen(call.by, x))
      /\ UNCHANGED <<kind, auto, agentVars, pending, store, contextVars, late, begun>>
  BY <1>1 DEF FirstLookFails, Serving
<1>3. /\ TypeOK /\ Agreed /\ Filed /\ Context
      /\ at \in 1..Last /\ at <= Last /\ Last \in Nat /\ first \in Agents
  BY <1>2, ServedFacts
<1>4. /\ Step.do = "hearPublic" /\ scenario.form = "request"
      /\ call.by = first /\ x = invitation /\ x \in Exchanges /\ x \in begun
      /\ q \in Agents /\ q # first
      /\ Named("askPublic", q) /\ Stands("askPublic", q) /\ Told("askPublic", q)
      /\ Started /\ ~Begins /\ Reached.do = "askPublic" /\ Between(Reached, first, q)
  BY <1>1, <1>2, LatestPoll
<1>5. missed \/ Unseen(f, x)
  <2>1. AgreedOn(x) /\ exchange[x].inviter = first /\ first # None /\ record[q][x] \in Moved
    BY <1>3, <1>4, AgentTypes DEF Agreed, Stands
  <2>2. CASE exchange[x].taker = None
    <3>1. Open(x)
      BY <2>1, <2>2 DEF AgreedOn
    <3>2. Message("request", q, first, x) \in wire
      BY <1>4, <2>1, <3>1 DEF Open, Moved
    <3> QED
      BY <3>2, MessageFields DEF Unseen
  <2>3. CASE exchange[x].taker # None
    <3>1. missed \/ Coming(first, <<x, "request">>)
      BY <1>4, <2>3 DEF Told
    <3> QED
      BY <1>1, <3>1 DEF Unseen, Coming, InStore
  <2> QED
    BY <2>2, <2>3
<1>6. missed' /\ missed' \in BOOLEAN /\ late' \in BOOLEAN
  BY <1>1, <1>2, <1>3, <1>4, <1>5 DEF TypeOK
<1>7. CASE Fail
  BY <1>2, <1>3, <1>6, <1>7, StillFails
<1>8. CASE Then("connection-webhook", call.by, x)
  <2>1. /\ call' = [op |-> "connection-webhook", by |-> f, about |-> x]
        /\ UNCHANGED <<scenario, at, verdict, runs>>
        /\ f \in Agents /\ x # None
    BY <1>1, <1>3, <1>4, <1>8, AgentTypes DEF Then, runVars
  <2>2. call' \in [op : Ops \cup {"idle"}, by : Agents \cup {None}, about : Exchanges \cup {None}]
    BY <1>4, <2>1 DEF Ops
  <2>3. Step' = Step /\ Last' = Last /\ UNCHANGED <<invitation, first, connection_id_dict, temp_connection_id_dict>>
    BY <1>2, <2>1 DEF Step, Last, contextVars
  <2>4. TypeOK' /\ Agreed' /\ Filed' /\ Context'
    <3>1. at' \in 1..(Last + 1) /\ verdict' \in {"running", "passed", "failed"}
      BY <1>2, <1>3, <2>1
    <3> QED
      BY <1>2, <1>3, <1>6, <2>1, <2>2, <3>1, StillKeeps
  <2>5. Called'
    <3>1. ~Lacking(Step)'
      BY <1>4, <2>3 DEF Lacking
    <3>2. "connection-webhook" \in Follow[Step'.do] /\ "connection-webhook" \notin Start
      BY <1>4, <2>3 DEF Follow, Start
    <3>3. call'.by = first' /\ call'.about = invitation' /\ verdict' = "running"
      BY <1>1, <1>2, <1>4, <2>1, <2>3
    <3> QED
      BY <1>6, <2>1, <3>1, <3>2, <3>3 DEF Called
  <2>6. Turn' /\ Awaited'
    <3>1. PICK d, s : d = "askPublic" /\ s = Reached
      OBVIOUS
    <3>2. ~Begins'
      BY <2>1 DEF Begins
    <3>3. Started' /\ Reached' = s
      BY <1>4, <2>1, <3>1, <3>2 DEF Started, Reached
    <3>4. Named(d, q)'
      BY <1>2, <1>4, <2>1, <2>3, <3>1 DEF Named
    <3>5. Stands(d, q)'
      BY <1>2, <1>4, <1>6, <2>1, <2>3, <3>1 DEF Stands, Excused, AcceptsAlone, agentVars
    <3>6. Told(d, q)'
      BY <1>6, <2>1, <3>1 DEF Told
    <3>7. s.do = d /\ d \in Deeds /\ Between(s, first', q)
      BY <1>4, <2>3, <3>1 DEF Deeds
    <3> QED
      BY <3>3, <3>4, <3>5, <3>6, <3>7, Reaches
  <2>7. Joined'
    BY <1>3, <2>1, <2>3 DEF Joined
  <2>8. FailureHasCause'
    BY <1>2, <2>1 DEF FailureHasCause
  <2> QED
    BY <2>4, <2>5, <2>6, <2>7, <2>8 DEF Settled
<1> QED
  BY <1>2, <1>7, <1>8

\* After that the webhook is not looked for any more.
LEMMA NoLatestWebhookKeeps ==
  ASSUME IInv, NoLatestWebhook
  PROVE  TypeOK' /\ Settled'
<1>1. PICK q, x : q = Partner /\ x = call.about
  OBVIOUS
<1>2. /\ call.op = "connection-webhook" /\ verdict = "running" /\ Done
      /\ UNCHANGED <<kind, auto, agentVars, pending, store, contextVars, late, missed, begun>>
  BY DEF NoLatestWebhook, Serving
<1>3. /\ TypeOK /\ Agreed /\ Filed /\ Context
      /\ at \in 1..Last /\ at <= Last /\ Last \in Nat /\ first \in Agents
  BY <1>2, ServedFacts
<1>4. /\ Step.do = "hearPublic" /\ scenario.form = "request" /\ missed
      /\ x = invitation /\ x \in Exchanges /\ x \in begun
      /\ q \in Agents /\ q # first /\ Between(Step, first, q)
      /\ Named("askPublic", q) /\ Stands("askPublic", q)
  BY <1>1, <1>2, LatestPoll
<1>5. Called' /\ FailureHasCause' /\ UNCHANGED <<scenario, verdict, runs>>
      /\ call' \in [op : Ops \cup {"idle"}, by : Agents \cup {None}, about : Exchanges \cup {None}]
  BY <1>2, <1>3, DoneCalled
<1>6. at < Last /\ at + 1 \in 1..(Last + 1) /\ at' = at + 1
  BY <1>2, <1>3, <1>4, NotLast DEF Done
<1>7. Joined'
  BY <1>2, <1>3, <1>6, DoneJoined
<1>8. TypeOK' /\ Agreed' /\ Filed' /\ Context'
  <2>1. verdict' \in {"running", "passed", "failed"} /\ late' \in BOOLEAN /\ missed' \in BOOLEAN
    BY <1>2, <1>3, <1>5 DEF TypeOK
  <2> QED
    BY <1>2, <1>3, <1>5, <1>6, <2>1, StillKeeps
<1>9. PICK d : d = "hearPublic"
  OBVIOUS
<1>10. Named(d, q)'
  BY <1>2, <1>4, <1>5, <1>9 DEF Named, Excused, contextVars
<1>11. Stands(d, q)'
  BY <1>2, <1>4, <1>5, <1>9 DEF Stands, AcceptsAlone, Excused, agentVars, contextVars
<1>12. Told(d, q)'
  <2>1. call'.op = "idle"
    BY <1>2 DEF Done, Idle
  <2> QED
    BY <1>9, <2>1 DEF Told
<1>13. Turn' /\ Awaited'
  <2>1. Between(Step, first', q) /\ Step.do = d
    BY <1>2, <1>4, <1>9 DEF contextVars
  <2> QED
    BY <1>2, <1>3, <1>10, <1>11, <1>12, <2>1, DoneReaches
<1> QED
  BY <1>5, <1>7, <1>8, <1>13 DEF Settled


----------------------------------------------------------------------------
(* The beginning of a scenario.                                            *)

Anew ==
  /\ scenario \in Scenarios
  /\ connection_id_dict = [a \in Agents |-> [b \in Agents |-> None]]
  /\ temp_connection_id_dict = [a \in Agents |-> None]
  /\ invitation = None
  /\ first = scenario.first /\ second = scenario.second
  /\ at = 1 /\ verdict = "running" /\ call = Idle
  /\ late = FALSE /\ missed = FALSE /\ begun = {}
  /\ scenario.protocol = "did-exchange" => \A a \in Agents : kind[a] = "acapy"

\* What of the invariant is about the scenario.
Placing ==
  /\ Called /\ Context /\ Turn /\ Joined /\ Awaited /\ FailureHasCause
  /\ at \in 1..(Len(scenario.steps) + 1)
  /\ call \in [op : Ops \cup {"idle"}, by : Agents \cup {None}, about : Exchanges \cup {None}]
  /\ connection_id_dict \in [Agents -> [Agents -> Exchanges \cup {None}]]
  /\ temp_connection_id_dict \in [Agents -> Exchanges \cup {None}]
  /\ invitation \in Exchanges \cup {None}
  /\ first \in Agents \cup {None} /\ second \in Agents \cup {None}
  /\ begun \subseteq Exchanges

LEMMA AnewPlacing == Anew => Placing
<1> SUFFICES ASSUME Anew PROVE Placing
  OBVIOUS
<1>1. /\ Last \in Nat \ {0} /\ scenario.first \in Agents /\ scenario.second \in Agents \cup {None}
  BY ScenarioFacts DEF Anew
<1>2. at = 1 /\ at <= Last /\ ~(at > Last)
  BY <1>1 DEF Anew
<1>3. call.op = "idle" /\ call.about = None /\ verdict = "running"
      /\ call \in [op : Ops \cup {"idle"}, by : Agents \cup {None}, about : Exchanges \cup {None}]
  BY DEF Anew, Idle
<1>4. \A a, b \in Agents : connection_id_dict[a][b] = None
  BY DEF Anew
<1>5. \A a \in Agents : temp_connection_id_dict[a] = None
  BY DEF Anew
<1>6. Called /\ FailureHasCause
  BY <1>2, <1>3 DEF Called, FailureHasCause
<1>7. Context
  BY <1>4 DEF Context, Anew
<1>8. ~Started
  BY <1>2, <1>3 DEF Started, Begins
<1>9. Turn /\ Awaited
  BY <1>4, <1>5, <1>8 DEF Turn, Awaited
<1>10. Joined
  BY <1>2 DEF Joined
<1>11. connection_id_dict \in [Agents -> [Agents -> Exchanges \cup {None}]]
  BY DEF Anew
<1>12. temp_connection_id_dict \in [Agents -> Exchanges \cup {None}]
       /\ invitation \in Exchanges \cup {None} /\ begun \subseteq Exchanges
       /\ first \in Agents \cup {None} /\ second \in Agents \cup {None}
  BY <1>1 DEF Anew
<1>13. at \in 1..(Len(scenario.steps) + 1)
  BY <1>1, <1>2 DEF Last
<1> QED
  BY <1>3, <1>6, <1>7, <1>9, <1>10, <1>11, <1>12, <1>13 DEF Placing

LEMMA AnewPlacingNext == Anew' => Placing'
BY AnewPlacing, PTL

LEMMA NextScenarioKeeps ==
  ASSUME IInv, NextScenario
  PROVE  TypeOK' /\ Settled'
<1>1. PICK s \in Scenarios : Possible(s) /\ Starts(s)
  BY DEF NextScenario
<1>2. runs < MaxRuns /\ runs' = runs + 1 /\ UNCHANGED <<kind, auto, agentVars, pending, store>>
  BY DEF NextScenario
<1>3. TypeOK /\ Agreed /\ Filed
  BY DEF IInv
<1>4. Anew'
  BY <1>1, <1>2 DEF Anew, Starts, Possible, Idle
<1>5. Placing'
  BY <1>4, AnewPlacingNext
<1>6. Agreed' /\ Filed'
  BY <1>2, <1>3, SameAgents, SameWebhooks DEF agentVars
<1>7. runs' \in 0..MaxRuns
  BY <1>2, <1>3, ConnectionsAssumption DEF TypeOK
<1>8. TypeOK'
  <2>1. scenario' \in Scenarios /\ verdict' = "running" /\ late' = FALSE /\ missed' = FALSE
    BY <1>1 DEF Starts
  <2>2. UNCHANGED <<kind, auto, record, exchange, wire, pending, store>>
    BY <1>2 DEF agentVars
  <2>3. /\ at' \in 1..(Len(scenario'.steps) + 1)
        /\ call' \in [op : Ops \cup {"idle"}, by : Agents \cup {None}, about : Exchanges \cup {None}]
        /\ connection_id_dict' \in [Agents -> [Agents -> Exchanges \cup {None}]]
        /\ temp_connection_id_dict' \in [Agents -> Exchanges \cup {None}]
        /\ invitation' \in Exchanges \cup {None}
        /\ first' \in Agents \cup {None} /\ second' \in Agents \cup {None}
        /\ begun' \subseteq Exchanges
    BY <1>5 DEF Placing
  <2> QED
    BY <1>3, <1>7, <2>1, <2>2, <2>3 DEF TypeOK
<1> QED
  BY <1>5, <1>6, <1>8 DEF Settled, Placing

LEMMA InitKeeps == Init => TypeOK /\ Settled
<1> SUFFICES ASSUME Init PROVE TypeOK /\ Settled
  OBVIOUS
<1>1. /\ record = [a \in Agents |-> [x \in Exchanges |-> "none"]]
      /\ exchange = [x \in Exchanges |-> NoExchange]
      /\ wire = {}
      /\ pending = [a \in Agents |-> {}]
      /\ store = [a \in Agents |-> Store!EmptyStore]
      /\ runs = 1
  BY DEF Init
<1>2. Anew
  BY DEF Init, Anew, Possible
<1>3. Placing
  BY <1>2, AnewPlacing
<1>4. Agreed
  BY <1>1 DEF Agreed, AgreedOn, Untouched, NoExchange
<1>5. Store!EmptyStore \in Store!Stores
  <2>1. <<>> \in Seq(Ids) /\ <<>> \in Seq(Exchanges)
    OBVIOUS
  <2>2. [b \in Store!Boxes |-> <<>>] \in [Store!Boxes -> Seq(Exchanges)]
    BY <2>1
  <2> QED
    BY <2>1, <2>2 DEF Store!EmptyStore, Store!Stores
<1>6. Filed
  <2>1. \A a \in Agents : /\ store[a].order = <<>> /\ store[a].has = {}
                          /\ \A w \in Webhooks : store[a].list[w] = <<>>
    BY <1>1 DEF Store!EmptyStore, Webhooks
  <2>2. ASSUME NEW a \in Agents
        PROVE  /\ \A w \in Webhooks : \A j \in DOMAIN store[a].list[w] : store[a].list[w][j] = w[1][1]
               /\ \A w \in pending[a] : Knows(a, w[1][1])
               /\ \A i \in Ids : Store!Inserted(store[a], i) => Knows(a, i[1])
               /\ \A w \in Webhooks : Store!CanPop(store[a], w) => Store!Inserted(store[a], w[1])
    <3>1. DOMAIN <<>> = {}
      OBVIOUS
    <3> QED
      BY <1>1, <2>1, <3>1 DEF Store!CanPop, Store!Inserted
  <2> QED
    BY <2>2 DEF Filed
<1>7. TypeOK
  <2>1. kind \in [Agents -> {"acapy", "credo"}] /\ auto \in BOOLEAN /\ scenario \in Scenarios
    BY DEF Init
  <2>2. record \in [Agents -> [Exchanges -> States]] /\ wire \subseteq Messages
        /\ pending \in [Agents -> SUBSET Webhooks] /\ store \in [Agents -> Store!Stores]
    BY <1>1, <1>5 DEF States
  <2>3. exchange \in [Exchanges -> [form : Forms, inviter : Agents \cup {None}, taker : Agents \cup {None}, keyed : BOOLEAN]]
    BY <1>1 DEF NoExchange, Forms
  <2>4. verdict \in {"running", "passed", "failed"} /\ late \in BOOLEAN /\ missed \in BOOLEAN
    BY <1>2 DEF Anew
  <2>5. runs \in 0..MaxRuns
    BY <1>1, ConnectionsAssumption
  <2>6. /\ at \in 1..(Len(scenario.steps) + 1)
        /\ call \in [op : Ops \cup {"idle"}, by : Agents \cup {None}, about : Exchanges \cup {None}]
        /\ connection_id_dict \in [Agents -> [Agents -> Exchanges \cup {None}]]
        /\ temp_connection_id_dict \in [Agents -> Exchanges \cup {None}]
        /\ invitation \in Exchanges \cup {None}
        /\ first \in Agents \cup {None} /\ second \in Agents \cup {None}
        /\ begun \subseteq Exchanges
    BY <1>3 DEF Placing
  <2> QED
    BY <2>1, <2>2, <2>3, <2>4, <2>5, <2>6 DEF TypeOK
<1> QED
  BY <1>3, <1>4, <1>6, <1>7 DEF Settled, Placing


----------------------------------------------------------------------------
(* The invariant, and what it says.                                        *)

LEMMA IInvStep ==
  ASSUME IInv, [Next]_vars
  PROVE  IInv'
<1>1. Inv'
  BY InvStep DEF IInv
<1>2. CASE FileWebhook \/ Deliver \/ UNCHANGED vars
  BY <1>1, <1>2, EnvironmentStep DEF IInv, Settled
<1>3. CASE NextScenario
  BY <1>1, <1>3, NextScenarioKeeps DEF IInv, Settled
<1>4. CASE Harness
  <2>1. TypeOK' /\ Settled'
    BY <1>4, BeginKeeps, PassKeeps, SucceedKeeps, MissingIdKeeps, InviterIdMissingKeeps,
       LookKeeps, LookFailsKeeps DEF Harness
  <2> QED
    BY <1>1, <2>1 DEF IInv, Settled
<1>5. CASE Served
  <2>1. TypeOK' /\ Settled'
    BY <1>5, CreateInvitationKeeps, ReceiveInvitationKeeps, PostKeeps, RefusedKeeps, GiveUpKeeps,
       SendInvitationKeeps, InvitationWebhookKeeps, NoInvitationWebhookKeeps, TakeInvitationKeeps,
       ReuseConnectionKeeps, SetupAlreadyConnectedKeeps, NotYetActiveKeeps, CreateRequestKeeps,
       RequestWebhookKeeps, NoRequestWebhookKeeps, LatestWebhookKeeps, FirstLookFailsKeeps,
       NoLatestWebhookKeeps
    DEF Served
  <2> QED
    BY <1>1, <2>1 DEF IInv, Settled
<1> QED
  BY <1>2, <1>3, <1>4, <1>5 DEF Next

LEMMA IInvInit == Init => IInv
BY InvInit, InitKeeps DEF IInv, Settled

\* Every variable keeps its type, in all the scenarios that follow one another.
THEOREM ConnectionTypes == Spec => []TypeOK
<1>1. IInv => TypeOK
  BY DEF IInv
<1> QED
  BY <1>1, IInvInit, IInvStep, PTL DEF Spec

\* A scenario that passes has connected its two agents with one another, at both ends, by
\* an exchange it has begun or was to reuse: whatever the order in which messages, webhooks
\* and steps come, and whatever connections the scenarios before it have left.
THEOREM PassedIsConnected == Spec => []PassMeansConnected
<1>1. IInv => PassMeansConnected
  <2> SUFFICES ASSUME IInv, verdict = "passed", scenario.form = "request" => ~missed,
                      NEW p, p = Pair[1], NEW q, q = Pair[2], NEW x, x = connection_id_dict[p][q]
               PROVE  /\ x # None /\ connection_id_dict[q][p] = x
                      /\ {exchange[x].inviter, exchange[x].taker} = {p, q}
                      /\ \A a \in {p, q} :
                           \/ Connected(a, x)
                           \/ kind[a] = "credo" /\ record[a][x] = "request"
                      /\ scenario.reuse \/ x \in begun
    BY DEF PassMeansConnected
  <2>1. at > Last /\ ~Excused /\ Joined
    BY DEF IInv, Called, Excused
  <2>2. /\ x # None /\ connection_id_dict[q][p] = x
        /\ {exchange[x].inviter, exchange[x].taker} = {p, q}
        /\ Conn(p, x) /\ Conn(q, x)
        /\ scenario.reuse \/ x \in begun
    BY <2>1 DEF Joined
  <2>3. /\ \/ Connected(p, x)
           \/ kind[p] = "credo" /\ record[p][x] = "request"
        /\ \/ Connected(q, x)
           \/ kind[q] = "credo" /\ record[q][x] = "request"
    BY <2>2 DEF Conn
  <2>4. \A a \in {p, q} : \/ Connected(a, x)
                          \/ kind[a] = "credo" /\ record[a][x] = "request"
    BY <2>3
  <2> QED
    BY <2>2, <2>4, Zenon
<1> QED
  BY <1>1, IInvInit, IInvStep, PTL DEF Spec

\* A scenario fails for one of the causes FailureHasCause names, whatever the order of
\* steps, webhooks and messages and whatever the scenarios before it have left.
THEOREM FailureIsExplained == Spec => []FailureHasCause
<1>1. IInv => FailureHasCause
  BY DEF IInv
<1> QED
  BY <1>1, IInvInit, IInvStep, PTL DEF Spec
=============================================================================
