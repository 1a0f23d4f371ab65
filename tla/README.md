# Aries Agent Test Harness: a TLA+ model

The Aries Agent Test Harness (AATH) drives two or more Aries agents through interoperability
scenarios. This directory holds TLA+ modules of its parts, TLC runs that check them on small
instances and TLAPS proofs that hold for every instance.

## 1. The system

```
 behave scenarios (harness)  --HTTP-->  backchannel  --admin HTTP-->  agent  <--DIDComm-->  agent ...
                             <--poll--   (store)     <--webhooks--
```

The *harness* is one synchronous process: a step sends one request to one backchannel and waits for
its answer. Each agent under test has a *backchannel*, a small server that translates the harness'
requests into requests to its agent. The agents talk to each other; every time a record of an agent
changes state, the agent posts a *webhook* to its own backchannel, which files it in a store from
which the harness fetches it with `GET /agent/response/{topic}/{id}`.

| component | state it keeps | operations | interacts by |
|---|---|---|---|
| webhook store `python/storage.py` | dictionary id -> type -> list | push, pop head, get, pop tail of the newest id | called by the Python backchannels |
| message queues `python/message_queue.py` | dictionary of asyncio queues and stacks | push, pop with a timeout, clear | called by the AFGO backchannel |
| HTTP server `python/agent_backchannel.py` | `ACTIVE`, the two listening sites | dispatch of POST, GET, DELETE and GET response | harness, subclass handlers |
| ACA-Py backchannel `acapy/acapy_backchannel.py` | agent process, admin session, `exch_to_data_id`, auto flags, public DID | webhook handlers; operations on connections, credentials, proofs, ledger objects | admin API of its agent |
| ACA-Py routes `acapy/routes` | - | restart of the agent with other arguments; mediation | process control, admin API |
| AFGO backchannel `afgo/afgo_backchannel.py` | webhook state per exchange | as ACA-Py, over queues and stacks | REST API of its agent |
| Credo-TS and JavaScript backchannels | the agent itself, one replay subject per controller | operations wait for an event, then act | in-process events |
| .NET, Pico, mobile backchannels | caches, fixed answers | as above | framework events, engine API, QR codes |
| harness steps and environment | scenario context: connection ids, thread ids, credential data | steps, retries of scenarios, resets of agents | HTTP to every backchannel |
| `manage`, `allure`, CI, `services` | containers, reports | bash and workflow files | - |

Hard behaviours, and what makes each component correct:

* **Webhooks race requests.** A backchannel is an event loop: while a request sleeps or waits for
  the admin API, webhook handlers run. A webhook must be handed out once, in order of arrival, to
  a poll of its id and type, and serving another request must not take it away.
* **Ids are learnt from webhooks.** An operation names a thread; the record id is looked up in the
  first webhook of the thread. The operation must reach the record of its own thread and must not
  precede the message it acts on, although check, sleep and POST are separate.
* **Everything is a bounded retry.** The harness is synchronous, so every request must be answered
  whatever the agents do; and a timeout must mean that nothing came.
* **Agents are restarted** with other arguments between features; a restart may fail between its
  steps, while the store and the `ACTIVE` flag live on.
* **Other backchannels wait in other ways** (queues with timeouts, replay subjects, event
  aggregators), each with its own way to lose or repeat a message.
* **A scenario is many requests to several backchannels** on one context, and may be tried again on
  agents that remember. What passes must have happened, and in this attempt; what fails must have
  had a cause.

## 2. The modules

### Storage
Operators on a store value, one per function of `storage.py`. A Python dictionary remembers
insertion order and `pop_resource_latest` depends on it, so the value keeps the order in which ids
were first inserted next to the lists. Every function holds `storage_lock` from its first to its
last line, so each is one step.

### Mailbox
The abstract specification of what a backchannel promises of its polls: webhooks wait in order of
arrival; a poll is answered by the oldest one of its box, or by `{}` when none waits there at that
moment; every poll is answered; requests that name no id may withdraw the newest one. No
dictionary, retry, sleep or timeout.

### AcapyBackchannel
One ACA-Py backchannel between the harness and its agent. One action is one segment of a handler
between two awaits; the variable `handler` names the await where the request being served is
suspended. The correspondence:

| actions | code |
|---|---|
| `ReceiveRecord`, `ReceiveAnoncreds`, `FinishAnoncreds` | `_receive_webhook`, `handle_webhook`, `handle_*`; the anoncreds handler awaits an admin request between its lookup and its push, so it has two |
| `RequestPoll`, `BeginPoll`, `WakePoll` | `make_agent_GET_request_response`: first look, then a look per second up to `MAX_TIMEOUT` |
| `RequestImplicit`, `BeginImplicit`, `WakeImplicit*` | the polls of `receive-request-resolvable-did`, which name no id |
| `RequestPost`, `BeginPost`, `WakeSwap`, `CheckState`, `SendPost` | `make_agent_POST_request`: auto flags, `swap_thread_id_for_exchange_id`, `expected_agent_state`, `sleep(1)`, POST |
| `Agent` | the agent (external): its records move and every move sends a webhook; webhooks are separate HTTP requests and may overtake each other |

Data are abstracted to an exchange, a state of its record and the protocol; names of operations to
`create`, `reply` and `act`, by the state they belong to and the checks the code makes.

### AcapyBackchannelProofs, AcapyMailboxProofs
The proofs; see section 5.

### MCAcapyBackchannel
The exchanges and polls of the runs below.

### AgentLifecycle
The agent process of the ACA-Py backchannel. `main` starts it; `POST agent/start` kills it and starts
another. `step` is the place in the sequence that both share: `Kill`, `WaitKilled`, `AfterKill` are
`kill_agent`, `_terminate` and what follows them, `Spawn` is `start_process*`, `Detect` one turn of
`detect_process`. `Fail` and `Succeed` are how the sequence ends, for `main` (clean-up, or `activate`)
and for a request (500 or 200); `Popen` may raise as well. The processes are external: they boot, crash, and stop some time
after SIGTERM, and any that listens answers on the shared admin port. `detected` is a history
variable. `AgentLifecycleProofs` holds the proofs.

### IssueCredential, Issuance
Whole scenarios of RFC 0036 and RFC 0453. `setup` chooses a scenario, a version and the backchannel
of each party once. The harness is synchronous, so one variable `call` says which operation is
being served and how far: `wait` is Credo's `waitForState`, `swap` and `check` are ACA-Py's
`swap_thread_id_for_exchange_id` and `expected_agent_state`, `post` the request to the agent, `look`
the harness' own state poll after an offer of version 1. `Step` and `HasCredential` are the step
functions, `Answered` what they take from an answer into `context`; `Retry` is behave's autoretry,
which runs the hooks again and leaves the agents as they are. `record`, `wire` and the tables `Moves`
and `Arrivals` are the agents (external). `notified` is what a backchannel knows: for Credo every
event (a replay subject), for ACA-Py the webhooks, of which the swap needs only the first of a
thread. `late` and `begun` are history variables. `Issuance` is the abstract scenario: exchanges move
through five stages in order, one at a time; a pass means the last one is complete; a scenario ends.
`IssueCredentialProofs` holds the proofs.

### MessageQueue, LossyMailbox
The polls of the AFGO backchannel that wait on asyncio queues. `Receive` is a webhook (external),
`Push` one `push_message_*` of its handler; an invitation's webhook goes to its own queue and to the
stack all invitations share, a proof's to a stack per thread (`Destinations`). `Poll` is a GET, which
makes a task out of `queue.get()`; `GetNothing` and `Get` are that task when it runs, first or woken;
`TimeOut` is `wait_for` giving up. `shield` keeps the task alive, so `tasks` holds every task with how
its poll ended. Queues by which nothing waits asynchronously (`push_resource`) are left to AcapyBackchannel's
`Storage`; the two seconds a poll without an id sleeps before it pops are the time before `Poll`.
`LossyMailbox` is what remains of a mailbox: a poll is answered by what is first in its box or gives
up, and every poll that gave up leaves a *debt*, one webhook that the box will lose.
`MessageQueueProofs` holds the proofs.

### Connections
The scenarios that connect two agents: RFC 0160 with its two roles and a third agent, RFC 0023 with an
explicit, a public and a reused invitation and with a request to a public DID. `scenario` runs step by
step (`at`); one that ends is followed by another in a new context, against agents that keep their
records and stores that keep their webhooks. An exchange is named by its invitation, and
`connection_id_dict[a][b] = x` is the code's connection id of a's record of it. `call` is the operation
being served, as in IssueCredential; the harness' GET of a response is an operation too. `Ids` are the
ids webhooks are filed under: the same exchange has an invitation id, a request id and a connection
id, and a poll of one never sees the others (`WebhookOf`, `IdFor`, `BoxOf`). An invitation with a public
DID may have no webhook under its id: `SendInvitation` chooses, and `keyed` remembers it. Webhooks of one
place are alike, so that a further one is filed when the one before it has been taken (`FileWebhook`).
`temp_connection_id_dict` decides which way the inviter's id is learnt. The step that takes the webhook that
came last looks once for one of DID exchange, under the id inserted last (`LatestWebhook`,
`FirstLookFails`), and from then on for one of the connection protocol (`LatestConnectionWebhook`,
`NoLatestWebhook`), as the code does; the webhooks of the connection protocol and of out-of-band are in the
store with the others, where each can hide the one that is looked for. They are sent only to agents some
step asks for the last webhook (`Heeded`), and filed only while such a step is to come (`LatestAsked`): no
other poll can meet them. `missed` remembers that the one look came too early, went to another id or
found another exchange's webhook; `late`, that some other wait ended too early. Every property excuses
only what its comment names. `ConnectionsProofs` holds the proofs.

### PresentProof
Whole scenarios of RFC 0037 and RFC 0454, of present-proof version 3 and of HIPE 0011, for the pairs of
backchannels that can run them: ACA-Py and Credo in version 1, ACA-Py and AFGO in version 2, AFGO in
version 3. `Step`, `Answered` and `Retry` are as in IssueCredential. The three backchannels wait in three
ways (`Awaited`): ACA-Py for any webhook of the thread, and a state if it is to verify in version 1; Credo
for an event; AFGO for the action webhook. AFGO takes the state of its answer from the webhook that
came last (`StatePopped`) and its GET of a state pops the thread's stack (`LookPops`), where a GET that
gave up leaves a task (`orphans`) that eats the next state. Credentials are numbered in order of issue;
`revoked` and `asked` are what decides a verification (`Satisfies`). The webhooks of an AFGO agent
arrive in order, and its store and stack are filed in one step: MessageQueue has the interleaving.
`PresentProofProofs` holds the proofs.

### LedgerSetup
"Has an existing schema and credential definition": one action per request that the steps, ACA-Py's
backchannel and Credo's send, so that a failure (`Fault`, with or without the effect of the request)
can come at every point. `dids`, `public`, `schemas` and `definitions` are the wallets, `ledger*` the
ledger; a failed request may reach the ledger and not the wallet. What the ledger says to an object it
already has is external, and either answer is possible (`SchemaRefused` or `PostSchema`). A Credo agent that
restarts has a new wallet and its old DID (`Restarts`), or none (`RestartFails`). Names, DIDs and tags are model
values; a tag is drawn anew for every definition, so that an older one may be found. `faulted` and
`made` are history variables. `LedgerSetupProofs` holds the proofs.
## 3. The runs

| run | asks | instance |
|---|---|---|
| AcapyPosts | do POSTs and polls of one thread disturb each other; does an operation precede its message; is every request answered | one revocable credential exchange, four requests in any order |
| AcapyCredentials | does the swap ever yield another exchange's id; is a webhook handed out twice when its handler awaits between lookup and push | an anoncreds and an ordinary version 2 credential exchange |
| AcapyMailbox | do the polls, whatever else runs, implement `Mailbox` (with its liveness: every poll is answered); is a webhook handed out twice | a connection whose operations the auto flags may skip, and a revocation notification; one poll |
| AcapyImplicit (violated) | does the implicit path return the webhook that waits | DID exchange and invitation |
| AcapySwapTimeout (violated) | does a timeout of the swap mean that no webhook came | one credential exchange |
| AgentLifecycle | does one agent run at a time; is a start answered for its own process; does every start end | main's start and three restarts, two looks per detection |
| IssueCredential | do waits, polls and messages ever fail a scenario that is not late; does Credo post in state; does every attempt end; can a second attempt touch, or pass by, an exchange of the first; is `Issuance` implemented | two threads; proposal and offer scenarios tried twice, both negotiations once; four pairs of backchannels, two versions |
| Connections | are the two agents a passed scenario names connected to each other, through an exchange of that scenario; does what fails have a cause in this scenario, and none in what earlier ones left behind; does every scenario end | three agents, two exchanges, two scenarios one after the other out of seven; each agent ACA-Py or Credo |
| PresentProof | has a passed scenario had a presentation of its own, of the right credential, verified with the right outcome; are operations posted in state; does what fails fail only for lateness; does every attempt end | nine scenarios of three versions, every pair of backchannels they allow; two attempts, three exchanges at most in one |
| LedgerSetup | can what passed be issued from; does a clean retry pass whatever is left half done; can an issuer come to have two schemas of one name | two issuers, two schemas, four DIDs, two tags, three scenarios, two faults |
| AfgoQueues | is a webhook handed out once whatever times out; is `LossyMailbox` implemented, with an end to every poll | an invitation and a proof, two webhooks each, three polls |
| AfgoLostWebhook (violated) | does a later poll find what an earlier one gave up on | one invitation |
Bounds: `MaxRequests` bounds the requests of a behaviour; it is large enough for a create, a poll
and two further operations of one exchange in any order. `MaxTimeout`, `WaitTime` and `StatePolls`
are small because a loop that finds nothing only repeats itself: two turns show the first, a middle
and the last look. Records never move back, which bounds the webhooks without a further guard.

Fairness of AcapyBackchannel: `WF(Serve)` only. The event loop runs every handler that is ready, and
each sleep and admin request ends (the admin session has timeouts of its own). Nothing is assumed of
the agent or of the harness: they may stop at any moment, and every property holds all the same. Of
IssueCredential, Connections and PresentProof: `WF(Harness \/ Served)`, because the synchronous harness
and the served request go on and every wait has a timeout; messages and webhooks are under no
fairness, so they may never come. Of AgentLifecycle: the backchannel's own steps; processes need
neither boot nor answer. Of MessageQueue: `WF(Loop)`, the event loop with its timers; webhooks may
never come. LedgerSetup has safety properties only and states none.

Bounds of the scenarios: two threads of IssueCredential are what a negotiation, or a retry, can begin
(a third begins nothing the second does not); two attempts, or two scenarios, show what the first
leaves to the next; the length of `waitForState` and of the swap is one look that misses, since `late`
only records that there was one. The four threads of PresentProof are two attempts at a scenario that
begins two exchanges; its `StatePolls` is the four GETs of the code, because those of AFGO take what
they look at. An operation that begins an exchange needs a name for it, a thread of PresentProof (`Spare`)
or an exchange of Connections (`Fresh`); scenarios start only while enough are left, so that these guards
never stop one. Of MessageQueue: three polls let one orphan take a webhook, a second wait and a third be
answered; two webhooks about each thing give a box an order. Of LedgerSetup: two faults can leave a
DID and a schema half done, or a definition without revocation and a failed start, before the third
scenario; four DIDs are what two ACA-Py agents create when both faults lose one.

## 4. What was found

* `swap_thread_id_for_exchange_id` loops while `timeout <= wait_time` and raises when `timeout >=
  wait_time`: a webhook found on the last turn is thrown away and reported as a timeout.
* `receive-request-resolvable-did` is said to return the last webhook message, but looks only under
  the id inserted last, and after its first look only for `connection-msg`.
* AFGO's backchannel shields `queue.get()` from the timeout of a poll: the orphan takes the webhook that
  comes later, and the harness, which is told to "check for one later", polls the same id in vain.

Read from the code while modelling, without a run that shows it:

* A restart that fails (the process does not exit within half a second of SIGTERM, or its successor
  never answers) leaves no agent, or one that is not detected, and `status` goes on answering 200, which
  `docs/assets/openapi-spec.yml` describes as "Agent is active".
* ACA-Py's backchannel sleeps one second before operations on credentials, "or sometimes the agent isn't
  in the correct state ... Not sure why": the thread-id swap is satisfied by the party's own earlier
  webhook, so the operation may be posted before the message it answers, and no sleep orders the two.
* A third agent that receives an invitation already used (RFC 0160, T003 and T004) sends the harness to
  a poll for `connection_id` that answers `{}`: the step ends in an exception, not in the refusal
  its scenario is about.
* "Receives the request" polls a webhook under the id of the invitation and fails without it. For an
  invitation with a public DID the comment at that place says there is probably none (issue 944), and the
  poll without an id that would help is commented out: whether the scenario passes is up to the agent.
* AFGO's answer to an operation takes its state from the webhook filed last. A message of an earlier
  attempt that arrives late makes that exchange the last one, and the harness is told its state.
* Credo's version 2 proof controller reads `connection_id` and `proof_request` from requests in which the
  version 2 steps of the harness send neither.

## 5. The proofs

`ConstantsAssumption` is the only assumption of AcapyBackchannel's module: exchanges have protocols, the timeouts are positive.
No set need be finite.

* `TypeCorrect` : the type invariant, with "a poll being served has a box" as its strengthening.
* `NoWebhookTwice` : `HandedOnce`. It is not inductive. The strengthening `DeliveryInv` adds
  *Delivered*, which extends it to the webhooks held by anoncreds handlers and excludes one that is
  both under way and handed out; *Bounded*, by which no webhook carries a state beyond its record's, so that
  the next move sends a new one; and *Owned*, by which a list under an exchange's id holds webhooks
  of that exchange.
* `PostsReachTheirRecord` : `PostsToItsOwnRecord`, from *Owned* and the fact that the swap peeks
  only under the thread it was given.
* `ActsAfterItsMessage` : `NotBeforeItsMessage`; the state only grows between check and POST.
* `PostsTakeNoWebhook` : `PostsLeaveWebhooks`, an action property; between the awaits of a POST only webhook
  handlers touch the store, and a push shortens no list.
* `SwapsNeverRaise` : `NoIndexError`, for a harness that polls none of the boxes a swap peeks at and sends no
  implicit invitation (`PeekedUnpolled`: the steps poll for connections, DID exchanges, revocation data
  and notifications, and an implicit invitation may index the last id of an empty storage). *Kept*: a list
  under such a box is empty only as long as it does not exist, since a push creates it with a webhook
  in it and nothing takes one out.
* `ImplementsMailbox` : every step of the backchannel is a step of `Mailbox` or leaves it alone,
  with `NoListNoWebhook` as the extra invariant.
* `LifecycleTypes`, `NeverTwoAgents`, `DetectsItsOwn`, for any number of restarts and looks
  (`LifecycleAssumption`). The strengthening is *OnlyProc*: a process that runs is `self.proc`, and
  none runs between the kill and the next `Popen`; that is what the exception of `_terminate` keeps.
* `NoneIsLost` : `NoneOutOfReach`, from *OnlyProc*: no way a start can fail lets go of `self.proc`.
* `ExitLeavesNoAgent` : *Leaving* adds to *OnlyProc* that whatever runs while its
  process is waited for, or once main has left, has been told to stop.
* `IssueTypes`, `CallsOfThisAttempt`, `PassedWasIssued`, for any threads, any scenarios in the order of
  the protocol, negotiations included, and any number of attempts (`IssueCredentialAssumption`). The
  strengthening has a half about the harness (*Harnessed*: what the context names was begun in this
  attempt; a call belongs to the current step; nothing is called after a store) and one about the
  agents (*Agreed*: the holder has a credential only if its issuer has issued it).
* `FailedWasLate`, `PostsInState` : `FailsOnlyWhenLate` and `CredoPostsInState`, by one invariant,
  *InState*. *Heard* is the converse of *Conversation*, that what was said and not heard is under way;
  *Turn* says that the exchange of the context is at the stage the step needs; *Told* and *Known*, what
  the events of Credo say of a record (an old event can end a wait); *Waited*, what the phase of a call
  implies. An operation whose record is not ready has then a message under way, and one whose record is
  ready has its webhook filed or under way.
* `KeepsThePromises` : the safety half of `Issuance`, by the refinement mapping `Stage`. It needs
  *Conversation*, the pairs of states two records can be in and the one message that may be under
  way in each; with it a message that arrives never changes the stage, and an operation adds one.
* `QueueTypes`, `HandedOutOnce`, for any invitations, proofs, webhooks and polls
  (`MessageQueueAssumption`, `NothingAssumption`). `OneTaker` is not inductive: it needs *Coming*, by
  which what a handler has still to push to a box is neither there nor taken from there, which rests on
  *Tasked* and *Queued* (a task is done when it has a webhook; who sleeps in a box waits there once).
* `ImplementsLossyMailbox` : the safety half. `Debt` counts the tasks whose poll has timed out and that
  have taken nothing; a `Get` pays a debt or answers a poll, never both.
* `SetupTypes`, `PassedIsReady`, `RetriesAreClean`, `SchemasOnce`, for any issuers, names, DIDs and tags,
  any number of scenarios, failed requests and restarts (`LedgerSetupAssumption`). None of the last
  three is inductive. *Owns* says which DIDs a wallet may hold and that a public one is on the ledger;
  *Filed*, that every schema on the ledger was written under the one DID its issuer ever writes under,
  and that what a wallet knows is there; *Progress*, what each request of the sequence may rely on, as
  that only an agent without a public DID creates one; *Verdicts* and *Made*, what a verdict stands for.
* `CallsOfThisScenario`, for any agents, exchanges and scenarios (`ConnectionsAssumption`: every scenario
  names its inviter, and one that takes the last webhook begins with a request). The strengthening
  *Held* says that every id in the context, not only that of the call, is of this scenario, and
  *Placed* that only a scenario with reuse asks for an active connection.
* `ConnectionTypes`, `PassedIsConnected`, `FailureIsExplained`, by one invariant over all the scenarios that follow
  one another (`ScenarioAssumption`: the order of the steps in the feature files, in which each step
  has one before it, a third agent only receives, and agents keep their roles in RFC 0023). Its parts
  are about the agents, the webhooks, the context and the place of the scenario. *Agreed*: an exchange
  that no request has been taken for has every request under way, and the two ends of one that has
  been taken are a message apart at most. *Filed*: a list holds webhooks of its own exchange. *Called*:
  a call is one its step makes, about the id the step holds. *Turn*: after a step, the context holds
  the ids found so far (*Named*) and the exchange has come as far as the step (*Stands*); *Awaited*: the
  webhook the next poll looks for is filed or under way, where one is keyed at all. *Joined* is what a
  pass claims, from the last look on. A look, a poll or an operation that finds nothing can then name the message
  or webhook that is under way, and the one look at the last webhook, where the webhook of the request is
  (*Unseen*), which is what `FailureHasCause` demands; no webhook for a public invitation is the other cause.
* `CallsOfThisAttempt` of PresentProof, for any threads, scenarios and attempts. Its strengthening *Own* adds the
  context, and that an attempt which is over makes no call.
* `PresentTypes`, `PostsInState`, `VerifiedWasShown` of PresentProof (`PresentProofAssumption`, and
  `ScenarioAssumption`, by which a scenario ends with presentation, acknowledgement and outcome, a
  credential is issued before it is revoked, and only version 1 asks for non-revocation in a step of
  its own). *Placed* says which step a call belongs to and which of the context's ids it may read;
  *Agreed* and *Known*, which pairs of states two records can be in and what the events of Credo say of
  them; *Turn*, the stage the exchange of the context has reached when a step begins; *Ready*, what the
  phase of a call implies of the record; *Asked* and *Means*, that what was requested, shown and revoked
  is what the steps so far say; *Outcome*, what a verdict stands for.
* `FailedWasLate` of PresentProof, `FailsOnlyWhenLate` for any threads, scenarios and attempts. It adds two
  assumptions about the scenarios: `RequestAssumption` (whatever is presented has been asked for, and
  not proposed again since) and `OutcomeAssumption` (the outcome a scenario names is that of its
  steps: a proof fails when non-revocation is asked for and what is shown is revoked); the scenarios
  of the feature files have both, but for three that are marked `@wip`. The invariant *InTime*
  extends that of the theorems above. *Staged*: the ten pairs of records an exchange can be in, with
  the one message that is under way in each. *Stands*: the exchange of the context is where the steps
  behind have brought it, *Since* saying what they have asked for or revoked (*RevokedNow*). *Told*:
  Credo's events say what the records are. *Coming*, about AFGO: the state its answer waits for, the
  action webhook of a request nobody has answered, and the last state of an exchange of this attempt
  are filed or under way, the last being on the stack of its thread until the last step has taken it
  (*DoneComing*), unless a task waits there whose GET was given up while it was under way (*Orphaned*).
  With them each action that fails an attempt finds what it needed under way, and the last step
  never fails on a verification other than the one it names.

Only model-checked: `EveryRequestAnswered`, `EveryStartEnds`, `AttemptEnds`, `ScenarioEnds` and the
liveness halves of `Mailbox`, `Issuance` and `LossyMailbox` (liveness under fairness is out of the
prover's reach).
Every invariant and every action property of a passing run is a theorem; the counterexamples of the
violated runs are TLC's.

## 6. Not modelled

* **Mediation** (`0211-coordinate-mediation.py`, the mediation routes of three backchannels): each
  operation is one request to the agent or a poll like those of AcapyBackchannel; who mediates for
  whom is decided inside the agents.
* **The rest of the AFGO backchannel** (connections, credentials, DIDs) repeats the shapes of ACA-Py's
  over the same store; the .NET backchannel waits on an event aggregator of a framework that is not
  in the repository, the JavaScript one is an earlier copy of Credo-TS, and Pico forwards everything.
* **The translation of payloads and states** is a rewriting of dictionaries without state; formatting
  and logging are left out everywhere.
* **What the steps of the models put together**: the admin POST of ACA-Py and its answer are one step
  (`SendPost`), so no webhook comes between the two; the latest-state store of AFGO holds ids of proof
  exchanges only (`NoStatePopped`): a webhook of the connection or the credential a scenario starts with, if
  it came that late, could hide the state of a proof too, as one of an earlier attempt does in the model;
  the ledger is a set, so a schema written again as it is cannot be told from one written once.
* **Scenarios marked work in progress**, connectionless offers and requests, auto-respond in whole
  scenarios, revocation notifications in whole scenarios (they are webhooks of AcapyBackchannel),
  and version 2 proofs with Credo, whose controller reads fields the harness never sends.
* **A restart of the agent in the middle of a scenario**: the harness restarts agents before the first
  operation of a scenario or after a feature.
* **Container control** (`manage`), reports, CI, and the inside of agents and ledger, of which only the
  requests and webhooks that reach `src/` are modelled.
