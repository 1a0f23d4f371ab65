--------------------------- MODULE IssueCredential ---------------------------
(***************************************************************************)
(* The issue-credential scenarios end to end: the steps of the harness,    *)
(* the backchannels of issuer and holder (each an ACA-Py or a Credo-TS     *)
(* one), and their agents (external), which exchange messages.             *)
(*                                                                         *)
(* The harness is synchronous: a step makes one call and waits for its     *)
(* answer.  A backchannel that is given a thread id first waits for        *)
(* something: ACA-Py for a webhook of the thread (and, for issue in        *)
(* version 1, for a state), Credo for the event of the state the operation *)
(* needs.  Both give up after a while.  Webhooks, polls and the interior   *)
(* of these waits are in AcapyBackchannel.                                 *)
(***************************************************************************)
EXTENDS Integers, Sequences

CONSTANTS
  Threads,      \* thread ids
  NoThread,     \* None
  Scenarios,    \* the sequences of steps of the feature files
  MaxAttempts,  \* test_retry_attempts, of each scenario
  StatePolls    \* GETs of the harness' expected_agent_state

\* The step every other step comes right after; a proposal may be negotiated.
Before ==
  [propose |-> "offer", offer |-> "propose", request |-> "offer", issue |-> "request",
   store |-> "issue"]

ASSUME IssueCredentialAssumption ==
  /\ NoThread \notin Threads
  /\ MaxAttempts \in [Scenarios -> Nat \ {0}]
  /\ StatePolls \in Nat \ {0}
  /\ \A s \in Scenarios :
       /\ s \in Seq({"propose", "offer", "request", "issue", "store"})
       /\ \A i \in 1..Len(s) :
            IF i = 1 THEN s[i] \in {"propose", "offer"} ELSE s[i-1] = Before[s[i]]

VARIABLES
  setup,       \* [scenario, version, backchannel]: chosen once
  record,      \* [Parties -> [Threads -> state]]: the records of the agents
  wire,        \* messages under way between the agents
  notified,    \* [Parties -> set of <<thread, state>>]: webhooks filed, or events replayed
  thread,      \* context.cred_thread_id
  credential,  \* the exchange whose credential id was stored last
  at,          \* index of the step of the scenario
  call,        \* the call being served, or Idle
  looks,       \* GETs of expected_agent_state so far
  attempt,
  verdict,
  late,        \* history: something this call needed was still under way
  begun        \* history: the exchanges begun in this attempt

context == <<thread, credential, begun>>
vars == <<setup, record, wire, notified, thread, credential, at, call, looks, attempt, verdict, late, begun>>

----------------------------------------------------------------------------
(* The protocol, as the agents play it.                                    *)

Parties == {"issuer", "holder"}
Other(p) == IF p = "issuer" THEN "holder" ELSE "issuer"

States == {"none", "proposal-sent", "proposal-received", "offer-sent", "offer-received",
           "request-sent", "request-received", "credential-issued", "credential-received", "done"}

Operations == {"send-proposal", "send-offer", "send-request", "issue", "store"}

\* What an operation does to the record it is sent to, and the message it sends.
Moves ==
  {[op |-> "send-proposal", from |-> "none", to |-> "proposal-sent", message |-> "proposal"],
   [op |-> "send-offer", from |-> "none", to |-> "offer-sent", message |-> "offer"],
   [op |-> "send-offer", from |-> "proposal-received", to |-> "offer-sent", message |-> "offer"],
   [op |-> "send-request", from |-> "offer-received", to |-> "request-sent", message |-> "request"],
   [op |-> "issue", from |-> "request-received", to |-> "credential-issued", message |-> "credential"],
   [op |-> "store", from |-> "credential-received", to |-> "done", message |-> "ack"]}

\* What a message does to the record of its receiver.
Arrivals ==
  {[message |-> "proposal", from |-> "none", to |-> "proposal-received"],
   [message |-> "offer", from |-> "none", to |-> "offer-received"],
   [message |-> "offer", from |-> "proposal-sent", to |-> "offer-received"],
   [message |-> "request", from |-> "offer-sent", to |-> "request-received"],
   [message |-> "credential", from |-> "request-sent", to |-> "credential-received"],
   [message |-> "ack", from |-> "credential-issued", to |-> "done"]}

Messages == {"proposal", "offer", "request", "credential", "ack"}

\* The party an operation is sent to.
At(op) == IF op \in {"send-offer", "issue"} THEN "issuer" ELSE "holder"

\* The record of t at party p becomes s.  Credo's events reach its replay subject
\* in the same step, ACA-Py's webhooks later.
SetRecord(p, t, s) ==
  /\ record' = [record EXCEPT ![p][t] = s]
  /\ notified' = IF setup.backchannel[p] = "credo"
                 THEN [notified EXCEPT ![p] = @ \cup {<<t, s>>}] ELSE notified

Fresh(t) == \A p \in Parties : record[p][t] = "none"

\* A message arrives.
Deliver ==
  /\ \E m \in wire, a \in Arrivals :
       /\ a.message = m.message
       /\ a.from = record[m.to][m.thread]
       /\ wire' = wire \ {m}
       /\ SetRecord(m.to, m.thread, a.to)
  /\ UNCHANGED <<setup, context, at, call, looks, attempt, verdict, late>>

\* The first webhook of an ACA-Py agent about an exchange arrives at its
\* backchannel.  The swap only peeks, so those that follow change nothing here.
Webhook ==
  /\ \E p \in Parties, t \in Threads :
       /\ setup.backchannel[p] = "acapy"
       /\ record[p][t] # "none"
       /\ \A s \in States : <<t, s>> \notin notified[p]
       /\ notified' = [notified EXCEPT ![p] = @ \cup {<<t, record[p][t]>>}]
  /\ UNCHANGED <<setup, record, wire, context, at, call, looks, attempt, verdict, late>>

----------------------------------------------------------------------------
(* The harness.                                                            *)

Idle == [op |-> "idle", thread |-> NoThread, phase |-> "none"]

OperationOf ==
  [propose |-> "send-proposal", offer |-> "send-offer", request |-> "send-request",
   issue |-> "issue", store |-> "store"]

\* Where a call begins at its backchannel.
Begins(op, t) ==
  IF t = NoThread THEN "post"
  ELSE IF setup.backchannel[At(op)] = "credo" THEN "wait" ELSE "swap"

\* Mutant: the context names the first exchange of the scenario for ever.
AnsweredKeepsThread(op, t) ==
  /\ thread' = IF op \in {"send-proposal", "send-offer"} /\ thread = NoThread THEN t ELSE thread
  /\ credential' = IF op = "store" THEN t ELSE credential
  /\ begun' = IF call.thread = NoThread THEN begun \cup {t} ELSE begun

\* The answer of a call: what the step takes from it into the context.
Answered(op, t) ==
  /\ thread' = IF op \in {"send-proposal", "send-offer"} THEN t ELSE thread
  /\ credential' = IF op = "store" THEN t ELSE credential
  /\ begun' = IF call.thread = NoThread THEN begun \cup {t} ELSE begun

\* A step of the scenario makes its call.  A proposal never names a thread, the
\* others name the one in the context if there is one.
Step ==
  /\ verdict = "running"
  /\ call = Idle
  /\ at <= Len(setup.scenario)
  /\ LET op == OperationOf[setup.scenario[at]]
         t == IF op = "send-proposal" THEN NoThread ELSE thread
     IN call' = [op |-> op, thread |-> t, phase |-> Begins(op, t)]
  /\ late' = FALSE
  /\ UNCHANGED <<setup, record, wire, notified, context, at, looks, attempt, verdict>>

\* Mutant: the scenario ends a step early and its last step checks nothing.
HasCredentialEarly ==
  /\ verdict = "running"
  /\ call = Idle
  /\ at >= Len(setup.scenario)
  /\ verdict' = "passed"
  /\ UNCHANGED <<setup, record, wire, notified, context, at, call, looks, attempt, late>>

\* The last step: the holder has the credential that was stored last.
HasCredential ==
  /\ verdict = "running"
  /\ call = Idle
  /\ at > Len(setup.scenario)
  /\ credential # NoThread
  /\ record["holder"][credential] = "done"
  /\ verdict' = "passed"
  /\ UNCHANGED <<setup, record, wire, notified, context, at, call, looks, attempt, late>>

\* A message to p about t, or the first webhook of p about t, is on its way.
UnderWay(p, t) ==
  \/ \E m \in wire : m.to = p /\ m.thread = t
  \/ /\ setup.backchannel[p] = "acapy"
     /\ record[p][t] # "none"
     /\ \A s \in States : <<t, s>> \notin notified[p]

\* An assertion of the step fails: the scenario has failed.
FailScenario(p, t) ==
  /\ verdict' = "failed"
  /\ late' = (late \/ UnderWay(p, t))
  /\ call' = Idle
  /\ UNCHANGED <<setup, record, wire, notified, context, at, looks, attempt>>

\* Mutant: the context outlives the attempt.
RetryKeepsContext ==
  /\ verdict = "failed"
  /\ attempt < MaxAttempts[setup.scenario]
  /\ verdict' = "running"
  /\ attempt' = attempt + 1
  /\ begun' = {}
  /\ at' = 1
  /\ looks' = 0
  /\ UNCHANGED <<setup, record, wire, notified, thread, credential, call, late>>

\* scenario_autoretry runs the scenario again, hooks included; the agents keep
\* their records, the wire its messages.
Retry ==
  /\ verdict = "failed"
  /\ attempt < MaxAttempts[setup.scenario]
  /\ verdict' = "running"
  /\ attempt' = attempt + 1
  /\ thread' = NoThread
  /\ credential' = NoThread
  /\ begun' = {}
  /\ at' = 1
  /\ looks' = 0
  /\ UNCHANGED <<setup, record, wire, notified, call, late>>

\* Version 1 polls the holder's record after an offer.  The GET is answered when
\* the backchannel knows the thread.
OfferReceived ==
  /\ record["holder"][thread] = "offer-received"
  /\ \E s \in States : <<thread, s>> \in notified["holder"]

Look ==
  /\ call.phase = "look"
  /\ OfferReceived
  /\ call' = Idle
  /\ at' = at + 1
  /\ looks' = 0
  /\ UNCHANGED <<setup, record, wire, notified, context, attempt, verdict, late>>

\* Mutant: one GET too many.
LookAgainOnceMore ==
  /\ call.phase = "look"
  /\ ~OfferReceived
  /\ looks < StatePolls
  /\ looks' = looks + 1
  /\ UNCHANGED <<setup, record, wire, notified, context, at, call, attempt, verdict, late>>

LookAgain ==
  /\ call.phase = "look"
  /\ ~OfferReceived
  /\ looks + 1 < StatePolls
  /\ looks' = looks + 1
  /\ UNCHANGED <<setup, record, wire, notified, context, at, call, attempt, verdict, late>>

LookFails ==
  /\ call.phase = "look"
  /\ ~OfferReceived
  /\ looks + 1 >= StatePolls
  /\ FailScenario("holder", thread)

----------------------------------------------------------------------------
(* The backchannels.                                                       *)

\* Mutant: waitForState takes any event of the thread.
AwaitedAny(op) ==
  {"proposal-received", "offer-received", "offer-sent", "proposal-sent", "request-received",
   "credential-received"}

\* Mutant: the credential is awaited under the name the issuer gives the state.
AwaitedIssued(op) ==
  CASE op = "send-offer" -> {"proposal-received"}
    [] op = "send-request" -> {"offer-received"}
    [] op = "issue" -> {"request-received"}
    [] op = "store" -> {"credential-issued"}
    [] OTHER -> {}

\* The states whose event lets an operation of Credo go on.
Awaited(op) ==
  CASE op = "send-offer" -> {"proposal-received"}
    [] op = "send-request" -> {"offer-received"}
    [] op = "issue" -> {"request-received"}
    [] op = "store" -> {"credential-received"}
    [] OTHER -> {}

\* What the call waits for is there.
WaitOver ==
  LET p == At(call.op)
      known == {s \in States : <<call.thread, s>> \in notified[p]}
  IN CASE call.phase = "wait" -> known \cap Awaited(call.op) # {}
       [] call.phase = "swap" -> known # {}
       [] call.phase = "check" -> record[p][call.thread] = "request-received"
       [] OTHER -> FALSE

\* Where the call goes on: ACA-Py checks the state before an issue of version 1.
Then ==
  IF call.phase = "swap" /\ call.op = "issue" /\ setup.version = 1 THEN "check" ELSE "post"

Proceed ==
  /\ call.phase \in {"wait", "swap", "check"}
  /\ WaitOver
  /\ call' = [call EXCEPT !.phase = Then]
  /\ UNCHANGED <<setup, record, wire, notified, context, at, looks, attempt, verdict, late>>

\* A look that finds nothing.
Miss ==
  /\ call.phase \in {"wait", "swap", "check"}
  /\ ~WaitOver
  /\ ~late
  /\ UnderWay(At(call.op), call.thread)
  /\ late' = TRUE
  /\ UNCHANGED <<setup, record, wire, notified, context, at, call, looks, attempt, verdict>>

\* Mutant: firstValueFrom without a timeout.
GiveUpAcapy ==
  /\ call.phase \in {"swap", "check"}
  /\ ~WaitOver \/ (call.phase = "swap" /\ late)
  /\ FailScenario(At(call.op), call.thread)

\* firstValueFrom with its timeout, swap_thread_id_for_exchange_id and
\* expected_agent_state give up: the answer is 500.  The swap does so even when the
\* look that is its last one has found the webhook.
GiveUp ==
  /\ call.phase \in {"wait", "swap", "check"}
  /\ ~WaitOver \/ (call.phase = "swap" /\ late)
  /\ FailScenario(At(call.op), call.thread)

\* The move of the agent for the call on exchange t.
Fits(m, t) ==
  /\ m.op = call.op
  /\ m.from = record[At(call.op)][t]
  /\ IF call.thread = NoThread THEN Fresh(t) /\ m.from = "none"
     ELSE t = call.thread /\ m.from # "none"

\* The agent accepts the operation; the step goes on with the answer.
Post ==
  /\ call.phase = "post"
  /\ \E m \in Moves, t \in Threads :
       /\ Fits(m, t)
       /\ SetRecord(At(call.op), t, m.to)
       /\ wire' = wire \cup {[to |-> Other(At(call.op)), thread |-> t, message |-> m.message]}
       /\ Answered(call.op, t)
  /\ IF call.op = "send-offer" /\ setup.version = 1
     THEN call' = [call EXCEPT !.phase = "look"] /\ UNCHANGED at
     ELSE call' = Idle /\ at' = at + 1
  /\ UNCHANGED <<setup, looks, attempt, verdict, late>>

\* The agent refuses an operation its record is not ready for.
Refused ==
  /\ call.phase = "post"
  /\ call.thread # NoThread
  /\ \A m \in Moves : ~Fits(m, call.thread)
  /\ FailScenario(At(call.op), call.thread)

----------------------------------------------------------------------------
Setups ==
  [scenario : Scenarios, version : {1, 2}, backchannel : [Parties -> {"acapy", "credo"}]]

Init ==
  /\ setup \in Setups
  /\ record = [p \in Parties |-> [t \in Threads |-> "none"]]
  /\ wire = {}
  /\ notified = [p \in Parties |-> {}]
  /\ thread = NoThread /\ credential = NoThread /\ begun = {}
  /\ at = 1
  /\ call = Idle
  /\ looks = 0
  /\ late = FALSE
  /\ attempt = 1
  /\ verdict = "running"

Harness == Step \/ HasCredential \/ Retry \/ Look \/ LookAgain \/ LookFails
Served == Proceed \/ Miss \/ GiveUp \/ Post \/ Refused

Next == Deliver \/ Webhook \/ Harness \/ Served

\* The harness and the event loops of the backchannels go on, and every wait is
\* bounded.  Nothing is assumed of the agents: messages and webhooks may never come.
Spec == Init /\ [][Next]_vars /\ WF_vars(Harness \/ Served)

----------------------------------------------------------------------------
(* Properties.                                                             *)

\* Every variable has its type.
TypeOK ==
  /\ setup \in Setups
  /\ record \in [Parties -> [Threads -> States]]
  /\ wire \subseteq [to : Parties, thread : Threads, message : Messages]
  /\ notified \in [Parties -> SUBSET (Threads \X States)]
  /\ thread \in Threads \cup {NoThread}
  /\ credential \in Threads \cup {NoThread}
  /\ at \in 1..(Len(setup.scenario) + 1)
  /\ call \in [op : Operations \cup {"idle"}, thread : Threads \cup {NoThread},
               phase : {"none", "post", "wait", "swap", "check", "look"}]
  /\ looks \in 0..(StatePolls - 1)
  /\ attempt \in 1..MaxAttempts[setup.scenario]
  /\ verdict \in {"running", "passed", "failed"}
  /\ late \in BOOLEAN
  /\ begun \subseteq Threads

\* The agents play the protocol and the steps call in its order, so a scenario
\* fails only because a message or a webhook its last call needed came too late:
\* no race between steps, waits and polls fails a pair of agents that answer in time.
FailsOnlyWhenLate == verdict = "failed" => late

\* A scenario that passes has had its credential, of an exchange begun in this very
\* attempt, issued by the issuer and stored by the holder.
PassMeansIssued ==
  verdict = "passed" =>
    /\ thread \in begun /\ credential = thread
    /\ record["holder"][thread] = "done"
    /\ record["issuer"][thread] \in {"credential-issued", "done"}

\* A call never names an exchange of an earlier attempt, which may look as if it
\* were in the right state.
OnlyThisAttempt == call.thread # NoThread => call.thread \in begun

\* The state an operation needs.
Ready == \E m \in Moves : m.from # "none" /\ Fits(m, call.thread)

\* After waitForState the agent accepts what Credo's backchannel posts to it.  (Not so
\* with ACA-Py, "or sometimes the agent isn't in the correct state": the party's own first
\* webhook satisfies the swap.)
CredoPostsInState ==
  setup.backchannel[At(call.op)] = "credo" /\ call.phase = "post" /\ call.thread # NoThread
    => Ready

\* Every attempt comes to a verdict, and the retries to an end.
AttemptEnds == <>[](verdict # "running")

----------------------------------------------------------------------------
(* The refinement of Issuance.                                             *)

\* How far exchange t has come.
Stage(t) ==
  LET h == record["holder"][t]
      i == record["issuer"][t]
  IN IF h = "done" THEN 5
     ELSE IF i \in {"credential-issued", "done"} THEN 4
     ELSE IF h \in {"request-sent", "credential-received"} THEN 3
     ELSE IF i \in {"offer-sent", "request-received"} THEN 2
     ELSE IF h = "proposal-sent" THEN 1 ELSE 0

Abstract == INSTANCE Issuance WITH
  stage <- [t \in Threads |-> Stage(t)], current <- thread

\* The scenario keeps the promises of Issuance.
IssuanceSpec == Abstract!Spec
=============================================================================
