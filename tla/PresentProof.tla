----------------------------- MODULE PresentProof -----------------------------
(***************************************************************************)
(* The present-proof scenarios end to end: the steps of the harness        *)
(* (0037, 0454 and present-proof v3, with the revocation steps of 0011),   *)
(* the backchannels of prover and verifier (ACA-Py, Credo-TS or AFGO), and *)
(* their agents (external), which exchange messages.                       *)
(*                                                                         *)
(* Before it posts an operation on a thread, ACA-Py waits for a webhook of *)
(* the thread (and for a state, if it is to verify in version 1), Credo    *)
(* for the event of the state it needs, AFGO for the action webhook with   *)
(* the request it is to answer.  Afterwards AFGO takes the state of its    *)
(* answer from the webhook that came last, and a GET of a state pops it    *)
(* from the stack of the thread.                                           *)
(*                                                                         *)
(* A wait is bounded but its bound is not counted, except for the GETs     *)
(* that take something: it may end at any moment, and late remembers that  *)
(* what it waited for was under way.                                       *)
(***************************************************************************)
EXTENDS Integers, SequencesExt

CONSTANTS
  Threads,      \* thread ids
  NoThread,     \* None
  Scenarios,    \* [version, steps]
  MaxAttempts,  \* test_retry_attempts, of each scenario
  StatePolls    \* GETs of the harness' expected_agent_state

Deeds == {"propose", "request", "requestValid", "issue", "revoke", "present", "presentRevoked",
          "acknowledge", "verified", "unverified"}

ASSUME PresentProofAssumption ==
  /\ NoThread \notin Threads
  /\ Scenarios \subseteq [version : 1..3, steps : Seq(Deeds)]
  /\ MaxAttempts \in [Scenarios -> Nat \ {0}]
  /\ StatePolls \in Nat \ {0}

\* What the scenarios of the feature files have in common: they ask for a presentation after
\* whatever they do to credentials, and then only make it, verify it and look at the outcome;
\* those of RFC 0183 that ask for non-revocation use the steps of version 1, and show a revoked
\* credential only after revoking their own.
ASSUME ScenarioAssumption ==
  \A s \in Scenarios :
    LET n == Len(s.steps)
    IN /\ n >= 3
       /\ s.steps[n-2] \in {"present", "presentRevoked"}
       /\ s.steps[n-1] = "acknowledge"
       /\ s.steps[n] \in {"verified", "unverified"}
       /\ \A i \in 1..(n-3) : s.steps[i] \in {"propose", "request", "requestValid", "issue", "revoke"}
       /\ \A i \in 1..(n-3) : s.steps[i] = "requestValid" => s.version = 1
       /\ s.steps[n-2] = "presentRevoked" =>
            \E i \in 1..(n-3) : s.steps[i] = "revoke" /\ \A j \in 1..(i-1) : s.steps[j] # "issue"

\* Nobody proposes again between the last request and the presentation; RFC 0454 has no proposal,
\* and a verifier of version 3 does not ask again for what it has asked for.
ASSUME RequestAssumption ==
  \A s \in Scenarios :
    LET n == Len(s.steps)
        Requested(k) == \E i \in 1..(k-1) : /\ s.steps[i] \in {"request", "requestValid"}
                                           /\ \A j \in (i+1)..(k-1) : s.steps[j] # "propose"
    IN /\ Requested(n-2)
       /\ s.version = 2 => \A i \in 1..n : s.steps[i] # "propose"
       /\ s.version = 3 => \A i \in 1..n : s.steps[i] \in {"request", "requestValid"} => ~Requested(i)

\* The outcome a scenario names is that of its steps: a proof fails when non-revocation is asked
\* for, and a credential is shown that was revoked or, the latest one, has been revoked since.
\* (T002.1, T004 and T007 of RFC 0183, marked @wip, name others.)
ASSUME OutcomeAssumption ==
  \A s \in Scenarios :
    LET n == Len(s.steps)
    IN s.steps[n] = "unverified" <=>
         /\ \E i \in 1..n : s.steps[i] = "requestValid"
         /\ \/ s.steps[n-2] = "presentRevoked"
            \/ \E i \in 1..(n-1) : s.steps[i] = "revoke" /\ \A j \in (i+1)..(n-1) : s.steps[j] # "issue"

VARIABLES
  setup,       \* [scenario, backchannel]: chosen once
  record,      \* [Parties -> [Threads -> state]]: the records of the agents
  shown,       \* [Threads -> the credential presented, 0 for none]
  asked,       \* the threads whose request asks for non-revocation
  issued,      \* credentials issued so far: 1, 2 ...
  revoked,     \* those revoked
  wire,        \* messages under way between the agents
  notified,    \* [Parties -> set of <<thread, state>>]: ACA-Py webhooks filed, Credo events
  pending,     \* [Parties -> Seq of <<type, thread, state>>]: AFGO webhooks, not yet filed
  store,       \* [Parties -> Store!Stores]: the store of an AFGO backchannel
  stack,       \* [Threads -> Seq(States)]: the stacks of the prover's AFGO backchannel
  orphans,     \* [Threads -> Nat]: the get() tasks there whose GET was given up
  thread,              \* context.presentation_thread_id
  credential_id_dict,  \* the ids of the one credential type a scenario uses
  timeframe,           \* context.non_revoked_timeframe is set
  verification,        \* context.credential_verification_dict
  at,          \* index of the step of the scenario
  call,        \* the call being served, or Idle
  looks,       \* GETs of expected_agent_state that have taken a state or waited for one
  attempt,
  verdict,
  late,        \* history: a wait of this attempt ended while what it needed was under way,
               \* or AFGO failed it with the state of another exchange
  begun        \* history: the exchanges begun in this attempt

agentVars == <<record, shown, asked, wire>>
afgoVars == <<pending, store, stack, orphans>>
context == <<thread, credential_id_dict, timeframe, verification, begun>>
runVars == <<at, attempt, verdict>>
vars == <<setup, agentVars, issued, revoked, notified, afgoVars, context, runVars, call, looks, late>>

----------------------------------------------------------------------------
(* The protocol, as the agents play it.                                    *)

Parties == {"verifier", "prover"}
Other(p) == IF p = "verifier" THEN "prover" ELSE "verifier"

States == {"none", "proposal-sent", "proposal-received", "request-sent", "request-received",
           "presentation-sent", "presentation-received", "done"}

\* What an operation does to the record it is sent to, and the message it sends.
Moves ==
  {[op |-> "send-proposal", from |-> "none", to |-> "proposal-sent", message |-> "proposal"],
   [op |-> "send-request", from |-> "none", to |-> "request-sent", message |-> "request"],
   [op |-> "send-request", from |-> "proposal-received", to |-> "request-sent", message |-> "request"],
   [op |-> "send-presentation", from |-> "request-received", to |-> "presentation-sent",
    message |-> "presentation"],
   [op |-> "verify-presentation", from |-> "presentation-received", to |-> "done", message |-> "ack"]}

\* What a message does to the record of its receiver.
Arrivals ==
  {[message |-> "proposal", from |-> "none", to |-> "proposal-received"],
   [message |-> "request", from |-> "none", to |-> "request-received"],
   [message |-> "request", from |-> "proposal-sent", to |-> "request-received"],
   [message |-> "presentation", from |-> "request-sent", to |-> "presentation-received"],
   [message |-> "ack", from |-> "presentation-sent", to |-> "done"]}

Messages == {"proposal", "request", "presentation", "ack"}

\* The states with which AFGO asks its controller what to do, in an action webhook.
Asking == {"proposal-received", "request-received", "presentation-received"}

Store == INSTANCE Storage WITH
  DataIds <- Threads, DataTypes <- {"states", "actions"}, Messages <- States

Kind(p) == setup.backchannel[p]

\* The record of t at party p becomes s.  Credo's event reaches its replay subject in the
\* same step; AFGO sends its webhooks in order, those of ACA-Py come later.
SetRecord(p, t, s) ==
  /\ record' = [record EXCEPT ![p][t] = s]
  /\ notified' = IF Kind(p) = "credo" THEN [notified EXCEPT ![p] = @ \cup {<<t, s>>}] ELSE notified
  /\ pending' = IF Kind(p) = "afgo"
                THEN [pending EXCEPT ![p] = @ \o <<<<"states", t, s>>>> \o
                        (IF s \in Asking THEN <<<<"actions", t, s>>>> ELSE <<>>)]
                ELSE pending

Deliver ==
  /\ \E m \in wire, a \in Arrivals :
       /\ a.message = m.message
       /\ a.from = record[m.to][m.thread]
       /\ wire' = wire \ {m}
       /\ SetRecord(m.to, m.thread, a.to)
  /\ UNCHANGED <<setup, shown, asked, issued, revoked, store, stack, orphans, context, runVars,
                 call, looks, late>>

\* The first webhook of an ACA-Py agent about an exchange.  The swap only peeks, so those
\* that follow change nothing here.
Unheard(p, t) ==
  /\ Kind(p) = "acapy" /\ record[p][t] # "none"
  /\ \A s \in States : <<t, s>> \notin notified[p]

Webhook ==
  /\ \E p \in Parties, t \in Threads :
       /\ Unheard(p, t)
       /\ notified' = [notified EXCEPT ![p] = @ \cup {<<t, record[p][t]>>}]
  /\ UNCHANGED <<setup, agentVars, issued, revoked, afgoVars, context, runVars, call, looks, late>>

\* The stack of a thread.  A task that still waits there takes the state, and nobody sees it.
Push(t, s) ==
  IF orphans[t] > 0
  THEN orphans' = [orphans EXCEPT ![t] = @ - 1] /\ UNCHANGED stack
  ELSE stack' = [stack EXCEPT ![t] = Append(@, s)] /\ UNCHANGED orphans

\* The next webhook of an AFGO agent is filed, a state in the stack of its thread as well.
\* Only the prover is asked for states.
AfgoWebhook ==
  /\ \E p \in Parties :
       /\ pending[p] # <<>>
       /\ LET w == Head(pending[p]) IN
            /\ store' = [store EXCEPT ![p] = Store!push_resource(@, w[2], w[1], w[3])]
            /\ IF p = "prover" /\ w[1] = "states" THEN Push(w[2], w[3]) ELSE UNCHANGED <<stack, orphans>>
       /\ pending' = [pending EXCEPT ![p] = Tail(@)]
  /\ UNCHANGED <<setup, agentVars, issued, revoked, notified, context, runVars, call, looks, late>>

----------------------------------------------------------------------------
(* The harness.                                                            *)

Idle == [op |-> "idle", thread |-> NoThread, phase |-> "none"]

OperationOf ==
  [propose |-> "send-proposal", request |-> "send-request", requestValid |-> "send-request",
   present |-> "send-presentation", presentRevoked |-> "send-presentation",
   acknowledge |-> "verify-presentation", verified |-> "get", unverified |-> "get"]

Operations == {"send-proposal", "send-request", "send-presentation", "verify-presentation", "get"}

\* The party an operation is sent to.
At(op) == IF op \in {"send-request", "verify-presentation"} THEN "verifier" ELSE "prover"

Version == setup.scenario.version
Deed == setup.scenario.steps[at]
Running == verdict = "running" /\ call = Idle /\ at <= Len(setup.scenario.steps)

\* The thread a step names.  Version 3 answers the proposal, the others begin a new
\* exchange with every request.
Named(d) ==
  IF d = "propose" \/ (d \in {"request", "requestValid"} /\ Version < 3) THEN NoThread ELSE thread

\* Where a call begins at its backchannel.
Begins(op, t) ==
  CASE op = "get" -> "look"
    [] op # "get" /\ (t = NoThread \/ (Kind(At(op)) = "afgo" /\ op # "send-presentation")) -> "post"
    [] op # "get" /\ t # NoThread /\ Kind(At(op)) = "acapy" -> "swap"
    [] op # "get" /\ t # NoThread /\ Kind(At(op)) = "credo" -> "wait"
    [] OTHER -> "action"

\* Mutant: the timeframe is set after the request.
TimeframeBefore(d) == timeframe

\* "with credential validity" sets the timeframe and goes on with the plain step; nothing
\* takes it back before the scenario ends.
Timeframe(d) == timeframe \/ d = "requestValid"

\* A step of the scenario makes its call.
Step ==
  /\ Running
  /\ Deed \in DOMAIN OperationOf
  /\ LET op == OperationOf[Deed]
         t == Named(Deed)
     IN call' = [op |-> op, thread |-> t, phase |-> Begins(op, t)]
  /\ timeframe' = Timeframe(Deed)
  /\ credential_id_dict' = IF Deed = "presentRevoked" THEN Reverse(credential_id_dict)
                           ELSE credential_id_dict
  /\ UNCHANGED <<setup, agentVars, issued, revoked, notified, afgoVars, thread, verification, begun,
                 runVars, looks, late>>

\* Another credential is issued, by the steps of IssueCredential.
Issue ==
  /\ Running
  /\ Deed = "issue"
  /\ issued' = issued + 1
  /\ credential_id_dict' = Append(credential_id_dict, issued')
  /\ at' = at + 1
  /\ UNCHANGED <<setup, agentVars, revoked, notified, afgoVars, thread, timeframe, verification,
                 begun, attempt, verdict, call, looks, late>>

\* cred_rev_id is that of the credential stored last.
Revoke ==
  /\ Running
  /\ Deed = "revoke"
  /\ revoked' = revoked \cup {issued}
  /\ at' = at + 1
  /\ UNCHANGED <<setup, agentVars, issued, notified, afgoVars, context, attempt, verdict, call,
                 looks, late>>

Succeed ==
  /\ verdict = "running" /\ call = Idle
  /\ at > Len(setup.scenario.steps)
  /\ verdict' = "passed"
  /\ UNCHANGED <<setup, agentVars, issued, revoked, notified, afgoVars, context, at, attempt, call,
                 looks, late>>

\* Something about t is on its way to p.
UnderWay(p, t) ==
  \/ \E m \in wire : m.thread = t
  \/ \E i \in DOMAIN pending[p] : pending[p][i][2] = t
  \/ Unheard(p, t)

\* An assertion of the step fails: the scenario has failed.
Fails(l) ==
  /\ verdict' = "failed"
  /\ late' = (late \/ l)
  /\ call' = Idle
  /\ looks' = 0
  /\ UNCHANGED <<setup, context, at, attempt>>

FailScenario == Fails(UnderWay(At(call.op), call.thread))

\* Mutant: the context outlives the attempt.
RetryKeepsContext ==
  /\ verdict = "failed"
  /\ attempt < MaxAttempts[setup.scenario]
  /\ verdict' = "running" /\ attempt' = attempt + 1 /\ at' = 1
  /\ issued' = issued + 1
  /\ credential_id_dict' = <<issued'>>
  /\ begun' = {} /\ late' = FALSE
  /\ UNCHANGED <<setup, agentVars, revoked, notified, afgoVars, thread, timeframe, verification,
                 call, looks>>

\* scenario_autoretry runs the scenario again, hooks included, from a credential of its
\* own; the agents keep their records, the backchannels their webhooks.
Retry ==
  /\ verdict = "failed"
  /\ attempt < MaxAttempts[setup.scenario]
  /\ verdict' = "running" /\ attempt' = attempt + 1 /\ at' = 1
  /\ issued' = issued + 1
  /\ credential_id_dict' = <<issued'>>
  /\ thread' = NoThread /\ timeframe' = FALSE
  /\ verification' = [t \in Threads |-> "none"]
  /\ begun' = {} /\ late' = FALSE
  /\ UNCHANGED <<setup, agentVars, revoked, notified, afgoVars, call, looks>>

----------------------------------------------------------------------------
(* The waits of the backchannels.                                          *)

\* Mutant: the presentation is awaited under the name the prover gives the state.
AwaitedSent(op) == IF op = "verify-presentation" THEN "presentation-sent" ELSE "request-received"

\* The state whose event lets an operation of Credo go on.
Awaited(op) == IF op = "verify-presentation" THEN "presentation-received" ELSE "request-received"

\* What the call waits for is there.
WaitOver ==
  LET p == At(call.op)
  IN CASE call.phase = "wait" -> <<call.thread, Awaited(call.op)>> \in notified[p]
       [] call.phase = "swap" -> \E s \in States : <<call.thread, s>> \in notified[p]
       [] call.phase = "check" -> record[p][call.thread] = "presentation-received"
       [] call.phase = "action" -> Store!CanPop(store[p], <<call.thread, "actions">>)
       [] OTHER -> FALSE

\* Mutant: version 1 verifies without a look at the state.
ThenPost == "post"

\* Version 1 of ACA-Py looks at the state before it verifies.
Then ==
  IF call.phase = "swap" /\ call.op = "verify-presentation" /\ Version = 1 THEN "check" ELSE "post"

Proceed ==
  /\ call.phase \in {"wait", "swap", "check", "action"}
  /\ WaitOver
  /\ store' = IF call.phase = "action"
              THEN [store EXCEPT !["prover"] = Store!pop_resource(@, <<call.thread, "actions">>)]
              ELSE store
  /\ call' = [call EXCEPT !.phase = Then]
  /\ UNCHANGED <<setup, agentVars, issued, revoked, notified, pending, stack, orphans, context,
                 runVars, looks, late>>

\* Mutant: firstValueFrom without a timeout.
GiveUpButCredo ==
  /\ call.phase \in {"swap", "check", "action"}
  /\ ~WaitOver
  /\ FailScenario
  /\ UNCHANGED <<agentVars, issued, revoked, notified, afgoVars>>

\* The wait ends without: the answer is 500.
GiveUp ==
  /\ call.phase \in {"wait", "swap", "check", "action"}
  /\ ~WaitOver
  /\ FailScenario
  /\ UNCHANGED <<agentVars, issued, revoked, notified, afgoVars>>

----------------------------------------------------------------------------
(* The calls of the agents, and what the steps make of the answers.        *)

Fresh(t) == \A p \in Parties : record[p][t] = "none"

\* Threads are interchangeable until they begin.
NewThread == CHOOSE t \in Threads : Fresh(t)

\* Threads is a bound: a call that begins an exchange finds a thread left.
Spare == call.thread = NoThread => \E t \in Threads : Fresh(t)

\* The exchange a call is about.
Subject == IF call.thread = NoThread THEN NewThread ELSE call.thread

Fits(m, t) ==
  /\ m.op = call.op
  /\ m.from = record[At(call.op)][t]
  /\ (call.thread = NoThread) = (m.from = "none")

\* credential_id_dict[...][-1]
CredentialToShow(ids) == Last(ids)

\* The presentation of t satisfies its request.
Satisfies(t) == t \in asked => shown[t] \notin revoked

\* The answer of a call on t: what the step takes from it into the context.
Answered(t) ==
  /\ thread' = IF call.op = "send-proposal" THEN t
               ELSE IF call.op = "send-request" /\ (Version = 1 \/ thread = NoThread) THEN t
               ELSE thread
  /\ verification' = IF call.op = "verify-presentation"
                     THEN [verification EXCEPT ![thread] = IF Satisfies(t) THEN "true" ELSE "false"]
                     ELSE verification
  \* "sends a request for proof presentation" goes on with a look at the prover
  /\ IF call.op = "send-request" /\ Version = 1
     THEN call' = [op |-> "get", thread |-> t, phase |-> "look"] /\ UNCHANGED at
     ELSE call' = Idle /\ at' = at + 1

\* The agent accepts the operation.  AFGO's answer has no state yet.
Post ==
  /\ call.phase = "post"
  /\ Spare
  /\ LET t == Subject
         p == At(call.op)
     IN /\ \E m \in Moves :
             /\ Fits(m, t)
             /\ SetRecord(p, t, m.to)
             /\ wire' = wire \cup {[to |-> Other(p), thread |-> t, message |-> m.message]}
        /\ shown' = IF call.op = "send-presentation"
                    THEN [shown EXCEPT ![t] = CredentialToShow(credential_id_dict)] ELSE shown
        /\ asked' = IF call.op = "send-request" /\ timeframe THEN asked \cup {t} ELSE asked
        /\ begun' = IF call.thread = NoThread THEN begun \cup {t} ELSE begun
        /\ IF Kind(p) = "afgo"
           THEN /\ call' = [call EXCEPT !.phase = "state", !.thread = t]
                /\ UNCHANGED <<thread, verification, at>>
           ELSE Answered(t)
  /\ UNCHANGED <<setup, issued, revoked, store, stack, orphans, credential_id_dict, timeframe,
                 attempt, verdict, looks, late>>

\* The agent refuses an operation its record is not ready for.
Refused ==
  /\ call.phase = "post"
  /\ Spare
  /\ \A m \in Moves : ~Fits(m, Subject)
  /\ FailScenario
  /\ UNCHANGED <<agentVars, issued, revoked, notified, afgoVars>>

\* The webhook that came last made another exchange the latest.
Stray ==
  LET st == store[At(call.op)]
  IN ~Store!LatestRaises(st) /\ Store!LatestBox(st, "states")[1] # call.thread

\* AFGO's answer gets the state of the webhook that came last, of whatever thread
\* (pop_resource_latest); "acknowledges the proof" insists on "done".
StatePopped ==
  /\ call.phase = "state"
  /\ LET p == At(call.op) IN
       /\ ~Store!LatestRaises(store[p])
       /\ LET b == Store!LatestBox(store[p], "states") IN
            /\ Store!CanPop(store[p], b)
            /\ store' = [store EXCEPT ![p] = Store!pop_resource_latest(@, b)]
            /\ IF call.op = "verify-presentation" /\ Store!PoppedTail(store[p], b) # "done"
               THEN Fails(Stray \/ UnderWay(p, call.thread))
               ELSE Answered(call.thread)
                    /\ UNCHANGED <<setup, credential_id_dict, timeframe, begun, attempt, verdict,
                                   looks, late>>
  /\ UNCHANGED <<agentVars, issued, revoked, notified, pending, stack, orphans>>

\* No webhook at all is an IndexError, no state under the latest id a TypeError: 500.
NoStatePopped ==
  /\ call.phase = "state"
  /\ LET p == At(call.op) IN
       \/ Store!LatestRaises(store[p])
       \/ /\ ~Store!LatestRaises(store[p])
          /\ ~Store!CanPop(store[p], Store!LatestBox(store[p], "states"))
       /\ Fails(Stray \/ UnderWay(p, call.thread))
  /\ UNCHANGED <<agentVars, issued, revoked, notified, afgoVars>>

----------------------------------------------------------------------------
(* expected_agent_state: the prover is asked for the state of the thread.  *)

\* The states a step takes.
Wanted ==
  CASE Deed \in {"request", "requestValid"} -> {"request-received"}
    [] Deed = "verified" /\ Version = 1 -> {"done", "presentation-sent"}
    [] OTHER -> {"done"}

\* What the last step asks of the verification of the presentation.
AsExpected ==
  CASE Deed = "verified" -> verification[call.thread] \in {"none", "true"}
    [] Deed = "unverified" -> \/ \A t \in Threads : verification[t] = "none"
                              \/ verification[call.thread] = "false"
    [] OTHER -> TRUE

\* The state is one of those, and the step is over.
Seen ==
  /\ IF AsExpected
     THEN /\ at' = at + 1 /\ call' = Idle /\ looks' = 0
          /\ UNCHANGED <<setup, context, attempt, verdict, late>>
     ELSE FailScenario
  /\ UNCHANGED <<agentVars, issued, revoked, notified>>

\* ACA-Py and Credo look the record up; ACA-Py swaps the thread first.
InState ==
  /\ record["prover"][call.thread] \in Wanted
  /\ ~Unheard("prover", call.thread)

Look ==
  /\ call.phase = "look"
  /\ Kind("prover") # "afgo"
  /\ InState
  /\ Seen
  /\ UNCHANGED afgoVars

LookFails ==
  /\ call.phase = "look"
  /\ Kind("prover") # "afgo"
  /\ ~InState
  /\ FailScenario
  /\ UNCHANGED <<agentVars, issued, revoked, notified, afgoVars>>

\* Mutant: one GET too many.
LookedAgain(l) ==
  IF looks < StatePolls
  THEN looks' = looks + 1 /\ late' = l /\ UNCHANGED <<setup, context, runVars, call>>
  ELSE FailScenario

\* The GET was in vain.
Looked(l) ==
  IF looks + 1 < StatePolls
  THEN looks' = looks + 1 /\ late' = l /\ UNCHANGED <<setup, context, runVars, call>>
  ELSE FailScenario

\* AFGO pops the state that came last from the stack of the thread: it is gone.
LookPops ==
  /\ call.phase = "look"
  /\ Kind("prover") = "afgo"
  /\ stack[call.thread] # <<>>
  /\ stack' = [stack EXCEPT ![call.thread] = Front(@)]
  /\ IF Last(stack[call.thread]) \in Wanted THEN Seen
     ELSE Looked(late) /\ UNCHANGED <<agentVars, issued, revoked, notified>>
  /\ UNCHANGED <<pending, store, orphans>>

\* Its get() waits for MAX_TIMEOUT, and goes on waiting after the answer of 500.
LookTimesOut ==
  /\ call.phase = "look"
  /\ Kind("prover") = "afgo"
  /\ stack[call.thread] = <<>>
  /\ orphans' = [orphans EXCEPT ![call.thread] = @ + 1]
  /\ Looked(late \/ UnderWay("prover", call.thread))
  /\ UNCHANGED <<agentVars, issued, revoked, notified, pending, store, stack>>

----------------------------------------------------------------------------
\* AFGO and Credo play the versions their backchannels have operations for that fit the
\* steps: the controller of Credo for 0454 reads the request where no step puts it.
Plays(v) == CASE v = 1 -> {"acapy", "credo"} [] v = 2 -> {"acapy", "afgo"} [] v = 3 -> {"afgo"}

Setups ==
  {s \in [scenario : Scenarios, backchannel : [Parties -> {"acapy", "credo", "afgo"}]] :
     \A p \in Parties : s.backchannel[p] \in Plays(s.scenario.version)}

Init ==
  /\ setup \in Setups
  /\ record = [p \in Parties |-> [t \in Threads |-> "none"]]
  /\ shown = [t \in Threads |-> 0] /\ asked = {}
  /\ issued = 1 /\ revoked = {}
  /\ wire = {}
  /\ notified = [p \in Parties |-> {}]
  /\ pending = [p \in Parties |-> <<>>]
  /\ store = [p \in Parties |-> Store!EmptyStore]
  /\ stack = [t \in Threads |-> <<>>] /\ orphans = [t \in Threads |-> 0]
  /\ thread = NoThread /\ credential_id_dict = <<1>> /\ timeframe = FALSE
  /\ verification = [t \in Threads |-> "none"]
  /\ begun = {}
  /\ at = 1 /\ call = Idle /\ looks = 0
  /\ attempt = 1 /\ verdict = "running" /\ late = FALSE

Harness == Step \/ Issue \/ Revoke \/ Succeed \/ Retry \/ Look \/ LookFails
Served == Proceed \/ GiveUp \/ Post \/ Refused \/ StatePopped \/ NoStatePopped \/ LookPops \/ LookTimesOut

Next == Deliver \/ Webhook \/ AfgoWebhook \/ Harness \/ Served

\* The harness and the event loops of the backchannels go on, and every wait is bounded.
\* Nothing is assumed of the agents: messages and webhooks may never come.
Spec == Init /\ [][Next]_vars /\ WF_vars(Harness \/ Served)

----------------------------------------------------------------------------
(* Properties.                                                             *)

\* Every variable has its type.
TypeOK ==
  /\ setup \in Setups
  /\ record \in [Parties -> [Threads -> States]]
  /\ issued \in Nat \ {0}
  /\ shown \in [Threads -> 0..issued] /\ asked \subseteq Threads
  /\ revoked \subseteq 1..issued
  /\ wire \subseteq [to : Parties, thread : Threads, message : Messages]
  /\ notified \in [Parties -> SUBSET (Threads \X States)]
  /\ pending \in [Parties -> Seq({"states", "actions"} \X Threads \X States)]
  /\ store \in [Parties -> Store!Stores]
  /\ stack \in [Threads -> Seq(States)]
  /\ orphans \in [Threads -> Nat]
  /\ thread \in Threads \cup {NoThread}
  /\ credential_id_dict \in Seq(1..issued) /\ credential_id_dict # <<>>
  /\ timeframe \in BOOLEAN
  /\ verification \in [Threads -> {"none", "true", "false"}]
  /\ begun \subseteq Threads
  /\ at \in 1..(Len(setup.scenario.steps) + 1)
  /\ call \in [op : Operations \cup {"idle"}, thread : Threads \cup {NoThread},
               phase : {"none", "post", "wait", "swap", "check", "action", "state", "look"}]
  /\ looks \in 0..(StatePolls - 1)
  /\ attempt \in 1..MaxAttempts[setup.scenario]
  /\ verdict \in {"running", "passed", "failed"}
  /\ late \in BOOLEAN

ShowsRevoked == \E i \in DOMAIN setup.scenario.steps : setup.scenario.steps[i] = "presentRevoked"
AsksValid == \E i \in DOMAIN setup.scenario.steps : setup.scenario.steps[i] = "requestValid"

\* A scenario that passes has had a presentation of its own made and verified, of the
\* credential it means (the one issued last, or the one revoked), for a request that asks
\* for non-revocation where the scenario says so, with the outcome its last step names.
PassMeansVerified ==
  verdict = "passed" =>
    /\ thread \in begun
    /\ record["verifier"][thread] = "done"
    /\ record["prover"][thread] \in {"presentation-sent", "done"}
    /\ IF ShowsRevoked THEN shown[thread] \in revoked ELSE shown[thread] = issued
    /\ AsksValid = (thread \in asked)
    /\ Satisfies(thread) = (Last(setup.scenario.steps) = "verified")

\* A call never names an exchange of an earlier attempt, which may look as if it were in
\* the right state.
OnlyThisAttempt == call.thread # NoThread => call.thread \in begun

\* Where agents answer in time, no interleaving of steps, waits, messages and webhooks
\* fails a scenario, AFGO's GETs that take the state they look at included.  (A message of
\* an earlier attempt that reaches an AFGO agent late is excused: its webhook makes its
\* exchange the latest, and AFGO answers with its state.)
FailsOnlyWhenLate == verdict = "failed" => late

\* After the waits of Credo, and of ACA-Py before it verifies in version 1, the agent
\* accepts what is posted to it.
VerifiedInState ==
  /\ call.phase = "post" /\ call.thread # NoThread
  /\ \/ Kind(At(call.op)) = "credo"
     \/ Kind(At(call.op)) = "acapy" /\ call.op = "verify-presentation" /\ Version = 1
  => \E m \in Moves : Fits(m, call.thread)

\* Every attempt comes to a verdict, and the retries to an end.
AttemptEnds == <>[](verdict # "running")
=============================================================================
