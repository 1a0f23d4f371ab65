------------------------- MODULE PresentProofProofs -------------------------
(***************************************************************************)
(* Proofs about PresentProof, for any threads, any scenarios and any       *)
(* number of attempts.                                                     *)
(***************************************************************************)
EXTENDS PresentProof, TLAPS

ACall == call = [op |-> call.op, thread |-> call.thread, phase |-> call.phase]

\* What the context and the call name was begun in this attempt, and an attempt that is over
\* makes no call, so that none lives to see the next one.
Own ==
  /\ ACall
  /\ thread # NoThread => thread \in begun
  /\ call.thread # NoThread => call.thread \in begun
  /\ verdict # "running" => call = Idle

LEMMA OwnCalls ==
  ASSUME Own, call.phase # "none"
  PROVE  verdict = "running"
BY DEF Own, Idle

LEMMA FailsKeepsOwn ==
  ASSUME Own, NEW l, Fails(l)
  PROVE  Own'
BY DEF Fails, context, Own, ACall, Idle

\* An answer about t, which the call named or has just begun.
LEMMA AnswerKeepsOwn ==
  ASSUME Own, NEW t, Answered(t), verdict' = verdict, verdict = "running",
         begun \subseteq begun', t # NoThread => t \in begun'
  PROVE  Own'
<1>1. thread' \in {thread, t} BY DEF Answered
<1>2. call' = [op |-> "get", thread |-> t, phase |-> "look"] \/ call' = Idle BY DEF Answered
<1> QED BY <1>1, <1>2 DEF Own, ACall, Idle

LEMMA PostKeepsOwn ==
  ASSUME Own, Post
  PROVE  Own'
<1>1. verdict = "running" /\ verdict' = verdict BY OwnCalls DEF Post
<1>2. begun \subseteq begun' /\ (Subject # NoThread => Subject \in begun')
  BY DEF Post, Subject, Own
<1>3. CASE Kind(At(call.op)) = "afgo"
  <2>1. thread' = thread /\ call' = [call EXCEPT !.phase = "state", !.thread = Subject]
    BY <1>3 DEF Post
  <2>2. call' = [op |-> call.op, thread |-> Subject, phase |-> "state"]
    BY <2>1 DEF Own, ACall
  <2> QED BY <1>1, <1>2, <2>1, <2>2 DEF Own, ACall, Idle
<1>4. CASE Kind(At(call.op)) # "afgo"
  <2>1. Answered(Subject) BY <1>4 DEF Post
  <2> QED BY <1>1, <1>2, <2>1, AnswerKeepsOwn
<1> QED BY <1>3, <1>4

LEMMA LookKeepsOwn ==
  ASSUME Own, Seen \/ (\E l : Looked(l)), call.phase = "look"
  PROVE  Own'
<1>1. verdict = "running" BY OwnCalls
<1>2. CASE Seen
  <2>1. CASE AsExpected BY <1>1, <1>2, <2>1 DEF Seen, context, Own, ACall, Idle
  <2>2. CASE ~AsExpected BY <1>2, <2>2, FailsKeepsOwn DEF Seen, FailScenario
  <2> QED BY <2>1, <2>2
<1>3. CASE \E l : Looked(l)
  <2>1. CASE looks + 1 < StatePolls BY <1>1, <1>3, <2>1 DEF Looked, context, runVars, Own, ACall, Idle
  <2>2. CASE ~(looks + 1 < StatePolls) BY <1>3, <2>2, FailsKeepsOwn DEF Looked, FailScenario
  <2> QED BY <2>1, <2>2
<1> QED BY <1>2, <1>3

LEMMA OwnStep ==
  ASSUME Own, [Next]_vars
  PROVE  Own'
<1>1. CASE Deliver BY <1>1 DEF Deliver, context, runVars, Own, ACall, Idle
<1>2. CASE Webhook BY <1>2 DEF Webhook, context, runVars, Own, ACall, Idle
<1>3. CASE AfgoWebhook BY <1>3 DEF AfgoWebhook, context, runVars, Own, ACall, Idle
<1>4. CASE Step
  <2>1. thread' = thread /\ begun' = begun /\ verdict' = verdict /\ verdict = "running"
    BY <1>4 DEF Step, Running, runVars
  <2>2. PICK op, t : t \in {thread, NoThread}
                     /\ call' = [op |-> op, thread |-> t, phase |-> Begins(op, t)]
    BY <1>4 DEF Step, Named
  <2> QED BY <2>1, <2>2 DEF Own, ACall
<1>5. CASE Issue BY <1>5 DEF Issue, Running, Own, ACall, Idle
<1>6. CASE Revoke BY <1>6 DEF Revoke, Running, context, Own, ACall, Idle
<1>7. CASE Succeed BY <1>7 DEF Succeed, context, Own, ACall, Idle
<1>8. CASE Retry BY <1>8 DEF Retry, Own, ACall, Idle
<1>9. CASE Look BY <1>9, LookKeepsOwn DEF Look
<1>10. CASE LookFails BY <1>10, FailsKeepsOwn DEF LookFails, FailScenario
<1>11. CASE Proceed
  <2>1. call' = [call EXCEPT !.phase = Then] /\ UNCHANGED <<thread, begun, verdict>>
        /\ verdict = "running"
    BY <1>11, OwnCalls DEF Proceed, context, runVars
  <2> QED BY <2>1 DEF Own, ACall
<1>12. CASE GiveUp BY <1>12, FailsKeepsOwn DEF GiveUp, FailScenario
<1>13. CASE Post BY <1>13, PostKeepsOwn
<1>14. CASE Refused BY <1>14, FailsKeepsOwn DEF Refused, FailScenario
<1>15. CASE StatePopped
  <2>1. CASE \E l : Fails(l) BY <2>1, FailsKeepsOwn
  <2>2. CASE Answered(call.thread) /\ UNCHANGED <<begun, verdict>>
    <3>1. verdict = "running" BY <1>15, OwnCalls DEF StatePopped
    <3> QED BY <2>2, <3>1, AnswerKeepsOwn DEF Own
  <2> QED BY <1>15, <2>1, <2>2 DEF StatePopped
<1>16. CASE NoStatePopped BY <1>16, FailsKeepsOwn DEF NoStatePopped
<1>17. CASE LookPops BY <1>17, LookKeepsOwn DEF LookPops
<1>18. CASE LookTimesOut BY <1>18, LookKeepsOwn DEF LookTimesOut
<1>19. CASE UNCHANGED vars BY <1>19 DEF vars, context, runVars, Own, ACall, Idle
<1> QED
  BY <1>1, <1>2, <1>3, <1>4, <1>5, <1>6, <1>7, <1>8, <1>9, <1>10, <1>11, <1>12, <1>13, <1>14,
     <1>15, <1>16, <1>17, <1>18, <1>19
  DEF Next, Harness, Served

\* No request of an attempt names an exchange of an earlier one, though the agents and the
\* backchannels still have those, some of them in the very state a step looks for.
THEOREM CallsOfThisAttempt == Spec => []OnlyThisAttempt
<1>1. Init => Own BY DEF Init, Own, ACall, Idle
<1>2. Own /\ [Next]_vars => Own' BY OwnStep
<1>3. Own => OnlyThisAttempt BY DEF Own, OnlyThisAttempt
<1> QED BY <1>1, <1>2, <1>3, PTL DEF Spec

----------------------------------------------------------------------------
(* The operations of the store, and the ends of a sequence.                *)

\* push_resource files a message.
LEMMA PushStore ==
  ASSUME NEW st \in Store!Stores, NEW t \in Threads, NEW type \in {"states", "actions"},
         NEW s \in States
  PROVE  Store!push_resource(st, t, type, s) \in Store!Stores
<1>1. /\ st.order \in Seq(Threads) /\ st.has \in SUBSET Store!Boxes
      /\ st.list \in [Store!Boxes -> Seq(States)]
  BY DEF Store!Stores
<1>2. <<t, type>> \in Store!Boxes
  BY DEF Store!Boxes
<1>3. Append(st.order, t) \in Seq(Threads)
  BY <1>1
<1>4. Append(st.list[<<t, type>>], s) \in Seq(States)
  BY <1>1, <1>2
<1> QED
  BY <1>1, <1>2, <1>3, <1>4 DEF Store!push_resource, Store!Stores

\* pop_resource drops the head of one list.
LEMMA PopStore ==
  ASSUME NEW st \in Store!Stores, NEW b, Store!CanPop(st, b)
  PROVE  Store!pop_resource(st, b) \in Store!Stores
<1>1. /\ st.order \in Seq(Threads) /\ st.has \in SUBSET Store!Boxes
      /\ st.list \in [Store!Boxes -> Seq(States)]
  BY DEF Store!Stores
<1>2. b \in Store!Boxes /\ st.list[b] # <<>>
  BY <1>1 DEF Store!CanPop
<1>3. Tail(st.list[b]) \in Seq(States)
  BY <1>1, <1>2
<1> QED
  BY <1>1, <1>3 DEF Store!pop_resource, Store!Stores

\* pop_resource_latest drops the last element of one list.
LEMMA PopLatestStore ==
  ASSUME NEW st \in Store!Stores, NEW b, Store!CanPop(st, b)
  PROVE  Store!pop_resource_latest(st, b) \in Store!Stores
<1>1. /\ st.order \in Seq(Threads) /\ st.has \in SUBSET Store!Boxes
      /\ st.list \in [Store!Boxes -> Seq(States)]
  BY DEF Store!Stores
<1>2. b \in Store!Boxes /\ st.list[b] # <<>>
  BY <1>1 DEF Store!CanPop
<1>3. SubSeq(st.list[b], 1, Len(st.list[b]) - 1) \in Seq(States)
  BY <1>1, <1>2
<1> QED
  BY <1>1, <1>3 DEF Store!pop_resource_latest, Store!Stores

LEMMA EndFacts ==
  ASSUME NEW S, NEW s \in Seq(S), s # <<>>
  PROVE  /\ Front(s) \in Seq(S) /\ Last(s) \in S /\ Reverse(s) \in Seq(S) /\ Reverse(s) # <<>>
         /\ Last(Reverse(s)) = s[1] /\ Len(s) \in Nat \ {0}
<1>1. Len(s) \in Nat \ {0}
  OBVIOUS
<1>2. Front(s) \in Seq(S) /\ Last(s) \in S
  BY <1>1 DEF Front, Last
<1>3. \A i \in 1..Len(s) : (Len(s) - i) + 1 \in 1..Len(s)
  BY <1>1
<1>4. \A i \in 1..Len(s) : s[(Len(s) - i) + 1] \in S
  BY <1>3
<1>5. Reverse(s) \in Seq(S) /\ Len(Reverse(s)) = Len(s)
  BY <1>1, <1>4 DEF Reverse
<1>6. Reverse(s) # <<>>
  BY <1>1, <1>5
<1>7. Last(Reverse(s)) = s[1]
  <2>1. Len(s) \in 1..Len(s) /\ (Len(s) - Len(s)) + 1 = 1
    BY <1>1
  <2>2. Reverse(s)[Len(s)] = s[1]
    BY <2>1 DEF Reverse
  <2> QED
    BY <1>5, <2>2 DEF Last
<1> QED
  BY <1>1, <1>2, <1>5, <1>6, <1>7

LEMMA AppendFacts ==
  ASSUME NEW S, NEW s \in Seq(S), NEW x \in S
  PROVE  /\ Append(s, x) \in Seq(S) /\ Append(s, x) # <<>> /\ Last(Append(s, x)) = x
         /\ s # <<>> => Append(s, x)[1] = s[1]
<1>1. Append(s, x) \in Seq(S) /\ Len(Append(s, x)) = Len(s) + 1 /\ Append(s, x)[Len(s) + 1] = x
      /\ Len(s) \in Nat
  OBVIOUS
<1>2. s # <<>> => Append(s, x)[1] = s[1]
  BY <1>1
<1>3. Append(s, x) # <<>>
  BY <1>1
<1> QED
  BY <1>1, <1>2, <1>3 DEF Last

----------------------------------------------------------------------------
(* What the scenarios and the tables say.                                  *)

Steps == setup.scenario.steps
N == Len(Steps)

LEMMA ScenarioFacts ==
  ASSUME setup \in Setups
  PROVE  /\ N \in Nat /\ N >= 3 /\ Version \in 1..3
         /\ \A i \in 1..N : Steps[i] \in Deeds
         /\ Steps[N-2] \in {"present", "presentRevoked"} /\ Steps[N-1] = "acknowledge"
         /\ Steps[N] \in {"verified", "unverified"}
         /\ \A i \in 1..(N-3) : Steps[i] \in {"propose", "request", "requestValid", "issue", "revoke"}
         /\ \A i \in 1..(N-3) : Steps[i] = "requestValid" => Version = 1
         /\ Steps[N-2] = "presentRevoked" =>
              \E i \in 1..(N-3) : Steps[i] = "revoke" /\ \A j \in 1..(i-1) : Steps[j] # "issue"
         /\ MaxAttempts[setup.scenario] \in Nat \ {0}
<1>1. setup.scenario \in Scenarios
  BY DEF Setups
<1>2. setup.scenario.steps \in Seq(Deeds) /\ setup.scenario.version \in 1..3
  BY <1>1, PresentProofAssumption
<1>3. MaxAttempts[setup.scenario] \in Nat \ {0}
  BY <1>1, PresentProofAssumption
<1> QED
  BY <1>1, <1>2, <1>3, ScenarioAssumption DEF Steps, N, Version

LEMMA KindFacts ==
  ASSUME setup \in Setups, NEW p \in Parties
  PROVE  /\ Kind(p) \in {"acapy", "credo", "afgo"}
         /\ Version = 1 => Kind(p) # "afgo"
         /\ Version = 2 => Kind(p) # "credo"
         /\ Version = 3 => Kind(p) = "afgo"
<1>1. Version \in 1..3
  BY ScenarioFacts
<1>2. Kind(p) \in Plays(Version)
  BY DEF Setups, Kind, Version
<1> QED
  BY <1>1, <1>2 DEF Plays

LEMMA DeedFacts ==
  ASSUME NEW d \in DOMAIN OperationOf
  PROVE  /\ OperationOf[d] \in Operations
         /\ OperationOf[d] = "send-proposal" <=> d = "propose"
         /\ OperationOf[d] = "send-request" <=> d \in {"request", "requestValid"}
         /\ OperationOf[d] = "send-presentation" <=> d \in {"present", "presentRevoked"}
         /\ OperationOf[d] = "verify-presentation" <=> d = "acknowledge"
         /\ OperationOf[d] = "get" <=> d \in {"verified", "unverified"}
BY DEF OperationOf, Operations

LEMMA OperationDomain ==
  DOMAIN OperationOf = {"propose", "request", "requestValid", "present", "presentRevoked",
                        "acknowledge", "verified", "unverified"}
BY DEF OperationOf

\* Where a deed stands in its scenario.
LEMMA PlaceOfDeed ==
  ASSUME setup \in Setups, at \in 1..N
  PROVE  /\ Deed = Steps[at] /\ Deed \in Deeds
         /\ Deed \in {"present", "presentRevoked"} <=> at = N-2
         /\ Deed = "acknowledge" <=> at = N-1
         /\ Deed \in {"verified", "unverified"} <=> at = N
         /\ Deed \in {"propose", "request", "requestValid", "issue", "revoke"} <=> at \in 1..(N-3)
<1>1. /\ N \in Nat /\ N >= 3 /\ \A i \in 1..N : Steps[i] \in Deeds
      /\ Steps[N-2] \in {"present", "presentRevoked"} /\ Steps[N-1] = "acknowledge"
      /\ Steps[N] \in {"verified", "unverified"}
      /\ \A i \in 1..(N-3) : Steps[i] \in {"propose", "request", "requestValid", "issue", "revoke"}
  BY ScenarioFacts
<1>2. Deed = Steps[at] /\ Deed \in Deeds
  BY <1>1 DEF Deed, Steps
<1>3. at \in 1..(N-3) \/ at = N-2 \/ at = N-1 \/ at = N
  BY <1>1
<1>4. CASE at \in 1..(N-3)
  BY <1>1, <1>2, <1>4
<1>5. CASE at = N-2
  BY <1>1, <1>2, <1>5
<1>6. CASE at = N-1
  BY <1>1, <1>2, <1>6
<1>7. CASE at = N
  BY <1>1, <1>2, <1>7
<1> QED
  BY <1>3, <1>4, <1>5, <1>6, <1>7

LEMMA MoveFacts ==
  ASSUME NEW m \in Moves
  PROVE  /\ m.op \in Operations \ {"get"} /\ m.from \in States /\ m.to \in States
         /\ m.message \in Messages
         /\ m.op = "send-proposal" => m.from = "none" /\ m.to = "proposal-sent" /\ m.message = "proposal"
         /\ m.op = "send-request" => /\ m.from \in {"none", "proposal-received"}
                                     /\ m.to = "request-sent" /\ m.message = "request"
         /\ m.op = "send-presentation" => /\ m.from = "request-received"
                                          /\ m.to = "presentation-sent" /\ m.message = "presentation"
         /\ m.op = "verify-presentation" => /\ m.from = "presentation-received"
                                            /\ m.to = "done" /\ m.message = "ack"
BY DEF Moves, Operations, States, Messages

LEMMA ArrivalFacts ==
  ASSUME NEW a \in Arrivals
  PROVE  /\ a.message \in Messages /\ a.from \in States /\ a.to \in States
         /\ a.message = "proposal" => a.from = "none" /\ a.to = "proposal-received"
         /\ a.message = "request" => a.from \in {"none", "proposal-sent"} /\ a.to = "request-received"
         /\ a.message = "presentation" => a.from = "request-sent" /\ a.to = "presentation-received"
         /\ a.message = "ack" => a.from = "presentation-sent" /\ a.to = "done"
BY DEF Arrivals, States, Messages

LEMMA PartyOf ==
  ASSUME NEW op
  PROVE  At(op) \in Parties /\ Other(At(op)) \in Parties /\ At(op) # Other(At(op))
BY DEF At, Other, Parties

----------------------------------------------------------------------------
(* Types, and the place of a call.                                         *)

Presenting == {"send-presentation", "verify-presentation"}

\* A call belongs to the step the scenario is at.  It names the exchange of the context, but
\* for one that AFGO has begun and not answered yet; and each wait is of one framework.
Placed ==
  /\ call # Idle => /\ at <= N
                    /\ \/ Deed \in DOMAIN OperationOf /\ call.op = OperationOf[Deed]
                       \/ call.op = "get" /\ Deed \in {"request", "requestValid"} /\ Version = 1
  /\ call.phase = "look" <=> call.op = "get"
  /\ call.op \in Presenting \cup {"get"} => call.thread = thread
  /\ call.phase # "state" /\ call.thread # NoThread => call.thread = thread
  /\ call.op \in {"send-proposal", "send-request"} /\ call.thread # NoThread => Kind(At(call.op)) = "afgo"
  /\ call.phase = "state" => call.thread \in Threads /\ Kind(At(call.op)) = "afgo"
  /\ call.phase = "wait" => Kind(At(call.op)) = "credo"
  /\ call.phase \in {"swap", "check"} => Kind(At(call.op)) = "acapy"
  /\ call.phase = "action" => call.op = "send-presentation" /\ Kind("prover") = "afgo"
  /\ verdict = "passed" => at > N

IInv == TypeOK /\ Own /\ Placed

\* A call to be served is one of the step it stands at.
LEMMA CallFacts ==
  ASSUME IInv, call.op # "idle" \/ call.phase # "none"
  PROVE  /\ call # Idle /\ verdict = "running" /\ at \in 1..N /\ N \in Nat
         /\ call.op \in Operations
         /\ call.op = "send-proposal" => Deed = "propose" /\ at < N-2
         /\ call.op = "send-request" => Deed \in {"request", "requestValid"} /\ at < N-2
         /\ call.op = "send-presentation" <=> at = N-2
         /\ call.op = "verify-presentation" <=> at = N-1
         /\ at = N => call.op = "get"
         /\ at > N-3 => Deed = Steps[at]
         /\ call.op = "get" => at = N \/ (Version = 1 /\ at < N-2 /\ Deed \in {"request", "requestValid"})
<1>1. call # Idle /\ setup \in Setups
  BY DEF Idle, IInv, TypeOK
<1>2. verdict = "running" /\ at \in 1..N /\ N \in Nat /\ N >= 3
  BY <1>1, ScenarioFacts DEF IInv, TypeOK, Own, Placed, N, Steps
<1>3. /\ Deed = Steps[at] /\ Deed \in Deeds
      /\ Deed \in {"present", "presentRevoked"} <=> at = N-2
      /\ Deed = "acknowledge" <=> at = N-1
      /\ Deed \in {"verified", "unverified"} <=> at = N
      /\ Deed \in {"propose", "request", "requestValid", "issue", "revoke"} <=> at \in 1..(N-3)
  BY <1>1, <1>2, PlaceOfDeed
<1>4. CASE call.op = "get" /\ Deed \in {"request", "requestValid"} /\ Version = 1
  BY <1>1, <1>2, <1>3, <1>4 DEF Operations
<1>5. CASE call.op = OperationOf[Deed] /\ Deed \in DOMAIN OperationOf
  BY <1>1, <1>2, <1>3, <1>5, DeedFacts
<1> QED
  BY <1>1, <1>4, <1>5 DEF IInv, Placed

\* The variables of the agents and the backchannels, of the harness' context, and of its run.
DataTyped ==
  /\ record \in [Parties -> [Threads -> States]]
  /\ issued \in Nat \ {0}
  /\ shown \in [Threads -> 0..issued] /\ asked \subseteq Threads
  /\ revoked \subseteq 1..issued
  /\ wire \subseteq [to : Parties, thread : Threads, message : Messages]
  /\ notified \in [Parties -> SUBSET (Threads \X States)]
  /\ pending \in [Parties -> Seq({"states", "actions"} \X Threads \X States)]
  /\ store \in [Parties -> Store!Stores]
  /\ stack \in [Threads -> Seq(States)]
  /\ orphans \in [Threads -> Nat]

ContextTyped ==
  /\ thread \in Threads \cup {NoThread}
  /\ credential_id_dict \in Seq(1..issued) /\ credential_id_dict # <<>>
  /\ timeframe \in BOOLEAN
  /\ verification \in [Threads -> {"none", "true", "false"}]
  /\ begun \subseteq Threads

Calls == [op : Operations \cup {"idle"}, thread : Threads \cup {NoThread},
          phase : {"none", "post", "wait", "swap", "check", "action", "state", "look"}]

RunTyped ==
  /\ at \in 1..(N + 1)
  /\ call \in Calls
  /\ looks \in 0..(StatePolls - 1)
  /\ attempt \in 1..MaxAttempts[setup.scenario]
  /\ verdict \in {"running", "passed", "failed"}
  /\ late \in BOOLEAN

LEMMA TypeParts == TypeOK <=> setup \in Setups /\ DataTyped /\ ContextTyped /\ RunTyped
BY DEF TypeOK, DataTyped, ContextTyped, RunTyped, Calls, N, Steps

LEMMA TypePartsLater == TypeOK' <=> setup' \in Setups /\ DataTyped' /\ ContextTyped' /\ RunTyped'
BY DEF TypeOK, DataTyped, ContextTyped, RunTyped, Calls, N, Steps

LEMMA InitI == Init => IInv
<1> SUFFICES ASSUME Init PROVE IInv
  OBVIOUS
<1>0. setup \in Setups
  BY DEF Init
<1>1. N \in Nat /\ N >= 3 /\ MaxAttempts[setup.scenario] \in Nat \ {0}
  BY <1>0, ScenarioFacts
<1>2. Store!EmptyStore \in Store!Stores
  BY DEF Store!EmptyStore, Store!Stores
<1>3. DataTyped
  BY <1>2 DEF Init, DataTyped, States, Parties
<1>4. ContextTyped
  <2>1. <<1>> \in Seq(1..1) /\ <<1>> # <<>>
    OBVIOUS
  <2> QED
    BY <2>1 DEF Init, ContextTyped
<1>5. RunTyped
  <2>1. 1 \in 1..(N + 1) /\ 0 \in 0..(StatePolls - 1) /\ 1 \in 1..MaxAttempts[setup.scenario]
    BY <1>1, PresentProofAssumption
  <2>2. Idle \in Calls
    BY DEF Idle, Calls
  <2> QED
    BY <2>1, <2>2 DEF Init, RunTyped
<1>6. Own /\ Placed
  BY DEF Init, Own, Placed, ACall, Idle, Presenting
<1> QED
  BY <1>0, <1>3, <1>4, <1>5, <1>6, TypeParts DEF IInv

\* A record that changes stays a record, and nothing else is told of it but its new state.
LEMMA SetRecordTypes ==
  ASSUME TypeOK, NEW p \in Parties, NEW t \in Threads, NEW s \in States, SetRecord(p, t, s)
  PROVE  /\ record' \in [Parties -> [Threads -> States]]
         /\ notified' \in [Parties -> SUBSET (Threads \X States)]
         /\ pending' \in [Parties -> Seq({"states", "actions"} \X Threads \X States)]
         /\ record'[p][t] = s
         /\ \A q \in Parties, u \in Threads : <<q, u>> # <<p, t>> => record'[q][u] = record[q][u]
         /\ \A q \in Parties : \A u, x : <<u, x>> \in notified'[q] =>
              <<u, x>> \in notified[q] \/ (q = p /\ u = t /\ x = s)
<1>1. record' = [record EXCEPT ![p][t] = s] /\ record \in [Parties -> [Threads -> States]]
  BY DEF SetRecord, TypeOK
<1>2. /\ notified' \in [Parties -> SUBSET (Threads \X States)]
      /\ \A q \in Parties : \A u, x : <<u, x>> \in notified'[q] =>
              <<u, x>> \in notified[q] \/ (q = p /\ u = t /\ x = s)
  <2>1. notified \in [Parties -> SUBSET (Threads \X States)]
    BY DEF TypeOK
  <2>2. CASE Kind(p) = "credo"
    BY <2>1, <2>2 DEF SetRecord
  <2>3. CASE Kind(p) # "credo"
    BY <2>1, <2>3 DEF SetRecord
  <2> QED
    BY <2>2, <2>3
<1>3. pending' \in [Parties -> Seq({"states", "actions"} \X Threads \X States)]
  <2> DEFINE W == {"states", "actions"} \X Threads \X States
  <2>1. pending \in [Parties -> Seq(W)]
    BY DEF TypeOK
  <2>2. <<"states", t, s>> \in W /\ <<"actions", t, s>> \in W
    OBVIOUS
  <2> HIDE DEF W
  <2>3. pending[p] \o <<<<"states", t, s>>>> \o (IF s \in Asking THEN <<<<"actions", t, s>>>> ELSE <<>>) \in Seq(W)
    <3>1. pending[p] \in Seq(W) /\ <<<<"states", t, s>>>> \in Seq(W) /\ <<<<"actions", t, s>>>> \in Seq(W)
          /\ <<>> \in Seq(W)
      BY <2>1, <2>2
    <3>2. (IF s \in Asking THEN <<<<"actions", t, s>>>> ELSE <<>>) \in Seq(W)
      BY <3>1
    <3> QED
      BY <3>1, <3>2
  <2>4. pending' \in [Parties -> Seq(W)]
    BY <2>1, <2>3 DEF SetRecord
  <2> QED
    BY <2>4 DEF W
<1> QED
  BY <1>1, <1>2, <1>3

\* Steps of the agents and their webhooks leave the harness alone.
LEMMA AgentsI ==
  ASSUME IInv, UNCHANGED <<setup, issued, context, runVars, call, looks, late>>, DataTyped'
  PROVE  TypeOK' /\ Placed'
<1>1. RunTyped' /\ ContextTyped' /\ setup' \in Setups
  BY TypeParts DEF IInv, RunTyped, ContextTyped, runVars, context, N, Steps
<1>2. Placed'
  BY DEF IInv, Placed, runVars, context, Idle, Kind, Deed, Version, N, Steps
<1> QED
  BY <1>1, <1>2, TypePartsLater

LEMMA DeliverI == IInv /\ Deliver => TypeOK' /\ Placed'
<1> SUFFICES ASSUME IInv, Deliver PROVE TypeOK' /\ Placed'
  OBVIOUS
<1>1. PICK m \in wire, a \in Arrivals :
        wire' = wire \ {m} /\ SetRecord(m.to, m.thread, a.to)
  BY DEF Deliver
<1>2. TypeOK /\ m.to \in Parties /\ m.thread \in Threads /\ a.to \in States
  BY ArrivalFacts DEF IInv, TypeOK
<1>3. /\ record' \in [Parties -> [Threads -> States]]
      /\ notified' \in [Parties -> SUBSET (Threads \X States)]
      /\ pending' \in [Parties -> Seq({"states", "actions"} \X Threads \X States)]
  BY <1>1, <1>2, SetRecordTypes
<1>4. UNCHANGED <<setup, shown, asked, issued, revoked, store, stack, orphans, context, runVars,
                  call, looks, late>>
  BY DEF Deliver
<1>5. DataTyped'
  BY <1>1, <1>2, <1>3, <1>4, TypeParts DEF DataTyped
<1> QED
  BY <1>4, <1>5, AgentsI

LEMMA WebhookI == IInv /\ Webhook => TypeOK' /\ Placed'
<1> SUFFICES ASSUME IInv, Webhook PROVE TypeOK' /\ Placed'
  OBVIOUS
<1>1. UNCHANGED <<setup, agentVars, issued, revoked, afgoVars, context, runVars, call, looks, late>>
  BY DEF Webhook
<1>2. DataTyped
  BY TypeParts DEF IInv
<1>2a. notified' \in [Parties -> SUBSET (Threads \X States)]
  <2>1. PICK p \in Parties, t \in Threads : notified' = [notified EXCEPT ![p] = @ \cup {<<t, record[p][t]>>}]
    BY DEF Webhook
  <2>2. <<t, record[p][t]>> \in Threads \X States
    BY <1>2 DEF DataTyped
  <2> QED
    BY <1>2, <2>1, <2>2 DEF DataTyped
<1>3. DataTyped'
  BY <1>1, <1>2, <1>2a DEF DataTyped, agentVars, afgoVars
<1> QED
  BY <1>1, <1>3, AgentsI

LEMMA AfgoWebhookI == IInv /\ AfgoWebhook => TypeOK' /\ Placed'
<1> SUFFICES ASSUME IInv, AfgoWebhook PROVE TypeOK' /\ Placed'
  OBVIOUS
<1> DEFINE W == {"states", "actions"} \X Threads \X States
<1>1. UNCHANGED <<setup, agentVars, issued, revoked, notified, context, runVars, call, looks, late>>
  BY DEF AfgoWebhook
<1>2. PICK p \in Parties :
        /\ pending[p] # <<>>
        /\ LET w == Head(pending[p]) IN
            /\ store' = [store EXCEPT ![p] = Store!push_resource(@, w[2], w[1], w[3])]
            /\ IF p = "prover" /\ w[1] = "states" THEN Push(w[2], w[3]) ELSE UNCHANGED <<stack, orphans>>
        /\ pending' = [pending EXCEPT ![p] = Tail(@)]
  BY DEF AfgoWebhook
<1>3. DataTyped
  BY TypeParts DEF IInv
<1> DEFINE w == Head(pending[p])
<1>4. w \in W /\ Tail(pending[p]) \in Seq(W)
  <2>1. pending[p] \in Seq(W)
    BY <1>3 DEF DataTyped
  <2> HIDE DEF W
  <2> QED
    BY <1>2, <2>1
<1>5. w[1] \in {"states", "actions"} /\ w[2] \in Threads /\ w[3] \in States
  BY <1>4
<1>6. store' \in [Parties -> Store!Stores]
  <2>1. store[p] \in Store!Stores
    BY <1>3 DEF DataTyped
  <2>2. Store!push_resource(store[p], w[2], w[1], w[3]) \in Store!Stores
    BY <1>5, <2>1, PushStore
  <2> QED
    BY <1>2, <1>3, <2>2 DEF DataTyped
<1>7. pending' \in [Parties -> Seq(W)]
  BY <1>2, <1>3, <1>4 DEF DataTyped
<1>8. stack' \in [Threads -> Seq(States)] /\ orphans' \in [Threads -> Nat]
  <2>1. CASE Push(w[2], w[3])
    <3>1. Append(stack[w[2]], w[3]) \in Seq(States)
      BY <1>3, <1>5 DEF DataTyped
    <3>2. CASE orphans[w[2]] > 0
      <4>1. orphans[w[2]] - 1 \in Nat
        BY <1>3, <1>5, <3>2 DEF DataTyped
      <4> QED
        BY <1>3, <2>1, <3>2, <4>1 DEF Push, DataTyped
    <3>3. CASE ~(orphans[w[2]] > 0)
      BY <1>3, <2>1, <3>1, <3>3 DEF Push, DataTyped
    <3> QED
      BY <3>2, <3>3
  <2>2. CASE UNCHANGED <<stack, orphans>>
    BY <1>3, <2>2 DEF DataTyped
  <2> QED
    BY <1>2, <2>1, <2>2
<1>9. DataTyped'
  BY <1>1, <1>3, <1>6, <1>7, <1>8 DEF DataTyped, agentVars
<1> QED
  BY <1>1, <1>9, AgentsI

\* A step of the scenario that fails ends its call.
LEMMA FailsI ==
  ASSUME IInv, NEW l \in BOOLEAN, Fails(l), issued' = issued, DataTyped'
  PROVE  TypeOK' /\ Placed'
<1>1. /\ UNCHANGED <<setup, issued, context, at, attempt>> /\ verdict' = "failed"
      /\ late' \in BOOLEAN /\ call' = Idle /\ looks' = 0
  BY DEF Fails, IInv, TypeOK
<1>2. DataTyped /\ ContextTyped /\ RunTyped /\ setup \in Setups
  BY TypeParts DEF IInv
<1>3. ContextTyped' /\ setup' \in Setups
  BY <1>1, <1>2 DEF ContextTyped, context
<1>4. RunTyped'
  <2>1. Idle \in Calls /\ 0 \in 0..(StatePolls - 1)
    BY PresentProofAssumption DEF Idle, Calls
  <2> QED
    BY <1>1, <1>2, <2>1 DEF RunTyped, N, Steps
<1>5. Placed'
  BY <1>1 DEF Placed, Idle, Presenting
<1> QED
  BY <1>3, <1>4, <1>5, TypePartsLater

LEMMA UnderWayIs ==
  ASSUME NEW p, NEW t, NEW l \in BOOLEAN
  PROVE  UnderWay(p, t) \in BOOLEAN /\ Stray \in BOOLEAN
         /\ (l \/ UnderWay(p, t)) \in BOOLEAN /\ (Stray \/ UnderWay(p, t)) \in BOOLEAN
BY DEF UnderWay, Stray, Unheard

LEMMA StepI == IInv /\ Step => TypeOK' /\ Placed'
<1> SUFFICES ASSUME IInv, Step PROVE TypeOK' /\ Placed'
  OBVIOUS
<1>1. /\ UNCHANGED <<setup, agentVars, issued, revoked, notified, afgoVars, thread, verification, begun,
                     runVars, looks, late>>
      /\ Running /\ Deed \in DOMAIN OperationOf
  BY DEF Step
<1>2. setup \in Setups /\ DataTyped /\ ContextTyped /\ RunTyped
  BY TypeParts DEF IInv
<1> DEFINE op == OperationOf[Deed]
           t  == Named(Deed)
<1>3. call' = [op |-> op, thread |-> t, phase |-> Begins(op, t)]
  BY DEF Step
<1>4. verdict = "running" /\ call = Idle /\ at <= N
  BY <1>1 DEF Running, N, Steps
<1>5. at \in 1..N
  BY <1>2, <1>4, ScenarioFacts DEF RunTyped
<1>6. /\ op \in Operations
      /\ op = "send-proposal" <=> Deed = "propose"
      /\ op = "send-request" <=> Deed \in {"request", "requestValid"}
      /\ op = "send-presentation" <=> Deed \in {"present", "presentRevoked"}
      /\ op = "verify-presentation" <=> Deed = "acknowledge"
      /\ op = "get" <=> Deed \in {"verified", "unverified"}
  BY <1>1, DeedFacts
<1>7. t \in {thread, NoThread} /\ t \in Threads \cup {NoThread}
  BY <1>2 DEF Named, ContextTyped
<1>8. DataTyped'
  BY <1>1, <1>2 DEF DataTyped, agentVars, afgoVars
<1>9. ContextTyped'
  <2>1. timeframe' \in BOOLEAN
    BY <1>2 DEF Step, Timeframe, ContextTyped
  <2>2. credential_id_dict' \in Seq(1..issued) /\ credential_id_dict' # <<>>
    BY <1>2, EndFacts DEF Step, ContextTyped
  <2> QED
    BY <1>1, <1>2, <2>1, <2>2 DEF ContextTyped
<1>10. /\ Begins(op, t) \in {"look", "post", "swap", "wait", "action"}
       /\ Begins(op, t) = "look" <=> op = "get"
       /\ Begins(op, t) = "swap" => Kind(At(op)) = "acapy"
       /\ Begins(op, t) = "wait" => Kind(At(op)) = "credo"
       /\ Begins(op, t) = "action" => Kind(At(op)) = "afgo" /\ op = "send-presentation"
  <2>1. CASE op = "get"
    BY <2>1 DEF Begins
  <2>2. CASE op # "get" /\ (t = NoThread \/ (Kind(At(op)) = "afgo" /\ op # "send-presentation"))
    BY <2>2 DEF Begins
  <2>3. CASE op # "get" /\ t # NoThread /\ Kind(At(op)) # "afgo"
    <3>1. Kind(At(op)) \in {"acapy", "credo"}
      BY <1>2, <2>3, KindFacts, PartyOf
    <3> QED
      BY <2>3, <3>1 DEF Begins
  <2>4. CASE t # NoThread /\ Kind(At(op)) = "afgo" /\ op = "send-presentation"
    BY <2>4 DEF Begins
  <2> QED
    BY <2>1, <2>2, <2>3, <2>4
<1>11. RunTyped'
  <2>1. call' \in Calls
    BY <1>3, <1>6, <1>7, <1>10 DEF Calls
  <2> QED
    BY <1>1, <1>2, <2>1 DEF RunTyped, runVars, N, Steps
<1>12. Placed'
  <2>1. UNCHANGED <<Deed, Version, N, at, thread, verdict, setup>>
    BY <1>1 DEF Deed, Version, N, Steps, runVars
  <2>2. call'.op = op /\ call'.thread = t /\ call'.phase = Begins(op, t)
    BY <1>3
  <2>3. op \in Presenting \cup {"get"} => t = thread
    BY <1>6 DEF Presenting, Named
  <2>4. op \in {"send-proposal", "send-request"} /\ t # NoThread => Kind(At(op)) = "afgo"
    <3> SUFFICES ASSUME op \in {"send-proposal", "send-request"}, t # NoThread
                 PROVE  Kind(At(op)) = "afgo"
      OBVIOUS
    <3>1. ~(Version < 3) /\ Version \in 1..3
      BY <1>2, <1>6, ScenarioFacts DEF Named
    <3> QED
      BY <1>2, <3>1, KindFacts, PartyOf
  <2>6. At("send-presentation") = "prover"
    BY DEF At
  <2>7. verdict' # "passed" /\ at' <= N' /\ Deed' \in DOMAIN OperationOf /\ op = OperationOf[Deed']
    BY <1>1, <1>4, <2>1
  <2> HIDE DEF op, t
  <2> QED
    BY <1>7, <1>10, <2>1, <2>2, <2>3, <2>4, <2>6, <2>7 DEF Placed, Kind
<1> QED
  BY <1>1, <1>2, <1>8, <1>9, <1>11, <1>12, TypePartsLater

LEMMA SequencesOf ==
  ASSUME NEW S, NEW T, S \subseteq T, NEW s \in Seq(S)
  PROVE  s \in Seq(T)
<1>1. Len(s) \in Nat /\ \A i \in 1..Len(s) : s[i] \in T
  OBVIOUS
<1> QED
  BY <1>1

\* The steps that make no call.
LEMMA QuietHarnessI == IInv /\ (Issue \/ Revoke \/ Succeed \/ Retry) => TypeOK' /\ Placed'
<1> SUFFICES ASSUME IInv, Issue \/ Revoke \/ Succeed \/ Retry PROVE TypeOK' /\ Placed'
  OBVIOUS
<1>2. setup \in Setups /\ DataTyped /\ ContextTyped /\ RunTyped
  BY TypeParts DEF IInv
<1>3. N \in Nat /\ setup' = setup /\ N' = N /\ call' = Idle /\ looks' = looks
  BY <1>2, ScenarioFacts DEF Issue, Revoke, Succeed, Retry, Running, N, Steps, IInv, Own
<1>4. issued \in Nat \ {0}
  BY <1>2 DEF DataTyped
<1>5. CASE Issue \/ Retry
  <2>1. issued' = issued + 1 /\ UNCHANGED <<agentVars, revoked, notified, afgoVars>>
    BY <1>5 DEF Issue, Retry, afgoVars
  <2>2. issued' \in Nat \ {0} /\ 0..issued \subseteq 0..issued' /\ 1..issued \subseteq 1..issued'
        /\ issued' \in 1..issued'
    BY <1>4, <2>1
  <2>3. DataTyped'
    <3>1. shown' \in [Threads -> 0..issued'] /\ revoked' \subseteq 1..issued'
      BY <1>2, <2>1, <2>2 DEF DataTyped, agentVars
    <3> QED
      BY <1>2, <2>1, <2>2, <3>1 DEF DataTyped, agentVars, afgoVars
  <2>4. CASE Issue
    <3>1. credential_id_dict \in Seq(1..issued')
      BY <1>2, <2>2, SequencesOf DEF ContextTyped
    <3>2. credential_id_dict' \in Seq(1..issued') /\ credential_id_dict' # <<>>
      BY <2>2, <2>4, <3>1, AppendFacts DEF Issue
    <3>3. ContextTyped'
      BY <1>2, <2>4, <3>2 DEF Issue, ContextTyped
    <3>4. at' = at + 1 /\ at \in 1..N /\ verdict' = verdict /\ verdict = "running"
      BY <1>2, <1>3, <2>4 DEF Issue, RunTyped, Running, N, Steps
    <3>5. RunTyped'
      BY <1>2, <1>3, <2>4, <3>4 DEF Issue, RunTyped, Running
    <3>6. Placed'
      BY <1>3, <3>4 DEF Placed, Idle, Presenting
    <3> QED
      BY <1>2, <1>3, <2>3, <3>3, <3>5, <3>6, TypePartsLater
  <2>5. CASE Retry
    <3>1. credential_id_dict' \in Seq(1..issued') /\ credential_id_dict' # <<>>
      BY <2>2, <2>5 DEF Retry
    <3>2. ContextTyped'
      BY <1>2, <2>5, <3>1 DEF Retry, ContextTyped
    <3>3. attempt' \in 1..MaxAttempts[setup.scenario] /\ 1 \in 1..(N + 1)
      BY <1>2, <1>3, <2>5, ScenarioFacts DEF Retry, RunTyped
    <3>4. RunTyped'
      BY <1>2, <1>3, <2>5, <3>3 DEF Retry, RunTyped
    <3>5. Placed'
      BY <1>3, <2>5 DEF Retry, Placed, Idle, Presenting
    <3> QED
      BY <1>2, <1>3, <2>3, <3>2, <3>4, <3>5, TypePartsLater
  <2> QED
    BY <1>5, <2>4, <2>5
<1>6. CASE Revoke
  <2>1. revoked' \subseteq 1..issued
    BY <1>2, <1>4, <1>6 DEF Revoke, DataTyped
  <2>2. DataTyped' /\ ContextTyped'
    BY <1>2, <1>6, <2>1 DEF Revoke, DataTyped, ContextTyped, agentVars, afgoVars, context
  <2>3. at' = at + 1 /\ at \in 1..N /\ verdict' = verdict /\ verdict = "running"
    BY <1>2, <1>3, <1>6 DEF Revoke, RunTyped, Running, N, Steps
  <2>4. RunTyped'
    BY <1>2, <1>3, <1>6, <2>3 DEF Revoke, RunTyped
  <2>5. Placed'
    BY <1>3, <2>3 DEF Placed, Idle, Presenting
  <2> QED
    BY <1>2, <1>3, <2>2, <2>4, <2>5, TypePartsLater
<1>7. CASE Succeed
  <2>1. DataTyped' /\ ContextTyped'
    BY <1>2, <1>7 DEF Succeed, DataTyped, ContextTyped, agentVars, afgoVars, context
  <2>2. RunTyped'
    BY <1>2, <1>3, <1>7 DEF Succeed, RunTyped
  <2>3. Placed'
    BY <1>3, <1>7 DEF Succeed, Placed, Idle, Presenting, N, Steps
  <2> QED
    BY <1>2, <1>3, <2>1, <2>2, <2>3, TypePartsLater
<1> QED
  BY <1>5, <1>6, <1>7

----------------------------------------------------------------------------
(* The calls.                                                              *)

\* The step the call belongs to is over.
LEMMA DoneI ==
  ASSUME IInv, call.phase # "none", call' = Idle, at' = at + 1,
         UNCHANGED <<setup, attempt, verdict>>, late' \in BOOLEAN, looks' \in 0..(StatePolls - 1),
         DataTyped', ContextTyped'
  PROVE  TypeOK' /\ Placed'
<1>1. setup \in Setups /\ RunTyped /\ at \in 1..N /\ N \in Nat /\ verdict = "running"
  BY TypeParts, CallFacts DEF IInv
<1>2. RunTyped'
  BY <1>1 DEF RunTyped, N, Steps, Calls, Idle
<1>3. Placed'
  BY <1>1 DEF Placed, Idle, Presenting
<1> QED
  BY <1>1, <1>2, <1>3, TypePartsLater

\* The call goes on.
LEMMA GoesOnI ==
  ASSUME IInv, call.phase \notin {"none", "state"}, call' \in Calls, call'.op = call.op, UNCHANGED <<at, thread>>,
         UNCHANGED <<setup, attempt, verdict>>, late' \in BOOLEAN, looks' \in 0..(StatePolls - 1),
         DataTyped', ContextTyped',
         call'.phase = "look" <=> call.phase = "look",
         call'.thread = call.thread \/ (call'.thread \in Threads /\ call.op \notin Presenting \cup {"get"}
                                        /\ call'.phase = "state"),
         call'.phase = "state" => call'.thread \in Threads /\ Kind(At(call.op)) = "afgo",
         call'.phase \notin {"wait", "action"},
         call'.phase \in {"swap", "check"} => call.phase \in {"swap", "check"}
  PROVE  TypeOK' /\ Placed'
<1>1. setup \in Setups /\ RunTyped /\ at \in 1..N /\ N \in Nat /\ verdict = "running" /\ call # Idle
  BY TypeParts, CallFacts DEF IInv
<1>2. RunTyped'
  BY <1>1 DEF RunTyped, N, Steps
<1>3. Placed'
  BY <1>1 DEF IInv, Placed, Kind, Deed, Version, N, Steps
<1> QED
  BY <1>1, <1>2, <1>3, TypePartsLater

LEMMA ProceedI == IInv /\ Proceed => TypeOK' /\ Placed'
<1> SUFFICES ASSUME IInv, Proceed PROVE TypeOK' /\ Placed'
  OBVIOUS
<1>1. /\ UNCHANGED <<setup, agentVars, issued, revoked, notified, pending, stack, orphans, context,
                     runVars, looks, late>>
      /\ call.phase \in {"wait", "swap", "check", "action"}
      /\ store' = IF call.phase = "action"
                  THEN [store EXCEPT !["prover"] = Store!pop_resource(@, <<call.thread, "actions">>)]
                  ELSE store
      /\ call' = [call EXCEPT !.phase = Then]
  BY DEF Proceed
<1>2. setup \in Setups /\ DataTyped /\ ContextTyped /\ RunTyped
  BY TypeParts DEF IInv
<1>3. store' \in [Parties -> Store!Stores]
  <2>1. CASE call.phase = "action"
    <3>1. At(call.op) = "prover" /\ "prover" \in Parties
      BY <2>1 DEF IInv, Placed, At, Parties
    <3>2. Store!CanPop(store["prover"], <<call.thread, "actions">>) /\ store["prover"] \in Store!Stores
      BY <1>2, <2>1, <3>1 DEF Proceed, WaitOver, DataTyped
    <3>3. Store!pop_resource(store["prover"], <<call.thread, "actions">>) \in Store!Stores
      BY <3>2, PopStore
    <3> QED
      BY <1>1, <1>2, <2>1, <3>1, <3>3 DEF DataTyped
  <2>2. CASE call.phase # "action"
    BY <1>1, <1>2, <2>2 DEF DataTyped
  <2> QED
    BY <2>1, <2>2
<1>4. DataTyped' /\ ContextTyped'
  BY <1>1, <1>2, <1>3 DEF DataTyped, ContextTyped, agentVars, context
<1>5. Then \in {"check", "post"} /\ (Then = "check" => call.phase = "swap")
  BY DEF Then
<1>6. /\ call' \in Calls /\ call'.op = call.op /\ call'.thread = call.thread
      /\ call'.phase \in {"check", "post"} /\ (call'.phase = "check" => call.phase = "swap")
  BY <1>1, <1>2, <1>5 DEF RunTyped, Calls
<1>7. late' \in BOOLEAN /\ looks' \in 0..(StatePolls - 1)
  BY <1>1, <1>2 DEF RunTyped
<1> QED
  BY <1>1, <1>4, <1>6, <1>7, GoesOnI DEF context, runVars

\* What a step takes from an answer.
LEMMA AnsweredI ==
  ASSUME IInv, NEW t \in Threads, Answered(t), DataTyped',
         call.phase \in {"post", "state"}, call.op \in Presenting => t = call.thread,
         UNCHANGED <<setup, issued, credential_id_dict, timeframe, attempt, verdict, looks, late>>,
         begun' \in SUBSET Threads
  PROVE  TypeOK' /\ Placed'
<1>1. setup \in Setups /\ DataTyped /\ ContextTyped /\ RunTyped
  BY TypeParts DEF IInv
<1>2. ContextTyped'
  <2>1. thread' \in Threads \cup {NoThread}
    BY <1>1 DEF Answered, ContextTyped
  <2>2. verification' \in [Threads -> {"none", "true", "false"}]
    BY <1>1 DEF Answered, ContextTyped
  <2> QED
    BY <1>1, <2>1, <2>2 DEF ContextTyped
<1>3. late' \in BOOLEAN /\ looks' \in 0..(StatePolls - 1)
  BY <1>1 DEF RunTyped
<1>4. CASE call.op = "send-request" /\ Version = 1
  <2>1. call' = [op |-> "get", thread |-> t, phase |-> "look"] /\ at' = at /\ thread' = t
    BY <1>4 DEF Answered
  <2>2. /\ verdict = "running" /\ Deed \in {"request", "requestValid"} /\ at \in 1..N /\ N \in Nat
    BY <1>4, CallFacts
  <2>3. RunTyped'
    BY <1>1, <1>3, <2>1 DEF RunTyped, N, Steps, Calls, Operations
  <2>4. Placed'
    BY <1>4, <2>1, <2>2 DEF Placed, Presenting, Deed, Version, N, Steps, Idle
  <2> QED
    BY <1>1, <1>2, <2>3, <2>4, TypePartsLater
<1>5. CASE ~(call.op = "send-request" /\ Version = 1)
  <2>1. call' = Idle /\ at' = at + 1
    BY <1>5 DEF Answered
  <2> QED
    BY <1>2, <1>3, <2>1, DoneI
<1> QED
  BY <1>4, <1>5

LEMMA SpareThread ==
  ASSUME TypeOK, Spare
  PROVE  /\ Subject \in Threads
         /\ call.thread = NoThread => Fresh(Subject)
         /\ call.thread # NoThread => Subject = call.thread
<1>1. CASE call.thread = NoThread
  <2>1. \E t \in Threads : Fresh(t)
    BY <1>1 DEF Spare
  <2>2. NewThread \in Threads /\ Fresh(NewThread)
    BY <2>1 DEF NewThread
  <2> QED
    BY <1>1, <2>2 DEF Subject
<1>2. CASE call.thread # NoThread
  BY <1>2 DEF TypeOK, Subject
<1> QED
  BY <1>1, <1>2

\* The exchange an operation that answers something is posted to.
LEMMA SubjectIs ==
  ASSUME NEW m \in Moves, Fits(m, Subject)
  PROVE  /\ m.op = call.op
         /\ call.op \in Presenting => Subject = call.thread /\ call.thread # NoThread
         /\ record[At(call.op)][Subject] = m.from
<1>1. m.op = call.op /\ m.from = record[At(call.op)][Subject] /\ (call.thread = NoThread) = (m.from = "none")
  BY DEF Fits
<1>2. m.op \in Presenting => m.from # "none"
  BY MoveFacts DEF Presenting
<1> QED
  BY <1>1, <1>2 DEF Subject

LEMMA PostI == IInv /\ Post => TypeOK' /\ Placed'
<1> SUFFICES ASSUME IInv, Post PROVE TypeOK' /\ Placed'
  OBVIOUS
<1> DEFINE t == Subject
           p == At(call.op)
<1>0. setup \in Setups /\ DataTyped /\ ContextTyped /\ RunTyped /\ TypeOK
  BY TypeParts DEF IInv
<1>1. /\ UNCHANGED <<setup, issued, revoked, store, stack, orphans, credential_id_dict, timeframe,
                     attempt, verdict, looks, late>>
      /\ call.phase = "post" /\ Spare
      /\ shown' = IF call.op = "send-presentation"
                  THEN [shown EXCEPT ![t] = CredentialToShow(credential_id_dict)] ELSE shown
      /\ asked' = IF call.op = "send-request" /\ timeframe THEN asked \cup {t} ELSE asked
      /\ begun' = IF call.thread = NoThread THEN begun \cup {t} ELSE begun
  BY DEF Post
<1>1a. t \in Threads
  BY <1>0, <1>1, SpareThread
<1>2. PICK m \in Moves :
        /\ Fits(m, t)
        /\ SetRecord(p, t, m.to)
        /\ wire' = wire \cup {[to |-> Other(p), thread |-> t, message |-> m.message]}
  BY DEF Post
<1>3. /\ m.op = call.op /\ m.to \in States /\ m.message \in Messages
      /\ call.op \in Presenting => t = call.thread
  BY <1>2, MoveFacts, SubjectIs
<1>4. DataTyped'
  <2>1. /\ record' \in [Parties -> [Threads -> States]]
        /\ notified' \in [Parties -> SUBSET (Threads \X States)]
        /\ pending' \in [Parties -> Seq({"states", "actions"} \X Threads \X States)]
    BY <1>0, <1>1a, <1>1, <1>2, <1>3, PartyOf, SetRecordTypes
  <2>2. wire' \subseteq [to : Parties, thread : Threads, message : Messages]
    BY <1>0, <1>1a, <1>1, <1>2, <1>3, PartyOf DEF DataTyped
  <2>3. shown' \in [Threads -> 0..issued]
    <3>1. Last(credential_id_dict) \in 1..issued
      BY <1>0, EndFacts DEF ContextTyped
    <3>2. 1..issued \subseteq 0..issued
      BY <1>0 DEF DataTyped
    <3> QED
      BY <1>0, <1>1, <1>1a, <3>1, <3>2 DEF DataTyped, CredentialToShow
  <2> QED
    BY <1>0, <1>1, <1>1a, <2>1, <2>2, <2>3 DEF DataTyped
<1>5. begun' \in SUBSET Threads
  BY <1>0, <1>1, <1>1a DEF ContextTyped
<1>6. CASE Kind(p) = "afgo"
  <2>1. call' = [call EXCEPT !.phase = "state", !.thread = t] /\ UNCHANGED <<thread, verification, at>>
    BY <1>6 DEF Post
  <2>2. call' \in Calls /\ call'.op = call.op /\ call'.thread = t /\ call'.phase = "state"
    BY <1>0, <1>1a, <1>1, <2>1 DEF RunTyped, Calls
  <2>3. ContextTyped'
    BY <1>0, <1>1, <1>5, <2>1 DEF ContextTyped
  <2>4. call.op # "get"
    BY <1>1 DEF IInv, Placed
  <2>5. late' \in BOOLEAN /\ looks' \in 0..(StatePolls - 1)
    BY <1>0, <1>1 DEF RunTyped
  <2> QED
    BY <1>1, <1>1a, <1>3, <1>4, <1>6, <2>1, <2>2, <2>3, <2>4, <2>5, GoesOnI
<1>7. CASE Kind(p) # "afgo"
  <2>1. Answered(t)
    BY <1>7 DEF Post
  <2> QED
    BY <1>1, <1>1a, <1>3, <1>4, <1>5, <2>1, AnsweredI
<1> QED
  BY <1>6, <1>7

LEMMA StatePoppedI == IInv /\ StatePopped => TypeOK' /\ Placed'
<1> SUFFICES ASSUME IInv, StatePopped PROVE TypeOK' /\ Placed'
  OBVIOUS
<1> DEFINE p == At(call.op)
           b == Store!LatestBox(store[p], "states")
<1>0. setup \in Setups /\ DataTyped /\ ContextTyped /\ RunTyped
  BY TypeParts DEF IInv
<1>1. /\ UNCHANGED <<agentVars, issued, revoked, notified, pending, stack, orphans>>
      /\ call.phase = "state" /\ Store!CanPop(store[p], b)
      /\ store' = [store EXCEPT ![p] = Store!pop_resource_latest(@, b)]
  BY DEF StatePopped
<1>2. DataTyped'
  <2>1. p \in Parties /\ store[p] \in Store!Stores
    BY <1>0, PartyOf DEF DataTyped
  <2>2. Store!pop_resource_latest(store[p], b) \in Store!Stores
    BY <1>1, <2>1, PopLatestStore
  <2> QED
    BY <1>0, <1>1, <2>2 DEF DataTyped, agentVars
<1>3. CASE Fails(Stray \/ UnderWay(p, call.thread))
  BY <1>1, <1>2, <1>3, FailsI, UnderWayIs
<1>4. CASE Answered(call.thread)
           /\ UNCHANGED <<setup, credential_id_dict, timeframe, begun, attempt, verdict, looks, late>>
  <2>1. call.thread \in Threads
    BY <1>1 DEF IInv, Placed
  <2> QED
    BY <1>0, <1>1, <1>2, <1>4, <2>1, AnsweredI DEF ContextTyped
<1> QED
  BY <1>3, <1>4 DEF StatePopped

\* The looks of expected_agent_state.
LEMMA SeenOrLookedI ==
  ASSUME IInv, call.phase = "look", DataTyped', issued' = issued,
         Seen \/ \E l \in BOOLEAN : Looked(l)
  PROVE  TypeOK' /\ Placed'
<1>0. setup \in Setups /\ DataTyped /\ ContextTyped /\ RunTyped /\ 0 \in 0..(StatePolls - 1)
  BY TypeParts, PresentProofAssumption DEF IInv
<1>1. CASE FailScenario
  BY <1>0, <1>1, FailsI, UnderWayIs DEF FailScenario
<1>2. CASE Seen /\ AsExpected
  <2>1. at' = at + 1 /\ call' = Idle /\ looks' = 0 /\ UNCHANGED <<setup, context, attempt, verdict, late>>
    BY <1>2 DEF Seen
  <2>2. ContextTyped' /\ late' \in BOOLEAN
    BY <1>0, <2>1 DEF ContextTyped, RunTyped, context
  <2> QED
    BY <1>0, <2>1, <2>2, DoneI
<1>3. CASE looks + 1 < StatePolls /\ \E l \in BOOLEAN : Looked(l)
  <2>1. PICK l \in BOOLEAN : /\ looks' = looks + 1 /\ late' = l
                             /\ UNCHANGED <<setup, context, runVars, call>>
    BY <1>3 DEF Looked
  <2>2. ContextTyped'
    BY <1>0, <2>1 DEF ContextTyped, context
  <2>3. looks' \in 0..(StatePolls - 1)
    BY <1>0, <1>3, <2>1, PresentProofAssumption DEF RunTyped
  <2>4. call \in Calls
    BY <1>0 DEF RunTyped
  <2> QED
    BY <2>1, <2>2, <2>3, <2>4, GoesOnI DEF context, runVars
<1> QED
  BY <1>1, <1>2, <1>3 DEF Seen, Looked

LEMMA LookI == IInv /\ (Look \/ LookPops \/ LookTimesOut) => TypeOK' /\ Placed'
<1> SUFFICES ASSUME IInv, Look \/ LookPops \/ LookTimesOut PROVE TypeOK' /\ Placed'
  OBVIOUS
<1>0. DataTyped /\ RunTyped
  BY TypeParts DEF IInv
<1>1. UNCHANGED <<agentVars, issued, revoked, notified, pending, store>> /\ call.phase = "look"
  BY DEF Look, LookPops, LookTimesOut, Seen, afgoVars
<1>2. stack' \in [Threads -> Seq(States)] /\ orphans' \in [Threads -> Nat]
  <2>1. CASE Look
    BY <1>0, <2>1 DEF Look, DataTyped, afgoVars
  <2>2. CASE LookPops
    <3>1. call.thread \in Threads => Front(stack[call.thread]) \in Seq(States)
      BY <1>0, <2>2, EndFacts DEF LookPops, DataTyped
    <3>2. stack' = [stack EXCEPT ![call.thread] = Front(@)] /\ orphans' = orphans
          /\ orphans \in [Threads -> Nat] /\ stack \in [Threads -> Seq(States)]
      BY <1>0, <2>2 DEF LookPops, DataTyped
    <3> QED
      BY <3>1, <3>2
  <2>3. CASE LookTimesOut
    <3>1. orphans' = [orphans EXCEPT ![call.thread] = @ + 1] /\ stack' = stack
      BY <2>3 DEF LookTimesOut
    <3>2. orphans \in [Threads -> Nat] /\ stack \in [Threads -> Seq(States)]
      BY <1>0 DEF DataTyped
    <3>3. call.thread \in Threads => orphans[call.thread] + 1 \in Nat
      BY <3>2
    <3>4. orphans' \in [Threads -> Nat]
      BY <3>1, <3>2, <3>3
    <3> QED
      BY <3>1, <3>2, <3>4
  <2> QED
    BY <2>1, <2>2, <2>3
<1>3. DataTyped'
  BY <1>0, <1>1, <1>2 DEF DataTyped, agentVars
<1>4. Seen \/ \E l \in BOOLEAN : Looked(l)
  <2>1. late \in BOOLEAN /\ (late \/ UnderWay("prover", call.thread)) \in BOOLEAN
    BY <1>0 DEF RunTyped
  <2> QED
    BY <2>1 DEF Look, LookPops, LookTimesOut
<1> QED
  BY <1>1, <1>3, <1>4, SeenOrLookedI

LEMMA NextI == IInv /\ [Next]_vars => IInv'
<1> SUFFICES ASSUME IInv, [Next]_vars PROVE TypeOK' /\ Placed'
  BY OwnStep DEF IInv
<1>1. CASE Deliver \/ Webhook \/ AfgoWebhook
  BY <1>1, DeliverI, WebhookI, AfgoWebhookI
<1>2. CASE Step \/ Issue \/ Revoke \/ Succeed \/ Retry
  BY <1>2, StepI, QuietHarnessI
<1>3. CASE Look \/ LookPops \/ LookTimesOut
  BY <1>3, LookI
<1>4. CASE Proceed \/ Post \/ StatePopped
  BY <1>4, ProceedI, PostI, StatePoppedI
<1>5. CASE GiveUp \/ Refused \/ LookFails \/ NoStatePopped
  <2>1. UNCHANGED <<agentVars, issued, revoked, notified, afgoVars>>
    BY <1>5 DEF GiveUp, Refused, LookFails, NoStatePopped
  <2>2. DataTyped'
    BY <2>1, TypeParts DEF IInv, DataTyped, agentVars, afgoVars
  <2>3. \E l \in BOOLEAN : Fails(l)
    BY <1>5, UnderWayIs DEF GiveUp, Refused, LookFails, NoStatePopped, FailScenario
  <2> QED
    BY <2>1, <2>2, <2>3, FailsI
<1>6. CASE UNCHANGED vars
  <2>1. UNCHANGED <<setup, issued, context, runVars, call, looks, late>> /\ DataTyped'
    BY <1>6, TypeParts DEF IInv, DataTyped, vars, agentVars, afgoVars
  <2> QED
    BY <2>1, AgentsI
<1> QED
  BY <1>1, <1>2, <1>3, <1>4, <1>5, <1>6 DEF Next, Harness, Served

LEMMA InvariantI == Spec => []IInv
BY InitI, NextI, PTL DEF Spec

\* Every variable of the exchanges, the backchannels and the harness keeps its type: the
\* store of AFGO and the stacks of its threads hold states only, and no count goes astray.
THEOREM PresentTypes == Spec => []TypeOK
<1>1. IInv => TypeOK
  BY DEF IInv
<1> QED
  BY <1>1, InvariantI, PTL

----------------------------------------------------------------------------
(* The order of the protocol.                                              *)

\* Who is sent what; and the verifier has a presentation only when the prover has made it.
Sent == {"presentation-sent", "done"}

Agreed ==
  /\ \A m \in wire : m.to = IF m.message \in {"request", "ack"} THEN "prover" ELSE "verifier"
  /\ \A m \in wire : m.message = "presentation" => record["prover"][m.thread] \in Sent
  /\ \A t \in Threads : record["verifier"][t] \in {"presentation-received", "done"} =>
       record["prover"][t] \in Sent

\* What Credo's events say of a record stays behind it.
Known ==
  \A t \in Threads :
    /\ Kind("prover") = "credo" /\ <<t, "request-received">> \in notified["prover"] =>
         record["prover"][t] \in {"request-received"} \cup Sent
    /\ Kind("verifier") = "credo" /\ <<t, "presentation-received">> \in notified["verifier"] =>
         record["verifier"][t] \in {"presentation-received", "done"}

\* The presentation, and its verification, have been made at the agent.
Presented == at > N-2 \/ (at = N-2 /\ call.phase = "state")
Accepted == at > N-1 \/ (at = N-1 /\ call.phase = "state")

\* The exchange of the context, or the one being begun, is no further than the scenario.
Turn ==
  /\ verdict = "running" /\ thread # NoThread =>
       /\ record["prover"][thread] \in Sent => Presented
       /\ record["verifier"][thread] = "done" => Accepted
  /\ call.phase = "state" /\ call.op \notin Presenting =>
       record["prover"][call.thread] \notin Sent /\ record["verifier"][call.thread] # "done"
  /\ Accepted => record["verifier"][thread] = "done"

Checked(op) == Kind(At(op)) = "acapy" /\ op = "verify-presentation" /\ Version = 1

\* After the waits that look for a state, the record is in that state.
Ready ==
  call.phase = "post" /\ call.thread # NoThread /\ (Kind(At(call.op)) = "credo" \/ Checked(call.op)) =>
    call.op \in Presenting /\ record[At(call.op)][call.thread] = Awaited(call.op)

\* The timeframe is set from the step that asks for it on, and goes with every request.
Asked ==
  /\ (timeframe \/ asked # {}) => AsksValid
  /\ \A i \in 1..(at-1) : Steps[i] = "requestValid" => timeframe
  /\ call # Idle /\ Deed = "requestValid" => timeframe
  /\ verdict # "failed" /\ timeframe /\ thread # NoThread /\ call.op # "send-request"
     /\ record["verifier"][thread] \in {"request-sent", "presentation-received", "done"} => thread \in asked

\* The credential a scenario means: the one issued last or, as the first step that revokes
\* comes before another is issued, the first of the attempt.
Meant(c) == IF ShowsRevoked THEN c \in revoked ELSE c = issued
Turned == at > N-2 \/ (at = N-2 /\ call # Idle)
OneSoFar(i) == \A j \in 1..(i-1) : Steps[j] # "issue"

Means ==
  /\ ~ShowsRevoked => Last(credential_id_dict) = issued
  /\ verdict = "running" /\ ~Turned /\ OneSoFar(at) => credential_id_dict = <<issued>>
  /\ verdict = "running" /\ ~Turned =>
       \A i \in 1..(at-1) : Steps[i] = "revoke" /\ OneSoFar(i) => credential_id_dict[1] \in revoked
  /\ at = N-2 /\ call # Idle => Meant(Last(credential_id_dict))
  /\ Presented => thread \in Threads /\ Meant(shown[thread])

\* The verification is remembered as it came out, and the last step has looked at it.
Outcome ==
  /\ at > N-1 => verification[thread] = (IF Satisfies(thread) THEN "true" ELSE "false")
  /\ at > N => (Satisfies(thread) <=> Steps[N] = "verified")

InOrder == Agreed /\ Known /\ Turn /\ Ready /\ Asked /\ Means /\ Outcome

\* Only a record that is awaited by nobody moves by a message.
LEMMA DeliverS == IInv /\ InOrder /\ Deliver => InOrder'
<1> SUFFICES ASSUME IInv, InOrder, Deliver PROVE InOrder'
  OBVIOUS
<1>0. TypeOK /\ Agreed /\ Known /\ Turn /\ Ready /\ Asked /\ Means /\ Outcome
  BY DEF IInv, InOrder
<1>1. PICK m \in wire, a \in Arrivals :
        /\ a.message = m.message
        /\ a.from = record[m.to][m.thread]
        /\ wire' = wire \ {m}
        /\ SetRecord(m.to, m.thread, a.to)
  BY DEF Deliver
<1>2. m.to \in Parties /\ m.thread \in Threads /\ a.to \in States
  BY <1>0, ArrivalFacts DEF TypeOK
<1>3. /\ record'[m.to][m.thread] = a.to
      /\ \A q \in Parties, u \in Threads : <<q, u>> # <<m.to, m.thread>> => record'[q][u] = record[q][u]
      /\ \A q \in Parties : \A u, x : <<u, x>> \in notified'[q] =>
           <<u, x>> \in notified[q] \/ (q = m.to /\ u = m.thread /\ x = a.to)
  BY <1>0, <1>1, <1>2, SetRecordTypes
<1>4. UNCHANGED <<setup, shown, asked, issued, revoked, context, runVars, call>>
  BY DEF Deliver
<1>5. /\ m.to = IF m.message \in {"request", "ack"} THEN "prover" ELSE "verifier"
      /\ m.message = "presentation" => record["prover"][m.thread] \in Sent
  BY <1>0 DEF Agreed
\* What becomes of the records.
<1>6. ASSUME NEW u \in Threads
      PROVE  /\ record["prover"][u] \in Sent <=> record'["prover"][u] \in Sent
             /\ record["verifier"][u] = "done" <=> record'["verifier"][u] = "done"
             /\ record["prover"][u] = "request-received" => record'["prover"][u] = "request-received"
             /\ record["verifier"][u] = "presentation-received" =>
                  record'["verifier"][u] = "presentation-received"
             /\ record'["verifier"][u] \in {"presentation-received", "done"} =>
                  \/ record["verifier"][u] \in {"presentation-received", "done"}
                  \/ record["verifier"][u] = "request-sent" /\ record["prover"][u] \in Sent
             /\ record'["verifier"][u] = "request-sent" => record["verifier"][u] = "request-sent"
  <2>1. CASE m.thread = u /\ m.to = "prover"
    <3>1. a.message \in {"request", "ack"} /\ record["prover"][u] = a.from /\ record'["prover"][u] = a.to
          /\ record'["verifier"][u] = record["verifier"][u]
      BY <1>1, <1>3, <1>5, <2>1 DEF Parties
    <3> QED
      BY <3>1, ArrivalFacts DEF Sent
  <2>2. CASE m.thread = u /\ m.to = "verifier"
    <3>1. a.message \in {"proposal", "presentation"} /\ record["verifier"][u] = a.from
          /\ record'["verifier"][u] = a.to /\ record'["prover"][u] = record["prover"][u]
      BY <1>1, <1>3, <1>5, <2>2, ArrivalFacts DEF Parties, Messages
    <3> QED
      BY <1>1, <1>5, <2>2, <3>1, ArrivalFacts DEF Sent
  <2>3. CASE m.thread # u
    BY <1>3, <2>3 DEF Parties
  <2> QED
    BY <1>2, <2>1, <2>2, <2>3 DEF Parties
<1>7. \A n \in wire' : n \in wire /\ n.thread \in Threads
  BY <1>0, <1>1 DEF TypeOK
<1>8. Agreed'
  BY <1>0, <1>6, <1>7 DEF Agreed
<1>9. Known'
  <2> SUFFICES ASSUME NEW t \in Threads
               PROVE  /\ Kind("prover") = "credo" /\ <<t, "request-received">> \in notified'["prover"] =>
                           record'["prover"][t] \in {"request-received"} \cup Sent
                      /\ Kind("verifier") = "credo" /\ <<t, "presentation-received">> \in notified'["verifier"] =>
                           record'["verifier"][t] \in {"presentation-received", "done"}
    BY <1>4 DEF Known, Kind
  <2>1. CASE <<t, "request-received">> \in notified["prover"] \/ record'["prover"][t] = "request-received"
             \/ <<t, "request-received">> \notin notified'["prover"]
    <3>1. CASE <<t, "presentation-received">> \in notified["verifier"]
               \/ record'["verifier"][t] = "presentation-received"
               \/ <<t, "presentation-received">> \notin notified'["verifier"]
      BY <1>0, <1>6, <2>1, <3>1 DEF Known
    <3> QED
      BY <1>3, <3>1 DEF Parties
  <2> QED
    BY <1>3, <2>1 DEF Parties
<1>10. thread' = thread /\ call' = call /\ verdict' = verdict /\ at' = at /\ thread \in Threads \cup {NoThread}
  BY <1>0, <1>4 DEF context, runVars, TypeOK
<1>11. Presented' = Presented /\ Accepted' = Accepted
  BY <1>4, <1>10 DEF Presented, Accepted, N, Steps
<1>12. Turn'
  <2>1. Accepted => N >= 3 /\ N \in Nat
    BY <1>0, ScenarioFacts DEF TypeOK
  <2>2. Accepted => thread \in Threads
    <3>1. Accepted => Presented
      BY <1>0, <2>1 DEF Accepted, Presented, TypeOK
    <3> QED
      BY <1>0, <3>1 DEF Means
  <2>3. call.phase = "state" => call.thread \in Threads
    BY DEF IInv, Placed
  <2> QED
    BY <1>0, <1>6, <1>10, <1>11, <2>2, <2>3 DEF Turn
<1>13. Ready'
  <2>1. call.thread # NoThread => call.thread \in Threads
    BY <1>0 DEF TypeOK
  <2>2. call.op \in Presenting => Awaited(call.op) \in {"request-received", "presentation-received"}
        /\ (At(call.op) = "prover" <=> call.op = "send-presentation")
        /\ (Awaited(call.op) = "request-received" <=> call.op = "send-presentation")
        /\ At(call.op) \in {"prover", "verifier"}
    BY DEF Presenting, Awaited, At
  <2> QED
    BY <1>0, <1>4, <1>6, <1>10, <2>1, <2>2 DEF Ready, Kind, Checked, Version
<1>14. Asked'
  <2>1. UNCHANGED <<AsksValid, timeframe, asked, N, Steps, Deed, setup>>
    BY <1>4 DEF AsksValid, Deed, N, Steps, context, runVars
  <2> QED
    BY <1>0, <1>6, <1>10, <2>1 DEF Asked
<1>15. Means' /\ Outcome'
  <2>1. UNCHANGED <<ShowsRevoked, Presented, Turned, N, Steps, shown, asked, issued, revoked, credential_id_dict,
                    verification>>
    BY <1>4, <1>10, <1>11 DEF ShowsRevoked, Turned, N, Steps, context
  <2> QED
    BY <1>0, <1>10, <2>1 DEF Means, Outcome, Meant, OneSoFar, Satisfies
<1> QED
  BY <1>8, <1>9, <1>12, <1>13, <1>14, <1>15 DEF InOrder

\* Steps that leave agents, harness and call as they are.
LEMMA StandsS ==
  ASSUME IInv, InOrder, UNCHANGED <<setup, agentVars, issued, revoked, context, runVars, call>>, Known'
  PROVE  InOrder'
<1>0. Agreed /\ Known /\ Turn /\ Ready /\ Asked /\ Means /\ Outcome
  BY DEF InOrder
<1>1. UNCHANGED <<ShowsRevoked, AsksValid, Presented, Accepted, Turned, N, Steps, Deed, Version, at, verdict,
                  record, wire, shown, asked, thread, credential_id_dict, timeframe, verification, setup,
                  issued, revoked, call>>
  BY DEF agentVars, context, runVars, ShowsRevoked, AsksValid, Presented, Accepted, Turned, N, Steps, Deed,
         Version
<1>2. Agreed' /\ Turn' /\ Ready' /\ Asked'
  BY <1>0, <1>1 DEF Agreed, Turn, Ready, Asked, Kind, Checked, Version
<1>3. Means' /\ Outcome'
  BY <1>0, <1>1 DEF Means, Outcome, Meant, OneSoFar, Satisfies
<1> QED
  BY <1>2, <1>3 DEF InOrder

\* ... as a webhook does.
LEMMA WebhookS == IInv /\ InOrder /\ (Webhook \/ AfgoWebhook \/ UNCHANGED vars) => InOrder'
<1> SUFFICES ASSUME IInv, InOrder, Webhook \/ AfgoWebhook \/ UNCHANGED vars PROVE InOrder'
  OBVIOUS
<1>1. UNCHANGED <<setup, agentVars, issued, revoked, context, runVars, call>>
  BY DEF Webhook, AfgoWebhook, vars
<1>2. Known'
  <2>1. CASE Webhook
    <3>1. PICK p \in Parties, t \in Threads :
            Kind(p) = "acapy" /\ notified' = [notified EXCEPT ![p] = @ \cup {<<t, record[p][t]>>}]
      BY <2>1 DEF Webhook, Unheard
    <3>2. \A q \in Parties : q # p => notified'[q] = notified[q]
      BY <3>1 DEF IInv, TypeOK
    <3>3. UNCHANGED <<record, setup>>
      BY <1>1 DEF agentVars
    <3>4. Kind("prover") = "credo" => notified'["prover"] = notified["prover"]
      BY <3>1, <3>2 DEF Parties
    <3>5. Kind("verifier") = "credo" => notified'["verifier"] = notified["verifier"]
      BY <3>1, <3>2 DEF Parties
    <3> QED
      BY <3>3, <3>4, <3>5 DEF InOrder, Known, Kind
  <2>2. CASE UNCHANGED notified
    BY <1>1, <2>2 DEF InOrder, Known, Kind, agentVars
  <2> QED
    BY <2>1, <2>2 DEF Webhook, AfgoWebhook, vars
<1> QED
  BY <1>1, <1>2, StandsS

\* The steps of the harness that make no call of their own.
LEMMA StepS == IInv /\ InOrder /\ Step => InOrder'
<1> SUFFICES ASSUME IInv, InOrder, Step PROVE InOrder'
  OBVIOUS
<1>0. TypeOK /\ Agreed /\ Known /\ Turn /\ Ready /\ Asked /\ Means /\ Outcome
  BY DEF IInv, InOrder
<1> DEFINE op == OperationOf[Deed]
           t  == Named(Deed)
<1>1. /\ UNCHANGED <<setup, record, shown, asked, wire, issued, revoked, notified, thread, verification, at, verdict>>
      /\ call = Idle /\ verdict = "running" /\ Deed \in DOMAIN OperationOf
      /\ call' = [op |-> op, thread |-> t, phase |-> Begins(op, t)]
      /\ timeframe' = Timeframe(Deed)
      /\ credential_id_dict' = IF Deed = "presentRevoked" THEN Reverse(credential_id_dict)
                               ELSE credential_id_dict
  BY DEF Step, Running, agentVars, runVars
<1>2. at \in 1..N /\ N \in Nat /\ N >= 3 /\ setup \in Setups
  BY <1>0, ScenarioFacts DEF Step, Running, TypeOK, N, Steps
<1>3. /\ Deed = Steps[at]
      /\ Deed \in {"present", "presentRevoked"} <=> at = N-2
      /\ Steps[N-2] \in {"present", "presentRevoked"}
  BY <1>2, PlaceOfDeed, ScenarioFacts
<1>4. /\ op # "idle"
      /\ op = "send-request" <=> Deed \in {"request", "requestValid"}
      /\ op \in Operations
  BY <1>1, DeedFacts DEF Operations
<1>4a. call'.op = op /\ call'.thread = t /\ call'.phase = Begins(op, t)
  BY <1>1
<1>5. UNCHANGED <<ShowsRevoked, AsksValid, N, Steps, Deed, Version>>
  BY <1>1 DEF ShowsRevoked, AsksValid, N, Steps, Deed, Version
<1>6. Begins(op, t) # "state"
      /\ (Begins(op, t) = "post" => t = NoThread \/ Kind(At(op)) = "afgo")
  BY DEF Begins
<1>7. call' # Idle /\ call.phase # "state" /\ call'.phase # "state"
  BY <1>1, <1>4, <1>4a, <1>6 DEF Idle
<1>8. Presented' = Presented /\ Accepted' = Accepted
  BY <1>1, <1>5, <1>7 DEF Presented, Accepted
<1>9. Agreed' /\ Known' /\ Turn' /\ Outcome'
  <2>1. Agreed' /\ Known'
    BY <1>0, <1>1 DEF Agreed, Known, Kind
  <2>2. Turn'
    BY <1>0, <1>1, <1>7, <1>8 DEF Turn
  <2>3. Outcome'
    BY <1>0, <1>1, <1>5 DEF Outcome, Satisfies
  <2> QED
    BY <2>1, <2>2, <2>3
<1>10. Ready'
  BY <1>1, <1>6 DEF Ready, Kind, Checked
<1>11. Asked'
  <2>1. timeframe' <=> timeframe \/ Deed = "requestValid"
    BY <1>1 DEF Timeframe
  <2>2. Deed = "requestValid" => AsksValid
    <3>1. setup.scenario.steps \in Seq(Deeds)
      BY <1>2, PresentProofAssumption DEF Setups
    <3>2. DOMAIN Steps = 1..N
      BY <3>1 DEF N, Steps
    <3>3. Deed = Steps[at] /\ at \in DOMAIN Steps
      BY <1>2, <1>3, <3>2
    <3> QED
      BY <3>3 DEF AsksValid, Steps
  <2>3. timeframe' /\ call'.op # "send-request" => timeframe
    BY <1>1, <1>4, <2>1
  <2>4. call.op # "send-request"
    BY <1>1 DEF Idle
  <2> QED
    BY <1>0, <1>1, <1>5, <2>1, <2>2, <2>3, <2>4 DEF Asked
<1>12. Means'
  <2>1. ShowsRevoked <=> Steps[N-2] = "presentRevoked"
    <3>1. ASSUME NEW i \in DOMAIN setup.scenario.steps, setup.scenario.steps[i] = "presentRevoked"
          PROVE  i = N-2
      <4>1. setup.scenario.steps \in Seq(Deeds) /\ i \in 1..N
        BY <1>2, <3>1, PresentProofAssumption DEF Setups, N, Steps
      <4>2. \/ i \in 1..(N-3) /\ Steps[i] \in {"propose", "request", "requestValid", "issue", "revoke"}
            \/ i = N-2
            \/ i = N-1 /\ Steps[i] = "acknowledge"
            \/ i = N /\ Steps[i] \in {"verified", "unverified"}
        BY <1>2, <4>1, ScenarioFacts
      <4> QED
        BY <3>1, <4>2 DEF Steps
    <3>2. N-2 \in DOMAIN setup.scenario.steps
      BY <1>2 DEF N, Steps
    <3> QED
      BY <3>1, <3>2 DEF ShowsRevoked, Steps
  <2>2. Turned' <=> at > N-2 \/ at = N-2
    BY <1>1, <1>5, <1>7 DEF Turned
  <2>3. Turned <=> at > N-2
    BY <1>1 DEF Turned
  <2>4. credential_id_dict # <<>> /\ credential_id_dict \in Seq(1..issued)
    BY <1>0 DEF TypeOK
  <2>5. CASE Deed = "presentRevoked"
    <3>0. at = N-2
      BY <1>3, <2>5
    <3>0a. ShowsRevoked
      BY <1>3, <2>1, <2>5, <3>0
    <3>0b. ~(at > N-2)
      BY <1>2, <3>0
    <3>1. at = N-2 /\ ShowsRevoked /\ ~Turned
      BY <2>3, <3>0, <3>0a, <3>0b
    <3>2. PICK i \in 1..(at-1) : Steps[i] = "revoke" /\ OneSoFar(i)
      <4>1. Steps[N-2] = "presentRevoked"
        BY <1>3, <2>5, <3>0
      <4>2. (N-2) - 1 = N-3
        BY <1>2
      <4>3. PICK i \in 1..(N-3) : Steps[i] = "revoke" /\ \A j \in 1..(i-1) : Steps[j] # "issue"
        BY <1>2, <4>1, ScenarioFacts
      <4> QED
        BY <3>0, <4>2, <4>3 DEF OneSoFar
    <3>3. credential_id_dict[1] \in revoked
      BY <1>0, <1>1, <3>1, <3>2 DEF Means
    <3>4. Last(credential_id_dict') = credential_id_dict[1]
      BY <1>1, <2>4, <2>5, EndFacts
    <3>5. Presented => thread \in Threads /\ Meant(shown[thread])
      BY <1>0 DEF Means
    <3> QED
      BY <1>1, <1>2, <1>5, <1>8, <2>2, <3>1, <3>3, <3>4, <3>5 DEF Means, Meant
  <2>6. CASE Deed # "presentRevoked"
    <3>1. credential_id_dict' = credential_id_dict
      BY <1>1, <2>6
    <3>2. at = N-2 => ~ShowsRevoked
      BY <1>3, <2>1, <2>6
    <3>3. at = N-2 => Last(credential_id_dict) = issued
      BY <1>0, <3>2 DEF Means
    <3>4. Turned => Turned'
      BY <2>2, <2>3
    <3> QED
      BY <1>0, <1>1, <1>5, <1>8, <3>1, <3>2, <3>3, <3>4 DEF Means, Meant, OneSoFar
  <2> QED
    BY <2>5, <2>6
<1> QED
  BY <1>9, <1>10, <1>11, <1>12 DEF InOrder

LEMMA CredentialStepsS == IInv /\ InOrder /\ (Issue \/ Revoke) => InOrder'
<1> SUFFICES ASSUME IInv, InOrder, Issue \/ Revoke PROVE InOrder'
  OBVIOUS
<1>0. TypeOK /\ Agreed /\ Known /\ Turn /\ Ready /\ Asked /\ Means /\ Outcome
  BY DEF IInv, InOrder
<1>1. /\ UNCHANGED <<setup, record, shown, asked, wire, notified, thread, timeframe, verification, verdict, call>>
      /\ call = Idle /\ verdict = "running" /\ at' = at + 1 /\ Deed \in {"issue", "revoke"}
  BY DEF Issue, Revoke, Running, agentVars, context
<1>2. at \in 1..N /\ N \in Nat /\ N >= 3 /\ setup \in Setups
  BY <1>0, ScenarioFacts DEF Issue, Revoke, Running, TypeOK, N, Steps
<1>3. Deed = Steps[at] /\ at \in 1..(N-3)
  BY <1>1, <1>2, PlaceOfDeed
<1>4. UNCHANGED <<ShowsRevoked, AsksValid, N, Steps, Version>> /\ call.phase = "none" /\ call.op = "idle"
  BY <1>1 DEF ShowsRevoked, AsksValid, N, Steps, Version, Idle
<1>5. ~Presented /\ ~Presented' /\ ~Accepted /\ ~Accepted' /\ ~Turned /\ ~Turned'
  BY <1>1, <1>2, <1>3, <1>4 DEF Presented, Accepted, Turned
<1>6. Agreed' /\ Known' /\ Turn' /\ Ready'
  <2>1. Agreed' /\ Known'
    BY <1>0, <1>1 DEF Agreed, Known, Kind
  <2>2. Turn'
    BY <1>0, <1>1, <1>4, <1>5 DEF Turn
  <2> QED
    BY <1>1, <1>4, <2>1, <2>2 DEF Ready
<1>7. Outcome'
  BY <1>1, <1>2, <1>3, <1>4 DEF Outcome
<1>8. Asked'
  <2>1. \A i \in 1..(at'-1) : i \in 1..(at-1) \/ i = at
    BY <1>1, <1>2
  <2> QED
    BY <1>0, <1>1, <1>3, <1>4, <2>1 DEF Asked
<1>9. \A i \in 1..(at'-1) : i \in 1..(at-1) \/ i = at
  BY <1>1, <1>2
<1>10. credential_id_dict # <<>> /\ credential_id_dict \in Seq(1..issued) /\ issued \in Nat \ {0}
  BY <1>0 DEF TypeOK
<1>11. CASE Issue
  <2>1. issued' = issued + 1 /\ credential_id_dict' = Append(credential_id_dict, issued') /\ revoked' = revoked
        /\ Deed = "issue"
    BY <1>11 DEF Issue
  <2>2. credential_id_dict \in Seq(1..issued') /\ issued' \in 1..issued'
    BY <1>10, <2>1, SequencesOf
  <2>3. Last(credential_id_dict') = issued' /\ credential_id_dict'[1] = credential_id_dict[1]
    BY <1>10, <2>1, <2>2, AppendFacts
  <2>4. ~OneSoFar(at)'
    <3>1. at \in 1..(at'-1)
      BY <1>1, <1>2
    <3> QED
      BY <1>3, <1>4, <2>1, <3>1 DEF OneSoFar
  <2>5. ASSUME NEW i \in 1..(at'-1), Steps'[i] = "revoke", OneSoFar(i)'
        PROVE  credential_id_dict'[1] \in revoked'
    <3>1. i \in 1..(at-1) /\ Steps[i] = "revoke" /\ OneSoFar(i)
      BY <1>3, <1>4, <1>9, <2>1, <2>5 DEF OneSoFar
    <3> QED
      BY <1>0, <1>1, <1>5, <2>1, <2>3, <3>1 DEF Means
  <2>6. Means'
    BY <1>1, <1>4, <1>5, <2>1, <2>3, <2>4, <2>5 DEF Means, OneSoFar
  <2> QED
    BY <1>6, <1>7, <1>8, <2>6 DEF InOrder
<1>12. CASE Revoke
  <2>1. revoked' = revoked \cup {issued} /\ UNCHANGED <<issued, credential_id_dict>> /\ Deed = "revoke"
    BY <1>12 DEF Revoke, context
  <2>2. ASSUME NEW i \in 1..(at'-1), Steps'[i] = "revoke", OneSoFar(i)'
        PROVE  credential_id_dict'[1] \in revoked'
    <3>1. CASE i \in 1..(at-1)
      <4>1. Steps[i] = "revoke" /\ OneSoFar(i)
        BY <1>4, <2>2 DEF OneSoFar
      <4> QED
        BY <1>0, <1>1, <1>5, <2>1, <3>1, <4>1 DEF Means
    <3>2. CASE i = at
      <4>1. OneSoFar(at)
        BY <1>4, <2>2, <3>2 DEF OneSoFar
      <4>2. credential_id_dict = <<issued>>
        BY <1>0, <1>1, <1>5, <4>1 DEF Means
      <4> QED
        BY <2>1, <4>2
    <3> QED
      BY <1>9, <3>1, <3>2
  <2>3. OneSoFar(at)' => OneSoFar(at)
    BY <1>1, <1>2, <1>4 DEF OneSoFar
  <2>4. Means'
    BY <1>0, <1>1, <1>4, <1>5, <2>1, <2>2, <2>3 DEF Means, OneSoFar
  <2> QED
    BY <1>6, <1>7, <1>8, <2>4 DEF InOrder
<1> QED
  BY <1>11, <1>12

\* The attempt ends.
LEMMA EndsS ==
  ASSUME IInv, InOrder, UNCHANGED <<setup, agentVars, issued, revoked, notified, context, at>>,
         call' = Idle, verdict' = "failed" \/ (verdict' = "passed" /\ verdict = "running" /\ call = Idle)
  PROVE  InOrder'
<1>0. TypeOK /\ Agreed /\ Known /\ Turn /\ Ready /\ Asked /\ Means /\ Outcome
  BY DEF IInv, InOrder
<1>1. UNCHANGED <<record, shown, asked, wire, thread, credential_id_dict, timeframe, verification>>
  BY DEF agentVars, context
<1>2. UNCHANGED <<ShowsRevoked, AsksValid, N, Steps, Version>> /\ call'.phase = "none" /\ call'.op = "idle"
  BY DEF ShowsRevoked, AsksValid, N, Steps, Version, Idle
<1>3. (Presented' => Presented) /\ (Accepted' => Accepted)
  BY <1>2 DEF Presented, Accepted
<1>4. Agreed' /\ Known' /\ Ready'
  BY <1>0, <1>1, <1>2 DEF Agreed, Known, Ready, Kind
<1>5. Turn'
  BY <1>0, <1>1, <1>2, <1>3 DEF Turn
<1>6. Asked'
  BY <1>0, <1>1, <1>2 DEF Asked, Idle
<1>7. Means' /\ Outcome'
  BY <1>0, <1>1, <1>2, <1>3 DEF Means, Meant, Outcome, Satisfies
<1> QED
  BY <1>4, <1>5, <1>6, <1>7 DEF InOrder

\* ... and the next begins, from a credential of its own.
LEMMA RetryS == IInv /\ InOrder /\ Retry => InOrder'
<1> SUFFICES ASSUME IInv, InOrder, Retry PROVE InOrder'
  OBVIOUS
<1>0. TypeOK /\ Agreed /\ Known /\ Asked
  BY DEF IInv, InOrder
<1>1. /\ UNCHANGED <<setup, record, shown, asked, wire, notified>> /\ call' = Idle /\ thread' = NoThread
      /\ timeframe' = FALSE /\ at' = 1 /\ issued' = issued + 1 /\ credential_id_dict' = <<issued'>>
  BY DEF Retry, agentVars, IInv, Own
<1>2. UNCHANGED <<ShowsRevoked, AsksValid, N, Steps, Version>> /\ call'.phase = "none" /\ call'.op = "idle"
  BY <1>1 DEF ShowsRevoked, AsksValid, N, Steps, Version, Idle
<1>3. N \in Nat /\ N >= 3
  BY <1>0, ScenarioFacts DEF TypeOK
<1>4. ~Presented' /\ ~Accepted' /\ 1..(at'-1) = {}
  BY <1>1, <1>2, <1>3 DEF Presented, Accepted
<1>5. Agreed' /\ Known' /\ Ready' /\ Turn'
  BY <1>0, <1>1, <1>2, <1>4 DEF Agreed, Known, Ready, Kind, Turn
<1>6. Asked'
  BY <1>0, <1>1, <1>2, <1>4 DEF Asked
<1>7. Means' /\ Outcome'
  <2>1. Last(credential_id_dict') = issued'
    BY <1>1 DEF Last
  <2> QED
    BY <1>1, <1>2, <1>3, <1>4, <2>1 DEF Means, Outcome
<1> QED
  BY <1>5, <1>6, <1>7 DEF InOrder

\* A call that goes on, or is answered, does nothing to the credentials ...
LEMMA MeansCall ==
  ASSUME IInv, Means, call.phase # "none",
         UNCHANGED <<setup, verdict, issued, revoked, credential_id_dict>>,
         (call' = Idle /\ at' = at + 1) \/ (call' # Idle /\ at' = at),
         Presented' => thread' \in Threads /\ (Meant(shown[thread]))'
  PROVE  Means'
<1>1. call # Idle /\ at \in 1..N /\ N \in Nat /\ N >= 3 /\ setup \in Setups
  BY CallFacts, ScenarioFacts DEF IInv, TypeOK
<1>2. UNCHANGED <<ShowsRevoked, N, Steps>>
  BY DEF ShowsRevoked, N, Steps
<1>3. \A c : (Meant(c))' <=> Meant(c)
  BY <1>2 DEF Meant
<1>4. Deed \notin {"issue", "revoke"} /\ Deed = Steps[at]
  <2>1. Deed = Steps[at] /\ (Deed \in {"issue", "revoke"} => at \in 1..(N-3))
    BY <1>1, PlaceOfDeed
  <2>2. (call.op = OperationOf[Deed] /\ Deed \in DOMAIN OperationOf) \/ Deed \in {"request", "requestValid"}
    BY <1>1 DEF IInv, Placed
  <2> QED
    BY <2>1, <2>2, OperationDomain
<1>5. ~Turned' => ~Turned
  BY <1>1, <1>2 DEF Turned
<1>6. \A i \in 1..(at'-1) : i \in 1..(at-1) \/ (i = at /\ at' = at + 1)
  BY <1>1
<1>7. OneSoFar(at)' => OneSoFar(at)
  <2>1. 1..(at-1) \subseteq 1..(at'-1)
    BY <1>1
  <2> QED
    BY <1>2, <2>1 DEF OneSoFar
<1>8. \A i \in 1..(at'-1) : Steps[i] = "revoke" => i \in 1..(at-1)
  BY <1>4, <1>6
<1>9. at' = N-2 /\ call' # Idle => at = N-2
  OBVIOUS
<1>10. Presented' => thread' \in Threads /\ (Meant(shown[thread]))'
  OBVIOUS
<1>11. ASSUME NEW i \in 1..(at'-1), Steps'[i] = "revoke", (OneSoFar(i))', verdict' = "running", ~Turned'
       PROVE  credential_id_dict'[1] \in revoked'
  <2>1. i \in 1..(at-1) /\ Steps[i] = "revoke" /\ OneSoFar(i)
    BY <1>2, <1>8, <1>11 DEF OneSoFar
  <2> QED
    BY <1>5, <1>11, <2>1 DEF Means
<1>12. at' = N' - 2 /\ call' # Idle => (Meant(Last(credential_id_dict)))'
  BY <1>1, <1>2, <1>9 DEF Means, Meant
<1> QED
  BY <1>2, <1>5, <1>7, <1>10, <1>11, <1>12 DEF Means

\* ... nor to the timeframe.
LEMMA AskedCall ==
  ASSUME IInv, Asked, call.phase # "none", UNCHANGED <<setup, verdict, timeframe>>,
         (call' = Idle /\ at' = at + 1) \/ (call' # Idle /\ at' = at),
         asked' # {} => asked # {} \/ timeframe,
         timeframe /\ thread' # NoThread /\ call'.op # "send-request" /\
           record'["verifier"][thread'] \in {"request-sent", "presentation-received", "done"} => thread' \in asked'
  PROVE  Asked'
<1>1. call # Idle /\ at \in 1..N /\ N \in Nat
  BY CallFacts DEF IInv
<1>2. UNCHANGED <<AsksValid, N, Steps>>
  BY DEF AsksValid, N, Steps
<1>3. Deed = Steps[at]
  BY DEF Deed, Steps
<1>4. \A i \in 1..(at'-1) : i \in 1..(at-1) \/ i = at
  BY <1>1
<1>5. \A i \in 1..(at'-1) : Steps[i] = "requestValid" => timeframe
  BY <1>1, <1>3, <1>4 DEF Asked
<1>6. call' # Idle => Deed' = Deed
  BY DEF Deed
<1> QED
  BY <1>1, <1>2, <1>5, <1>6 DEF Asked

\* Non-revocation is asked for in version 1 only.
LEMMA TimeframeVersion ==
  ASSUME IInv, Asked, timeframe \/ asked # {}
  PROVE  Version = 1
<1>1. setup \in Setups /\ N \in Nat /\ N >= 3
  BY ScenarioFacts DEF IInv, TypeOK
<1>2. PICK i \in DOMAIN setup.scenario.steps : setup.scenario.steps[i] = "requestValid"
  BY DEF Asked, AsksValid
<1>3. setup.scenario.steps \in Seq(Deeds) /\ i \in 1..N
  BY <1>1, PresentProofAssumption DEF Setups, N, Steps
<1>4. i \in 1..(N-3) \/ i = N-2 \/ i = N-1 \/ i = N
  BY <1>1, <1>3
<1>5. i \in 1..(N-3) /\ Steps[i] = "requestValid"
  BY <1>1, <1>2, <1>4, ScenarioFacts DEF Steps
<1> QED
  BY <1>1, <1>5, ScenarioFacts

LEMMA ProceedS == IInv /\ InOrder /\ Proceed => InOrder'
<1> SUFFICES ASSUME IInv, InOrder, Proceed PROVE InOrder'
  OBVIOUS
<1>0. TypeOK /\ Agreed /\ Known /\ Turn /\ Ready /\ Asked /\ Means /\ Outcome
  BY DEF IInv, InOrder
<1>1. /\ UNCHANGED <<setup, record, shown, asked, wire, issued, revoked, notified, thread, credential_id_dict,
                     timeframe, verification, at, verdict>>
      /\ call.phase \in {"wait", "swap", "check", "action"}
      /\ call' = [call EXCEPT !.phase = Then] /\ WaitOver
  BY DEF Proceed, agentVars, context, runVars
<1>2. call'.op = call.op /\ call'.thread = call.thread /\ call'.phase = Then /\ Then \in {"check", "post"}
  BY <1>0, <1>1 DEF Then, TypeOK
<1>3. call # Idle /\ call' # Idle
  BY <1>1, <1>2 DEF Idle
<1>4. UNCHANGED <<N, Steps, Version>>
  BY <1>1 DEF N, Steps, Version
<1>5. Presented' = Presented /\ Accepted' = Accepted
  BY <1>1, <1>2, <1>4 DEF Presented, Accepted
<1>6. Agreed' /\ Known' /\ Outcome'
  BY <1>0, <1>1, <1>4 DEF Agreed, Known, Kind, Outcome, Satisfies
<1>7. Turn'
  BY <1>0, <1>1, <1>2, <1>5 DEF Turn
<1>8. Asked'
  <2>1. timeframe /\ thread # NoThread /\ call'.op # "send-request" /\
          record["verifier"][thread] \in {"request-sent", "presentation-received", "done"} => thread \in asked
    <3>1. verdict = "running"
      BY <1>1, CallFacts
    <3> QED
      BY <1>0, <1>2, <3>1 DEF Asked
  <2>2. call.phase # "none"
    BY <1>1
  <2> QED
    BY <1>0, <1>1, <1>3, <2>1, <2>2, AskedCall
<1>9. Means'
  <2>1. Presented' => thread' \in Threads /\ (Meant(shown[thread]))'
    BY <1>0, <1>1, <1>5 DEF Means, Meant, ShowsRevoked
  <2> QED
    BY <1>0, <1>1, <1>3, <2>1, MeansCall
<1>10. Ready'
  <2> SUFFICES ASSUME Then = "post", call.thread # NoThread, Kind(At(call.op)) = "credo" \/ Checked(call.op)
               PROVE  call.op \in Presenting /\ record[At(call.op)][call.thread] = Awaited(call.op)
    BY <1>1, <1>2, <1>4 DEF Ready, Kind, Checked
  <2>1. call.op \in Operations /\ call.op # "get" /\ verdict = "running"
    BY <1>1, CallFacts DEF IInv, Placed
  <2>2. call.op \in Presenting /\ call.thread = thread /\ thread \in Threads
    <3>1. call.op \notin {"send-proposal", "send-request"}
      BY <2>1 DEF IInv, Placed, Checked
    <3> QED
      BY <1>0, <2>1, <3>1 DEF Operations, Presenting, IInv, Placed, TypeOK
  <2>3. CASE Kind(At(call.op)) = "credo"
    <3>1. call.phase = "wait"
      BY <1>1, <2>3 DEF IInv, Placed, At
    <3>2. <<thread, Awaited(call.op)>> \in notified[At(call.op)]
      BY <1>1, <2>2, <3>1 DEF WaitOver
    <3>3. at \in 1..N /\ N \in Nat /\ call.phase # "state" /\ thread # NoThread
          /\ (call.op = "send-presentation" => at = N-2) /\ (call.op = "verify-presentation" => at = N-1)
      BY <1>1, <2>2, CallFacts
    <3>4. CASE call.op = "send-presentation"
      <4>1. ~Presented
        BY <3>3, <3>4 DEF Presented
      <4>2. record["prover"][thread] \notin Sent
        BY <1>0, <2>1, <3>3, <4>1 DEF Turn
      <4>3. At(call.op) = "prover" /\ Awaited(call.op) = "request-received"
        BY <3>4 DEF At, Awaited
      <4> QED
        BY <1>0, <2>2, <2>3, <3>2, <4>2, <4>3 DEF Known
    <3>5. CASE call.op = "verify-presentation"
      <4>1. ~Accepted
        BY <3>3, <3>5 DEF Accepted
      <4>2. record["verifier"][thread] # "done"
        BY <1>0, <2>1, <3>3, <4>1 DEF Turn
      <4>3. At(call.op) = "verifier" /\ Awaited(call.op) = "presentation-received"
        BY <3>5 DEF At, Awaited
      <4> QED
        BY <1>0, <2>2, <2>3, <3>2, <4>2, <4>3 DEF Known
    <3> QED
      BY <2>2, <3>4, <3>5 DEF Presenting
  <2>4. CASE Checked(call.op)
    <3>1. call.phase = "check"
      BY <1>1, <2>4 DEF IInv, Placed, At, Checked, Then
    <3> QED
      BY <1>1, <2>2, <2>4, <3>1 DEF WaitOver, Checked, Awaited
  <2> QED
    BY <2>3, <2>4
<1> QED
  BY <1>6, <1>7, <1>8, <1>9, <1>10 DEF InOrder

\* A look that ends a step.
LEMMA SeenS ==
  ASSUME IInv, InOrder, call.phase = "look", AsExpected, Seen
  PROVE  InOrder'
<1>0. TypeOK /\ Agreed /\ Known /\ Turn /\ Ready /\ Asked /\ Means /\ Outcome
  BY DEF IInv, InOrder
<1>1. /\ UNCHANGED <<setup, record, shown, asked, wire, issued, revoked, notified, thread, credential_id_dict,
                     timeframe, verification, verdict>>
      /\ at' = at + 1 /\ call' = Idle /\ call'.phase = "none" /\ call'.op = "idle"
  BY DEF Seen, agentVars, context, Idle
<1>2. /\ call.op = "get" /\ call.thread = thread /\ at \in 1..N /\ N \in Nat /\ verdict = "running"
      /\ at = N \/ at < N-2
      /\ at = N => Deed = Steps[N]
  BY CallFacts DEF IInv, Placed
<1>3. UNCHANGED <<N, Steps, Version>>
  BY <1>1 DEF N, Steps, Version
<1>4. Presented' = Presented /\ Accepted' = Accepted
  BY <1>1, <1>2, <1>3 DEF Presented, Accepted
<1>5. Agreed' /\ Known' /\ Ready'
  BY <1>0, <1>1 DEF Agreed, Known, Kind, Ready
<1>6. Turn'
  BY <1>0, <1>1, <1>4 DEF Turn
<1>7. Asked'
  <2>1. timeframe /\ thread # NoThread /\
          record["verifier"][thread] \in {"request-sent", "presentation-received", "done"} => thread \in asked
    BY <1>0, <1>2 DEF Asked
  <2>2. call.phase # "none"
    OBVIOUS
  <2> QED
    BY <1>0, <1>1, <2>1, <2>2, AskedCall
<1>8. Means'
  <2>1. Presented' => thread' \in Threads /\ (Meant(shown[thread]))'
    BY <1>0, <1>1, <1>4 DEF Means, Meant, ShowsRevoked
  <2> QED
    BY <1>0, <1>1, <2>1, MeansCall
<1>9. Outcome'
  <2>1. CASE at = N
    <3>1. verification[thread] = (IF Satisfies(thread) THEN "true" ELSE "false")
      BY <1>0, <1>2, <2>1 DEF Outcome
    <3>2. Steps[N] \in {"verified", "unverified"} /\ Deed = Steps[N] /\ N >= 3
      BY <1>0, <1>2, <2>1, ScenarioFacts DEF TypeOK
    <3>3. thread \in Threads
      <4>1. Presented
        BY <1>2, <2>1 DEF Presented
      <4> QED
        BY <1>0, <4>1 DEF Means
    <3>4. Satisfies(thread) <=> Steps[N] = "verified"
      BY <1>2, <3>1, <3>2, <3>3 DEF AsExpected
    <3> QED
      BY <1>1, <1>3, <3>1, <3>4 DEF Outcome, Satisfies
  <2>2. CASE at < N-2
    BY <1>1, <1>2, <1>3, <2>2 DEF Outcome
  <2> QED
    BY <1>2, <2>1, <2>2
<1> QED
  BY <1>5, <1>6, <1>7, <1>8, <1>9 DEF InOrder

\* An operation moves the record it is posted to, which no message moves with it.
LEMMA PostRecords ==
  ASSUME IInv, Post
  PROVE  LET t == Subject
             p == At(call.op)
         IN /\ t \in Threads
            /\ \E m \in Moves :
                 /\ m.op = call.op /\ record[p][t] = m.from /\ record'[p][t] = m.to
                 /\ (call.thread = NoThread) = (m.from = "none")
                 /\ wire' = wire \cup {[to |-> Other(p), thread |-> t, message |-> m.message]}
                 /\ \A q \in Parties : \A u, x : <<u, x>> \in notified'[q] =>
                      <<u, x>> \in notified[q] \/ (q = p /\ u = t /\ x = m.to)
            /\ \A q \in Parties, u \in Threads : <<q, u>> # <<p, t>> => record'[q][u] = record[q][u]
            /\ call.thread = NoThread => Fresh(t)
            /\ call.thread # NoThread => t = call.thread /\ t = thread
<1>1. TypeOK /\ Spare /\ call.phase = "post"
  BY DEF IInv, Post
<1>2. /\ Subject \in Threads
      /\ call.thread = NoThread => Fresh(Subject)
      /\ call.thread # NoThread => Subject = call.thread /\ Subject = thread
  BY <1>1, SpareThread DEF IInv, Placed
<1>3. PICK m \in Moves :
        /\ Fits(m, Subject)
        /\ SetRecord(At(call.op), Subject, m.to)
        /\ wire' = wire \cup {[to |-> Other(At(call.op)), thread |-> Subject, message |-> m.message]}
  BY DEF Post
<1>4. m.to \in States /\ At(call.op) \in Parties
  BY MoveFacts, PartyOf
<1>5. /\ record'[At(call.op)][Subject] = m.to
      /\ \A q \in Parties, u \in Threads :
           <<q, u>> # <<At(call.op), Subject>> => record'[q][u] = record[q][u]
      /\ \A q \in Parties : \A u, x : <<u, x>> \in notified'[q] =>
           <<u, x>> \in notified[q] \/ (q = At(call.op) /\ u = Subject /\ x = m.to)
  BY <1>1, <1>2, <1>3, <1>4, SetRecordTypes
<1> QED
  BY <1>2, <1>3, <1>5 DEF Fits

LEMMA PostAgreed ==
  ASSUME IInv, InOrder, Post
  PROVE  /\ Agreed' /\ Known'
         /\ \A u \in Threads : record["prover"][u] \in Sent => record'["prover"][u] \in Sent
<1> DEFINE t == Subject
           p == At(call.op)
<1>0. TypeOK /\ Agreed /\ Known
  BY DEF IInv, InOrder
<1>1. PICK m \in Moves :
        /\ m.op = call.op /\ record[p][t] = m.from /\ record'[p][t] = m.to
        /\ wire' = wire \cup {[to |-> Other(p), thread |-> t, message |-> m.message]}
        /\ \A q \in Parties : \A u, x : <<u, x>> \in notified'[q] =>
             <<u, x>> \in notified[q] \/ (q = p /\ u = t /\ x = m.to)
  BY PostRecords
<1>2. /\ t \in Threads
      /\ \A q \in Parties, u \in Threads : <<q, u>> # <<p, t>> => record'[q][u] = record[q][u]
  BY PostRecords
<1>3. \/ /\ p = "prover" /\ Other(p) = "verifier" /\ m.message = "proposal"
         /\ m.from = "none" /\ m.to = "proposal-sent"
      \/ /\ p = "verifier" /\ Other(p) = "prover" /\ m.message = "request"
         /\ m.from \in {"none", "proposal-received"} /\ m.to = "request-sent"
      \/ /\ p = "prover" /\ Other(p) = "verifier" /\ m.message = "presentation"
         /\ m.from = "request-received" /\ m.to = "presentation-sent"
      \/ /\ p = "verifier" /\ Other(p) = "prover" /\ m.message = "ack"
         /\ m.from = "presentation-received" /\ m.to = "done"
  BY <1>1, MoveFacts DEF Operations, At, Other
<1>4. ASSUME NEW u \in Threads, record["prover"][u] \in Sent PROVE record'["prover"][u] \in Sent
  <2>1. CASE p = "prover" /\ u = t
    BY <1>1, <1>3, <1>4, <2>1 DEF Sent
  <2>2. CASE ~(p = "prover" /\ u = t)
    BY <1>2, <1>4, <2>2 DEF Parties
  <2> QED
    BY <2>1, <2>2
<1>5. ASSUME NEW n \in wire'
      PROVE  /\ n.to = IF n.message \in {"request", "ack"} THEN "prover" ELSE "verifier"
             /\ n.message = "presentation" => record'["prover"][n.thread] \in Sent
  <2>1. CASE n \in wire
    BY <1>0, <1>4, <2>1 DEF Agreed, TypeOK
  <2>2. CASE n = [to |-> Other(p), thread |-> t, message |-> m.message]
    BY <1>1, <1>3, <2>2 DEF Sent
  <2> QED
    BY <1>1, <2>1, <2>2
<1>6. ASSUME NEW u \in Threads, record'["verifier"][u] \in {"presentation-received", "done"}
      PROVE  record'["prover"][u] \in Sent
  <2>1. record["verifier"][u] \in {"presentation-received", "done"}
    <3>1. CASE p = "verifier" /\ u = t
      BY <1>1, <1>3, <1>6, <3>1
    <3>2. CASE ~(p = "verifier" /\ u = t)
      BY <1>2, <1>6, <3>2 DEF Parties
    <3> QED
      BY <3>1, <3>2
  <2> QED
    BY <1>0, <1>4, <2>1 DEF Agreed
<1>7. Agreed'
  BY <1>5, <1>6 DEF Agreed
<1>8. setup' = setup
  BY DEF Post
<1>9. ASSUME NEW u \in Threads, Kind("prover") = "credo", <<u, "request-received">> \in notified'["prover"]
      PROVE  record'["prover"][u] \in {"request-received"} \cup Sent
  <2>1. <<u, "request-received">> \in notified["prover"]
    BY <1>1, <1>3, <1>9 DEF Parties
  <2>2. record["prover"][u] \in {"request-received"} \cup Sent
    BY <1>0, <1>9, <2>1 DEF Known
  <2>3. CASE p = "prover" /\ u = t
    BY <1>1, <1>3, <2>2, <2>3 DEF Sent
  <2>4. CASE ~(p = "prover" /\ u = t)
    BY <1>2, <2>2, <2>4 DEF Parties
  <2> QED
    BY <2>3, <2>4
<1>10. ASSUME NEW u \in Threads, Kind("verifier") = "credo", <<u, "presentation-received">> \in notified'["verifier"]
       PROVE  record'["verifier"][u] \in {"presentation-received", "done"}
  <2>1. <<u, "presentation-received">> \in notified["verifier"]
    BY <1>1, <1>3, <1>10 DEF Parties
  <2>2. record["verifier"][u] \in {"presentation-received", "done"}
    BY <1>0, <1>10, <2>1 DEF Known
  <2>3. CASE p = "verifier" /\ u = t
    BY <1>1, <1>3, <2>2, <2>3
  <2>4. CASE ~(p = "verifier" /\ u = t)
    BY <1>2, <2>2, <2>4 DEF Parties
  <2> QED
    BY <2>3, <2>4
<1>11. Known'
  BY <1>8, <1>9, <1>10 DEF Known, Kind
<1> QED
  BY <1>4, <1>7, <1>11

LEMMA PostS == IInv /\ InOrder /\ Post => InOrder'
<1> SUFFICES ASSUME IInv, InOrder, Post PROVE InOrder'
  OBVIOUS
<1> DEFINE t == Subject
           p == At(call.op)
<1>0. TypeOK /\ Turn /\ Asked /\ Means /\ Outcome
  BY DEF IInv, InOrder
<1>1. /\ UNCHANGED <<setup, issued, revoked, credential_id_dict, timeframe, verdict>>
      /\ call.phase = "post"
      /\ shown' = IF call.op = "send-presentation"
                  THEN [shown EXCEPT ![t] = CredentialToShow(credential_id_dict)] ELSE shown
      /\ asked' = IF call.op = "send-request" /\ timeframe THEN asked \cup {t} ELSE asked
  BY DEF Post
<1>2. /\ call # Idle /\ verdict = "running" /\ at \in 1..N /\ N \in Nat /\ setup \in Setups /\ N >= 3
      /\ call.op \in {"send-proposal", "send-request"} => at < N-2
      /\ call.op = "send-presentation" <=> at = N-2
      /\ call.op = "verify-presentation" <=> at = N-1
  BY <1>0, <1>1, CallFacts, ScenarioFacts DEF TypeOK
<1>3. PICK m \in Moves :
        /\ m.op = call.op /\ record[p][t] = m.from /\ record'[p][t] = m.to
        /\ (call.thread = NoThread) = (m.from = "none")
  BY PostRecords
<1>4. /\ t \in Threads
      /\ \A q \in Parties, u \in Threads : <<q, u>> # <<p, t>> => record'[q][u] = record[q][u]
      /\ call.thread = NoThread => Fresh(t)
      /\ call.thread # NoThread => t = call.thread /\ t = thread
  BY PostRecords
<1>6. \/ /\ Kind(p) = "afgo" /\ UNCHANGED <<thread, verification, at>>
         /\ call'.op = call.op /\ call'.thread = t /\ call'.phase = "state" /\ call' # Idle
      \/ /\ Kind(p) # "afgo" /\ Answered(t)
  <2>1. CASE Kind(p) = "afgo"
    <3>1. call' = [call EXCEPT !.phase = "state", !.thread = t] /\ UNCHANGED <<thread, verification, at>>
      BY <2>1 DEF Post
    <3> QED
      BY <1>0, <2>1, <3>1 DEF TypeOK, Idle
  <2>2. CASE Kind(p) # "afgo"
    BY <2>2 DEF Post
  <2> QED
    BY <2>1, <2>2
<1>7. /\ call'.phase \in {"state", "look", "none"}
      /\ (call' = Idle /\ at' = at + 1) \/ (call' # Idle /\ at' = at)
      /\ call'.phase = "state" => at' = at /\ call'.thread = t /\ call'.op = call.op
      /\ at' = at + 1 => call'.phase = "none"
  <2>1. CASE Answered(t) /\ call.op = "send-request" /\ Version = 1
    <3>1. call' = [op |-> "get", thread |-> t, phase |-> "look"] /\ at' = at
      BY <2>1 DEF Answered
    <3> QED
      BY <1>2, <3>1 DEF Idle
  <2>2. CASE Answered(t) /\ ~(call.op = "send-request" /\ Version = 1)
    <3>1. call' = Idle /\ at' = at + 1
      BY <2>2 DEF Answered
    <3> QED
      BY <3>1 DEF Idle
  <2> QED
    BY <1>2, <1>6, <2>1, <2>2
<1>8. UNCHANGED <<N, Steps, Version>> /\ thread' \in {thread, t}
      /\ (call.op \in Presenting => thread' = thread)
  BY <1>1, <1>6 DEF N, Steps, Version, Answered, Presenting
<1>9. Agreed' /\ Known'
  BY PostAgreed
<1>10. Ready'
  BY <1>7 DEF Ready
<1>11. asked' # {} => asked # {} \/ timeframe
  BY <1>1
<1>12. call.phase # "none"
  BY <1>1
<1>13. CASE call.op \in {"send-proposal", "send-request"}
  <2>1. /\ ~Presented /\ ~Presented' /\ ~Accepted /\ ~Accepted' /\ ~(at' > N' - 1)
    BY <1>2, <1>7, <1>8, <1>13 DEF Presented, Accepted
  <2>2. m.to \in {"proposal-sent", "request-sent"} /\ (m.op = "send-proposal" => m.from = "none")
        /\ (m.op = "send-proposal" => p = "prover") /\ (m.op = "send-request" => p = "verifier")
    BY <1>3, <1>13, MoveFacts DEF At
  <2>3. ASSUME NEW u \in Threads, u \in {thread, t}
        PROVE  record'["prover"][u] \notin Sent /\ record'["verifier"][u] # "done"
    <3>1. record["prover"][u] \notin Sent /\ record["verifier"][u] # "done"
      <4>1. CASE u = thread
        BY <1>0, <1>2, <2>1, <2>3, <4>1, PresentProofAssumption DEF Turn
      <4>2. CASE u # thread
        <5>1. Fresh(u)
          BY <1>4, <2>3, <4>2
        <5> QED
          BY <5>1 DEF Fresh, Sent, Parties
      <4> QED
        BY <4>1, <4>2
    <3>2. CASE u = t
      BY <1>3, <1>4, <2>2, <3>1, <3>2 DEF Sent, Parties
    <3>3. CASE u # t
      BY <1>4, <3>1, <3>3 DEF Parties
    <3> QED
      BY <3>2, <3>3
  <2>4. Turn'
    <3>1. thread' # NoThread => thread' \in Threads
      BY <1>0, <1>4, <1>8 DEF TypeOK
    <3> QED
      BY <1>4, <1>7, <1>8, <2>1, <2>3, <3>1 DEF Turn
  <2>5. Asked'
    <3> SUFFICES ASSUME timeframe, call'.op # "send-request",
                        record'["verifier"][thread'] \in {"request-sent", "presentation-received", "done"}
                 PROVE  thread' \in asked'
      BY <1>0, <1>1, <1>7, <1>11, <1>12, AskedCall
    <3>1. Version = 1
      BY <1>0, TimeframeVersion
    <3>2. Kind(p) # "afgo"
      BY <1>2, <3>1, KindFacts, PartyOf
    <3>3. Answered(t)
      BY <1>6, <3>2
    <3>4. thread' = t
      BY <1>13, <3>1, <3>3 DEF Answered
    <3>5. CASE call.op = "send-request"
      BY <1>1, <3>4, <3>5
    <3>6. CASE call.op = "send-proposal"
      <4>1. Fresh(t) /\ p = "prover"
        BY <1>3, <1>4, <2>2, <3>6
      <4>2. record'["verifier"][t] = "none"
        BY <1>4, <4>1 DEF Fresh, Parties
      <4> QED
        BY <3>4, <4>2
    <3> QED
      BY <1>13, <3>5, <3>6
  <2>6. Means'
    BY <1>0, <1>1, <1>7, <1>12, <2>1, MeansCall
  <2>7. Outcome'
    <3>1. ~(at' > N')
      BY <1>2, <1>7, <1>8, <1>13
    <3> QED
      BY <2>1, <3>1 DEF Outcome
  <2> QED
    BY <1>9, <1>10, <2>4, <2>5, <2>6, <2>7 DEF InOrder
<1>14. CASE call.op = "send-presentation"
  <2>1. /\ at = N-2 /\ ~Presented /\ ~Accepted /\ ~Accepted' /\ Presented' /\ ~(at' > N'-1) /\ ~(at' > N')
    <3>1. at = N-2
      BY <1>2, <1>14
    <3>2. call'.phase = "state" \/ at' = at + 1
      BY <1>6, <1>14 DEF Answered
    <3> QED
      BY <1>1, <1>2, <1>7, <1>8, <3>1, <3>2 DEF Presented, Accepted
  <2>2. /\ m.from = "request-received" /\ m.to = "presentation-sent" /\ p = "prover"
        /\ call.thread # NoThread /\ t = thread /\ thread' = thread
    BY <1>3, <1>4, <1>8, <1>14, MoveFacts DEF At, Presenting
  <2>3. record'["verifier"][thread] = record["verifier"][thread]
    BY <1>4, <2>2 DEF Parties
  <2>4. thread \in Threads /\ thread # NoThread
    BY <1>4, <2>2, PresentProofAssumption
  <2>5. Turn'
    <3>1. record["verifier"][thread] # "done"
      BY <1>0, <1>2, <2>1, <2>4 DEF Turn
    <3>2. call'.phase = "state" => call'.op \in Presenting
      BY <1>7, <1>14 DEF Presenting
    <3> QED
      BY <2>1, <2>2, <2>3, <3>1, <3>2 DEF Turn
  <2>6. Asked'
    <3>1. timeframe /\ record["verifier"][thread] \in {"request-sent", "presentation-received", "done"} =>
            thread \in asked
      BY <1>0, <1>2, <1>14, <2>4 DEF Asked
    <3>2. asked' = asked
      BY <1>1, <1>14
    <3> QED
      BY <1>0, <1>1, <1>7, <1>11, <1>12, <2>2, <2>3, <3>1, <3>2, AskedCall
  <2>7. Means'
    <3>1. shown'[t] = Last(credential_id_dict)
      BY <1>0, <1>1, <1>4, <1>14 DEF CredentialToShow, TypeOK
    <3>2. Meant(Last(credential_id_dict))
      BY <1>0, <1>2, <2>1 DEF Means
    <3>3. (Meant(shown[thread]))'
      BY <1>1, <2>2, <3>1, <3>2 DEF Meant, ShowsRevoked
    <3> QED
      BY <1>0, <1>1, <1>7, <1>12, <2>2, <2>4, <3>3, MeansCall
  <2>8. Outcome'
    BY <2>1 DEF Outcome
  <2> QED
    BY <1>9, <1>10, <2>5, <2>6, <2>7, <2>8 DEF InOrder
<1>15. CASE call.op = "verify-presentation"
  <2>1. /\ at = N-1 /\ Presented /\ Accepted' /\ ~(at' > N')
        /\ (at' > N'-1 => Answered(t)) /\ Presented'
    <3>1. at = N-1
      BY <1>2, <1>15
    <3>2. (call'.phase = "state" /\ at' = at) \/ (Answered(t) /\ at' = at + 1)
      BY <1>6, <1>15 DEF Answered
    <3> QED
      BY <1>1, <1>2, <1>7, <1>8, <3>1, <3>2 DEF Presented, Accepted
  <2>2. /\ m.from = "presentation-received" /\ m.to = "done" /\ p = "verifier"
        /\ call.thread # NoThread /\ t = thread /\ thread' = thread
    BY <1>3, <1>4, <1>8, <1>15, MoveFacts DEF At, Presenting
  <2>3. thread \in Threads /\ thread # NoThread
    BY <1>4, <2>2, PresentProofAssumption
  <2>4. Turn'
    <3>1. call'.phase = "state" => call'.op \in Presenting
      BY <1>7, <1>15 DEF Presenting
    <3> QED
      BY <1>3, <2>1, <2>2, <3>1 DEF Turn
  <2>5. Asked'
    <3>1. timeframe => thread \in asked
      BY <1>0, <1>2, <1>3, <1>15, <2>2, <2>3 DEF Asked
    <3>2. asked' = asked
      BY <1>1, <1>15
    <3> QED
      BY <1>0, <1>1, <1>7, <1>11, <1>12, <2>2, <3>1, <3>2, AskedCall
  <2>6. Means'
    <3>1. (Meant(shown[thread]))'
      BY <1>0, <1>1, <1>15, <2>1, <2>2 DEF Means, Meant, ShowsRevoked
    <3> QED
      BY <1>0, <1>1, <1>7, <1>12, <2>2, <2>3, <3>1, MeansCall
  <2>7. Outcome'
    <3>1. Satisfies(thread)' = Satisfies(thread)
      BY <1>1, <1>15, <2>2 DEF Satisfies
    <3>2. Answered(t) => verification'[thread] = IF Satisfies(t) THEN "true" ELSE "false"
      BY <1>0, <1>15, <2>3 DEF Answered, TypeOK
    <3> QED
      BY <2>1, <2>2, <3>1, <3>2 DEF Outcome
  <2> QED
    BY <1>9, <1>10, <2>4, <2>5, <2>6, <2>7 DEF InOrder
<1> QED
  BY <1>3, <1>13, <1>14, <1>15, MoveFacts DEF Operations

\* AFGO's answer comes when the agent has moved already.
LEMMA StatePoppedS ==
  ASSUME IInv, InOrder, call.phase = "state", Answered(call.thread),
         UNCHANGED <<setup, agentVars, issued, revoked, notified, credential_id_dict, timeframe, verdict>>
  PROVE  InOrder'
<1>0. TypeOK /\ Agreed /\ Known /\ Turn /\ Asked /\ Means /\ Outcome
  BY DEF IInv, InOrder
<1>1. /\ UNCHANGED <<record, wire, shown, asked>>
      /\ call.thread \in Threads /\ Kind(At(call.op)) = "afgo" /\ call.phase # "none"
  BY DEF agentVars, IInv, Placed
<1>2. /\ call # Idle /\ verdict = "running" /\ at \in 1..N /\ N \in Nat /\ setup \in Setups /\ N >= 3
      /\ call.op \in {"send-proposal", "send-request"} => at < N-2
      /\ call.op = "send-presentation" <=> at = N-2
      /\ call.op = "verify-presentation" <=> at = N-1
      /\ call.op \in {"send-proposal", "send-request", "send-presentation", "verify-presentation"}
  BY <1>0, <1>1, CallFacts, ScenarioFacts DEF TypeOK, Operations, IInv, Placed
<1>3. Version # 1 /\ ~timeframe
  BY <1>0, <1>1, <1>2, KindFacts, PartyOf, TimeframeVersion
<1>4. call' = Idle /\ at' = at + 1 /\ call'.phase = "none" /\ call'.op = "idle"
      /\ thread' \in {thread, call.thread} /\ (call.op \in Presenting => thread' = thread /\ thread = call.thread)
  BY <1>3 DEF Answered, Idle, Presenting, IInv, Placed
<1>5. UNCHANGED <<N, Steps, Version>>
  BY DEF N, Steps, Version
<1>6. Agreed' /\ Known' /\ Ready'
  BY <1>0, <1>1, <1>4 DEF Agreed, Known, Kind, Ready
<1>7. Asked'
  BY <1>0, <1>1, <1>3, <1>4, AskedCall
<1>8. CASE call.op \in {"send-proposal", "send-request"}
  <2>1. ~Presented /\ ~Presented' /\ ~Accepted /\ ~Accepted' /\ ~(at' > N'-1) /\ ~(at' > N')
    BY <1>2, <1>4, <1>5, <1>8 DEF Presented, Accepted
  <2>2. Turn'
    <3>1. record["prover"][call.thread] \notin Sent /\ record["verifier"][call.thread] # "done"
      BY <1>0, <1>8 DEF Turn, Presenting
    <3>2. thread # NoThread => record["prover"][thread] \notin Sent /\ record["verifier"][thread] # "done"
      BY <1>0, <1>2, <2>1 DEF Turn
    <3> QED
      BY <1>1, <1>4, <2>1, <3>1, <3>2 DEF Turn
  <2>3. Means' /\ Outcome'
    BY <1>0, <1>1, <1>4, <2>1, MeansCall DEF Outcome
  <2> QED
    BY <1>6, <1>7, <2>2, <2>3 DEF InOrder
<1>9. CASE call.op \in Presenting
  <2>1. /\ thread' = thread /\ thread = call.thread /\ thread \in Threads
        /\ Presented /\ Presented' /\ (Accepted' <=> Accepted) /\ (Accepted' => call.op = "verify-presentation")
        /\ ~(at' > N') /\ (at' > N'-1 <=> call.op = "verify-presentation")
    BY <1>1, <1>2, <1>4, <1>5, <1>9 DEF Presented, Accepted, Presenting
  <2>2. Turn'
    BY <1>0, <1>1, <1>4, <2>1 DEF Turn
  <2>3. Means'
    <3>1. (Meant(shown[thread]))'
      BY <1>0, <1>1, <2>1 DEF Means, Meant, ShowsRevoked
    <3> QED
      BY <1>0, <1>1, <1>4, <2>1, <3>1, MeansCall
  <2>4. Outcome'
    <3>1. Satisfies(thread)' = Satisfies(thread)
      BY <1>1, <2>1 DEF Satisfies
    <3>2. call.op = "verify-presentation" =>
            verification'[thread] = IF Satisfies(thread) THEN "true" ELSE "false"
      BY <1>0, <2>1 DEF Answered, TypeOK
    <3> QED
      BY <2>1, <3>1, <3>2 DEF Outcome
  <2> QED
    BY <1>6, <1>7, <2>2, <2>3, <2>4 DEF InOrder
<1> QED
  BY <1>2, <1>8, <1>9 DEF Presenting

LEMMA NextS == IInv /\ InOrder /\ [Next]_vars => InOrder'
<1> SUFFICES ASSUME IInv, InOrder, [Next]_vars PROVE InOrder'
  OBVIOUS
<1>1. CASE Deliver \/ Webhook \/ AfgoWebhook \/ UNCHANGED vars
  BY <1>1, DeliverS, WebhookS
<1>2. CASE Step \/ Issue \/ Revoke \/ Retry \/ Proceed \/ Post
  BY <1>2, StepS, CredentialStepsS, RetryS, ProceedS, PostS
<1>3. ASSUME NEW l, Fails(l), UNCHANGED <<agentVars, issued, revoked, notified>> PROVE InOrder'
  <2>1. UNCHANGED <<setup, context, at>> /\ call' = Idle /\ verdict' = "failed"
    BY <1>3 DEF Fails
  <2> QED
    BY <1>3, <2>1, EndsS
<1>4. CASE Succeed
  BY <1>4, EndsS DEF Succeed
<1>5. CASE GiveUp \/ Refused \/ LookFails \/ NoStatePopped
  BY <1>3, <1>5 DEF GiveUp, Refused, LookFails, NoStatePopped, FailScenario
<1>6. CASE StatePopped
  <2>1. call.phase = "state" /\ UNCHANGED <<agentVars, issued, revoked, notified>>
    BY <1>6 DEF StatePopped
  <2>2. CASE \E l : Fails(l)
    BY <1>3, <2>1, <2>2
  <2>3. CASE Answered(call.thread) /\ UNCHANGED <<setup, credential_id_dict, timeframe, verdict>>
    BY <2>1, <2>3, StatePoppedS
  <2> QED
    BY <1>6, <2>2, <2>3 DEF StatePopped
<1>7. CASE Look \/ LookPops \/ LookTimesOut
  <2>1. call.phase = "look" /\ UNCHANGED <<agentVars, issued, revoked, notified>>
        /\ (Seen \/ \E l : Looked(l))
    BY <1>7 DEF Look, LookPops, LookTimesOut, Seen
  <2>2. CASE \E l : Fails(l)
    BY <1>3, <2>1, <2>2
  <2>3. CASE Seen /\ AsExpected
    BY <2>1, <2>3, SeenS
  <2>4. CASE UNCHANGED <<setup, context, runVars, call>>
    <3>1. Known'
      BY <2>1, <2>4 DEF InOrder, Known, Kind, agentVars
    <3> QED
      BY <2>1, <2>4, <3>1, StandsS
  <2> QED
    BY <2>1, <2>2, <2>3, <2>4 DEF Seen, Looked, FailScenario
<1> QED
  BY <1>1, <1>2, <1>4, <1>5, <1>6, <1>7 DEF Next, Harness, Served

LEMMA InitS == Init => InOrder
<1> SUFFICES ASSUME Init PROVE InOrder
  OBVIOUS
<1>1. N \in Nat /\ N >= 3
  BY ScenarioFacts DEF Init
<1>2. at = 1 /\ call = Idle /\ call.phase = "none" /\ call.op = "idle" /\ 1..(at-1) = {}
  BY DEF Init, Idle
<1>3. ~Presented /\ ~Accepted
  BY <1>1, <1>2 DEF Presented, Accepted
<1>4. Agreed /\ Known /\ Turn /\ Ready
  BY <1>2, <1>3 DEF Init, Agreed, Known, Turn, Ready, Parties
<1>5. Asked
  BY <1>2 DEF Init, Asked
<1>6. Means /\ Outcome
  <2>1. Last(<<1>>) = 1
    BY DEF Last
  <2> QED
    BY <1>1, <1>2, <1>3, <2>1 DEF Init, Means, Outcome
<1> QED
  BY <1>4, <1>5, <1>6 DEF InOrder

LEMMA InOrderAlways == Spec => []InOrder
BY InitS, NextS, InvariantI, PTL DEF Spec

\* After the waits of Credo, and of ACA-Py before it verifies in version 1, no event of an
\* earlier attempt or state lets a call through: the agent accepts what is posted to it.
THEOREM PostsInState == Spec => []VerifiedInState
<1>1. ASSUME Ready PROVE VerifiedInState
  <2> SUFFICES ASSUME call.phase = "post", call.thread # NoThread,
                      Kind(At(call.op)) = "credo" \/ Checked(call.op)
               PROVE  \E m \in Moves : Fits(m, call.thread)
    BY DEF VerifiedInState, Checked
  <2>1. call.op \in Presenting /\ record[At(call.op)][call.thread] = Awaited(call.op)
    BY <1>1 DEF Ready
  <2>2. \E m \in Moves : m.op = call.op /\ m.from = Awaited(call.op) /\ m.from # "none"
    BY <2>1 DEF Presenting, Awaited, Moves
  <2> QED
    BY <2>1, <2>2 DEF Fits
<1> QED
  BY <1>1, InOrderAlways, PTL DEF InOrder

\* A scenario that passes has had a presentation of its own made and verified, of the credential
\* it means, with non-revocation asked for where it says so and the outcome it names.
THEOREM VerifiedWasShown == Spec => []PassMeansVerified
<1>1. ASSUME IInv, InOrder PROVE PassMeansVerified
  <2> SUFFICES ASSUME verdict = "passed" PROVE PassMeansVerified
    BY DEF PassMeansVerified
  <2>0. TypeOK /\ Own /\ Placed /\ Agreed /\ Turn /\ Asked /\ Means /\ Outcome
    BY <1>1 DEF IInv, InOrder
  <2>1. at > N /\ N \in Nat /\ N >= 3 /\ at \in Nat
    BY <2>0, ScenarioFacts DEF Placed, TypeOK
  <2>2. Presented /\ Accepted /\ at > N-1
    BY <2>1 DEF Presented, Accepted
  <2>3. thread \in Threads /\ thread # NoThread /\ thread \in begun /\ Meant(shown[thread])
    BY <2>0, <2>2, PresentProofAssumption DEF Means, Own
  <2>4. record["verifier"][thread] = "done" /\ record["prover"][thread] \in Sent
    BY <2>0, <2>2, <2>3 DEF Turn, Agreed
  <2>5. /\ (AsksValid => thread \in asked) /\ (thread \in asked => AsksValid)
    <3>1. call.op # "send-request"
      BY <2>0 DEF Own, Idle
    <3>2. ASSUME AsksValid PROVE timeframe
      <4>1. PICK i \in DOMAIN setup.scenario.steps : setup.scenario.steps[i] = "requestValid"
        BY <3>2 DEF AsksValid
      <4>2. setup.scenario.steps \in Seq(Deeds)
        BY <2>0, PresentProofAssumption DEF TypeOK, Setups
      <4>3. i \in 1..N
        BY <4>1, <4>2 DEF N, Steps
      <4>4. i \in 1..(at-1) /\ Steps[i] = "requestValid"
        BY <2>1, <4>1, <4>3 DEF Steps
      <4> QED
        BY <2>0, <4>4 DEF Asked
    <3> QED
      BY <2>0, <2>3, <2>4, <3>1, <3>2 DEF Asked
  <2>6. Satisfies(thread) <=> Last(setup.scenario.steps) = "verified"
    <3>1. Last(setup.scenario.steps) = Steps[N]
      BY DEF Last, Steps, N
    <3> QED
      BY <2>0, <2>1, <3>1 DEF Outcome
  <2>7. AsksValid = (thread \in asked)
    <3>1. AsksValid \in BOOLEAN
      BY DEF AsksValid
    <3>2. (thread \in asked) \in BOOLEAN
      OBVIOUS
    <3> QED
      BY <2>5, <3>1, <3>2
  <2>8. Satisfies(thread) = (Last(setup.scenario.steps) = "verified")
    BY <2>6 DEF Satisfies
  <2>9. IF ShowsRevoked THEN shown[thread] \in revoked ELSE shown[thread] = issued
    BY <2>3 DEF Meant
  <2> QED
    BY <2>3, <2>4, <2>7, <2>8, <2>9 DEF PassMeansVerified, Sent
<1> QED
  BY <1>1, InOrderAlways, InvariantI, PTL

----------------------------------------------------------------------------
(* No failure but a late one.                                              *)

\* A step of A is behind step k, and none since then is b.
Since(A, b, k) == \E i \in 1..(k-1) : Steps[i] \in A /\ \A j \in (i+1)..(k-1) : Steps[j] # b

AskedFor(k) == Since({"request", "requestValid"}, "propose", k)
RevokedAt(k) == Since({"revoke"}, "issue", k)

\* The exchanges: the records of the two parties, and the message under way between them.
OnWire(t, m) == \E n \in wire : n.thread = t /\ n.message = m

AtStage(t, v, p, m) ==
  /\ record["verifier"][t] = v /\ record["prover"][t] = p
  /\ \A n \in wire : n.thread = t => n.message = m
  /\ m # "nothing" => OnWire(t, m)

Stage(t) ==
  \/ AtStage(t, "none", "none", "nothing")
  \/ AtStage(t, "none", "proposal-sent", "proposal")
  \/ AtStage(t, "proposal-received", "proposal-sent", "nothing")
  \/ AtStage(t, "request-sent", "none", "request")
  \/ AtStage(t, "request-sent", "proposal-sent", "request")
  \/ AtStage(t, "request-sent", "request-received", "nothing")
  \/ AtStage(t, "request-sent", "presentation-sent", "presentation")
  \/ AtStage(t, "presentation-received", "presentation-sent", "nothing")
  \/ AtStage(t, "done", "presentation-sent", "ack")
  \/ AtStage(t, "done", "done", "nothing")

Staged == \A t \in Threads : Stage(t)

\* Credo's events say what the records are.
Told ==
  \A p \in Parties, t \in Threads :
    Kind(p) = "credo" /\ record[p][t] # "none" => <<t, record[p][t]>> \in notified[p]

RevokedNow == verdict = "running" => (issued \in revoked <=> RevokedAt(at))

\* The exchange of the context is where the steps so far have brought it.
Requested(t) == t \in Threads /\ record["verifier"][t] \in {"request-sent", "presentation-received", "done"}
Proposed(t) ==
  /\ record["prover"][t] = "proposal-sent"
  /\ record["verifier"][t] \in {"none", "proposal-received"}
Answering(op) == call.phase = "state" /\ call.op = op

Stands ==
  verdict = "running" =>
    /\ AskedFor(at) \/ (Version = 2 /\ thread # NoThread) \/ call.op = "get" => Requested(thread)
    /\ Answering("send-request") => Requested(call.thread)
    /\ Version = 3 /\ thread # NoThread /\ ~AskedFor(at) /\ ~Answering("send-request") => Proposed(thread)
    /\ Answering("send-proposal") => Proposed(call.thread)
    /\ Presented => record["prover"][thread] \in Sent

\* What the webhooks of a queue say of t: no state, s as the last one, what to do.
OfState(w, t) == w[1] = "states" /\ w[2] = t
NoState(q, t) == \A i \in 1..Len(q) : ~OfState(q[i], t)
LastState(q, t, s) ==
  \E i \in 1..Len(q) : q[i] = <<"states", t, s>> /\ \A j \in (i+1)..Len(q) : ~OfState(q[j], t)
ActionIn(q, t) == \E i \in 1..Len(q) : q[i][1] = "actions" /\ q[i][2] = t

Filed(st, t, s) ==
  LET b == <<t, "states">>
  IN st.order # <<>> /\ Store!CanPop(st, b) /\ Store!PoppedTail(st, b) = s

\* The state AFGO's answer waits for is filed or on its way.
StateComing ==
  call.phase = "state" =>
    LET p == At(call.op)
        t == call.thread
    IN \/ LastState(pending[p], t, record[p][t])
       \/ NoState(pending[p], t) /\ Filed(store[p], t, record[p][t])

\* So is the action webhook of a request that no call has taken it for.
Presents(t) == call.op = "send-presentation" /\ call.phase = "post" /\ call.thread = t
ActionComing ==
  Kind("prover") = "afgo" =>
    \A t \in Threads :
      record["prover"][t] = "request-received" /\ ~Presents(t) =>
        ActionIn(pending["prover"], t) \/ Store!CanPop(store["prover"], <<t, "actions">>)

\* So is the last state of an exchange, on the stack of its thread, until the last step has
\* taken it; only a GET given up while it was under way leaves a task that takes it first.
OnStack(t, s) == stack[t] # <<>> /\ Last(stack[t]) = s
DoneComing ==
  Kind("prover") = "afgo" /\ ~late /\ verdict = "running" /\ at <= N =>
    \A t \in begun :
      record["prover"][t] = "done" =>
        \/ LastState(pending["prover"], t, "done")
        \/ NoState(pending["prover"], t) /\ OnStack(t, "done")

Orphaned ==
  \A t \in Threads :
    orphans[t] > 0 => record["prover"][t] # "none" /\ (t \in begun => late)

Coming == StateComing /\ ActionComing /\ DoneComing /\ Orphaned

InTime == Staged /\ Told /\ RevokedNow /\ Stands /\ Coming /\ FailsOnlyWhenLate

\* One more step behind: what it has asked for or taken back, what it has revoked or replaced.
LEMMA SinceNext ==
  ASSUME NEW A, NEW b, NEW k \in Nat \ {0}
  PROVE  Since(A, b, k+1) <=> Steps[k] \in A \/ (Since(A, b, k) /\ Steps[k] # b)
<1>0. (k + 1) - 1 = k
  OBVIOUS
<1>1. ASSUME Steps[k] \in A PROVE Since(A, b, k+1)
  <2>1. k \in 1..k /\ \A j \in (k+1)..k : Steps[j] # b
    OBVIOUS
  <2> QED
    BY <1>0, <1>1, <2>1 DEF Since
<1>2. ASSUME Since(A, b, k), Steps[k] # b PROVE Since(A, b, k+1)
  <2>1. PICK i \in 1..(k-1) : Steps[i] \in A /\ \A j \in (i+1)..(k-1) : Steps[j] # b
    BY <1>2 DEF Since
  <2>2. i \in 1..k /\ \A j \in (i+1)..k : j = k \/ j \in (i+1)..(k-1)
    OBVIOUS
  <2>3. \A j \in (i+1)..k : Steps[j] # b
    BY <1>2, <2>1, <2>2
  <2> QED
    BY <1>0, <2>1, <2>2, <2>3 DEF Since
<1>3. ASSUME Since(A, b, k+1), Steps[k] \notin A PROVE Since(A, b, k) /\ Steps[k] # b
  <2>1. PICK i \in 1..k : Steps[i] \in A /\ \A j \in (i+1)..k : Steps[j] # b
    BY <1>0, <1>3 DEF Since
  <2>2. i # k
    BY <1>3, <2>1
  <2>3. i \in 1..(k-1) /\ k \in (i+1)..k /\ \A j \in (i+1)..(k-1) : j \in (i+1)..k
    BY <2>2
  <2> QED
    BY <2>1, <2>3 DEF Since
<1> QED
  BY <1>1, <1>2, <1>3

\* What the assumptions say of the steps of this scenario.
LEMMA RequestFacts ==
  ASSUME setup \in Setups
  PROVE  /\ AskedFor(N-2)
         /\ Version = 2 => \A i \in 1..N : Steps[i] # "propose"
         /\ Version = 3 => \A i \in 1..N : Steps[i] \in {"request", "requestValid"} => ~AskedFor(i)
         /\ Steps[N] = "unverified" <=> AsksValid /\ (Steps[N-2] = "presentRevoked" \/ RevokedAt(N))
<1>1. setup.scenario \in Scenarios
  BY DEF Setups
<1>2. DOMAIN setup.scenario.steps = 1..N
  BY <1>1, PresentProofAssumption DEF N, Steps
<1>3. /\ AskedFor(N-2)
      /\ Version = 2 => \A i \in 1..N : Steps[i] # "propose"
      /\ Version = 3 => \A i \in 1..N : Steps[i] \in {"request", "requestValid"} => ~AskedFor(i)
  BY <1>1, RequestAssumption DEF AskedFor, Since, Steps, N, Version
<1>4. Steps[N] = "unverified" <=> AsksValid /\ (Steps[N-2] = "presentRevoked" \/ RevokedAt(N))
  BY <1>1, <1>2, OutcomeAssumption DEF RevokedAt, Since, Steps, N, AsksValid
<1> QED
  BY <1>3, <1>4

\* Once the scenario presents, it has asked.
LEMMA AskedAtLast ==
  ASSUME setup \in Setups, NEW k \in (N-2)..(N+1)
  PROVE  AskedFor(k)
<1>1. /\ N \in Nat /\ N >= 3 /\ Steps[N-2] \in {"present", "presentRevoked"} /\ Steps[N-1] = "acknowledge"
      /\ Steps[N] \in {"verified", "unverified"} /\ AskedFor(N-2)
  BY ScenarioFacts, RequestFacts
<1>2. AskedFor((N-2)+1)
  BY <1>1, SinceNext DEF AskedFor
<1>3. AskedFor((N-1)+1)
  <2>1. (N-2)+1 = N-1 /\ N-1 \in Nat \ {0}
    BY <1>1
  <2> QED
    BY <1>1, <1>2, <2>1, SinceNext DEF AskedFor
<1>4. AskedFor(N+1)
  <2>1. (N-1)+1 = N /\ N \in Nat \ {0}
    BY <1>1
  <2> QED
    BY <1>1, <1>3, <2>1, SinceNext DEF AskedFor
<1>5. (N-2)+1 = N-1 /\ (N-1)+1 = N /\ k \in {N-2, N-1, N, N+1}
  BY <1>1
<1> QED
  BY <1>1, <1>2, <1>3, <1>4, <1>5

\* What a step of the scenario does to either.
LEMMA StepsBehind ==
  ASSUME TypeOK, setup' = setup
  PROVE  /\ at' = at => (AskedFor(at)' <=> AskedFor(at)) /\ (RevokedAt(at)' <=> RevokedAt(at))
         /\ at' = at + 1 =>
              /\ AskedFor(at)' <=> Deed \in {"request", "requestValid"} \/ (AskedFor(at) /\ Deed # "propose")
              /\ RevokedAt(at)' <=> Deed = "revoke" \/ (RevokedAt(at) /\ Deed # "issue")
<1>1. (AskedFor(at)' <=> AskedFor(at')) /\ (RevokedAt(at)' <=> RevokedAt(at'))
  BY DEF AskedFor, RevokedAt, Since, Steps
<1>2. at \in Nat \ {0} /\ Deed = Steps[at]
  <2>1. setup \in Setups
    BY DEF TypeOK
  <2>2. N \in Nat
    BY <2>1, ScenarioFacts
  <2> QED
    BY <2>2 DEF TypeOK, Deed, Steps, N
<1>3. /\ AskedFor(at + 1) <=> Deed \in {"request", "requestValid"} \/ (AskedFor(at) /\ Deed # "propose")
      /\ RevokedAt(at + 1) <=> Deed \in {"revoke"} \/ (RevokedAt(at) /\ Deed # "issue")
  BY <1>2, SinceNext DEF AskedFor, RevokedAt
<1> QED
  BY <1>1, <1>3

\* An operation or a message appends to a queue.
Announced(q, t, s) ==
  q \o <<<<"states", t, s>>>> \o (IF s \in Asking THEN <<<<"actions", t, s>>>> ELSE <<>>)

LEMMA QueueAppend ==
  ASSUME NEW W, NEW q \in Seq(W), NEW t, NEW s, NEW r, r = Announced(q, t, s)
  PROVE  /\ LastState(r, t, s)
         /\ s \in Asking => ActionIn(r, t)
         /\ \A u : ActionIn(q, u) => ActionIn(r, u)
         /\ \A u, x : u # t /\ LastState(q, u, x) => LastState(r, u, x)
         /\ \A u : u # t /\ NoState(q, u) => NoState(r, u)
<1> DEFINE n == Len(q)
<1>1. n \in Nat
  OBVIOUS
<1>2. /\ Len(r) = n + (IF s \in Asking THEN 2 ELSE 1)
      /\ \A i \in 1..n : r[i] = q[i]
      /\ r[n+1] = <<"states", t, s>>
      /\ s \in Asking => r[n+2] = <<"actions", t, s>>
  <2>1. CASE s \in Asking
    <3>1. r = q \o <<<<"states", t, s>>>> \o <<<<"actions", t, s>>>>
      BY <2>1 DEF Announced
    <3> QED
      BY <2>1, <3>1
  <2>2. CASE s \notin Asking
    <3>1. r = q \o <<<<"states", t, s>>>> \o <<>>
      BY <2>2 DEF Announced
    <3> QED
      BY <2>2, <3>1
  <2> QED
    BY <2>1, <2>2
<1>3. ASSUME NEW i \in 1..Len(r)
      PROVE  i \in 1..n \/ i = n+1 \/ (i = n+2 /\ s \in Asking)
  BY <1>1, <1>2
<1>4. n+1 \in 1..Len(r) /\ (s \in Asking => n+2 \in 1..Len(r)) /\ \A i \in 1..n : i \in 1..Len(r)
  BY <1>1, <1>2
<1>5. \A u : ~OfState(<<"actions", t, s>>, u) /\ (u # t => ~OfState(<<"states", t, s>>, u))
  BY DEF OfState
<1> HIDE DEF n
<1>6. LastState(r, t, s)
  <2>1. \A j \in ((n+1)+1)..Len(r) : j = n+2 /\ s \in Asking
    BY <1>1, <1>2
  <2> QED
    BY <1>2, <1>4, <1>5, <2>1 DEF LastState
<1>7. s \in Asking => ActionIn(r, t)
  BY <1>2, <1>4 DEF ActionIn
<1>8. ASSUME NEW u, ActionIn(q, u) PROVE ActionIn(r, u)
  <2>1. PICK i \in 1..n : q[i][1] = "actions" /\ q[i][2] = u
    BY <1>8 DEF ActionIn, n
  <2> QED
    BY <1>2, <1>4, <2>1 DEF ActionIn
<1>9. ASSUME NEW u, NEW x, u # t, LastState(q, u, x) PROVE LastState(r, u, x)
  <2>1. PICK i \in 1..n : q[i] = <<"states", u, x>> /\ \A j \in (i+1)..n : ~OfState(q[j], u)
    BY <1>9 DEF LastState, n
  <2>2. ASSUME NEW j \in (i+1)..Len(r) PROVE ~OfState(r[j], u)
    <3>1. j \in 1..Len(r) /\ (j \in 1..n => j \in (i+1)..n)
      BY <1>1
    <3> QED
      BY <1>2, <1>3, <1>5, <1>9, <2>1, <3>1
  <2> QED
    BY <1>2, <1>4, <2>1, <2>2 DEF LastState
<1>10. ASSUME NEW u, u # t, NoState(q, u) PROVE NoState(r, u)
  <2>1. ASSUME NEW j \in 1..Len(r) PROVE ~OfState(r[j], u)
    BY <1>2, <1>3, <1>5, <1>10 DEF NoState, n
  <2> QED
    BY <2>1 DEF NoState
<1> QED
  BY <1>6, <1>7, <1>8, <1>9, <1>10

\* The next webhook of a queue is taken.
LEMMA QueueTail ==
  ASSUME NEW W, NEW q \in Seq(W), q # <<>>, NEW t
  PROVE  /\ \A s : LastState(q, t, s) =>
              LastState(Tail(q), t, s) \/ (Head(q) = <<"states", t, s>> /\ NoState(Tail(q), t))
         /\ NoState(q, t) => NoState(Tail(q), t) /\ ~OfState(Head(q), t)
         /\ ActionIn(q, t) => ActionIn(Tail(q), t) \/ (Head(q)[1] = "actions" /\ Head(q)[2] = t)
<1> DEFINE n == Len(q)
           r == Tail(q)
<1>1. /\ n \in Nat \ {0} /\ Len(r) = n - 1 /\ Head(q) = q[1]
      /\ \A i \in 1..(n-1) : r[i] = q[i+1]
  OBVIOUS
<1>2. \A i \in 1..(n-1) : i+1 \in 1..n /\ (i+1)-1 = i
  BY <1>1
<1>3. \A i \in 1..n : i = 1 \/ (i-1 \in 1..(n-1) /\ (i-1)+1 = i)
  BY <1>1
<1> HIDE DEF n, r
<1>4. ASSUME NEW s, LastState(q, t, s)
      PROVE  LastState(r, t, s) \/ (Head(q) = <<"states", t, s>> /\ NoState(r, t))
  <2>1. PICK i \in 1..n : q[i] = <<"states", t, s>> /\ \A j \in (i+1)..n : ~OfState(q[j], t)
    BY <1>4 DEF LastState, n
  <2>2. ASSUME NEW j \in 1..(n-1), j >= i PROVE ~OfState(r[j], t)
    <3>1. j+1 \in (i+1)..n
      BY <2>2, <1>1
    <3> QED
      BY <1>1, <2>1, <3>1
  <2>3. CASE i = 1
    <3>1. \A j \in 1..(n-1) : j >= i
      BY <2>3
    <3> QED
      BY <1>1, <2>1, <2>2, <2>3, <3>1 DEF NoState
  <2>4. CASE i # 1
    <3>1. i-1 \in 1..(n-1) /\ (i-1)+1 = i /\ \A j \in ((i-1)+1)..(n-1) : j \in 1..(n-1) /\ j >= i
      BY <1>1, <2>4
    <3>2. r[i-1] = <<"states", t, s>>
      BY <1>1, <2>1, <3>1
    <3>3. \A j \in ((i-1)+1)..(n-1) : ~OfState(r[j], t)
      BY <2>2, <3>1
    <3> QED
      BY <1>1, <3>1, <3>2, <3>3 DEF LastState
  <2> QED
    BY <2>3, <2>4
<1>5. ASSUME NoState(q, t) PROVE NoState(r, t) /\ ~OfState(Head(q), t)
  <2>1. \A i \in 1..n : ~OfState(q[i], t)
    BY <1>5 DEF NoState, n
  <2>2. 1 \in 1..n
    BY <1>1
  <2> QED
    BY <1>1, <1>2, <2>1, <2>2 DEF NoState
<1>6. ASSUME ActionIn(q, t) PROVE ActionIn(r, t) \/ (Head(q)[1] = "actions" /\ Head(q)[2] = t)
  <2>1. PICK i \in 1..n : q[i][1] = "actions" /\ q[i][2] = t
    BY <1>6 DEF ActionIn, n
  <2> QED
    BY <1>1, <1>3, <2>1 DEF ActionIn
<1> QED
  BY <1>4, <1>5, <1>6 DEF r

\* What a record that changes does to the webhooks under way.
LEMMA SetRecordQueue ==
  ASSUME TypeOK, NEW p \in Parties, NEW t \in Threads, NEW s \in States, SetRecord(p, t, s)
  PROVE  /\ Kind(p) = "afgo" => LastState(pending'[p], t, s)
         /\ Kind(p) = "afgo" /\ s \in Asking => ActionIn(pending'[p], t)
         /\ \A x \in Parties : \A u : ActionIn(pending[x], u) => ActionIn(pending'[x], u)
         /\ \A x \in Parties : \A u, y : <<x, u>> # <<p, t>> /\ LastState(pending[x], u, y) => LastState(pending'[x], u, y)
         /\ \A x \in Parties : \A u : <<x, u>> # <<p, t>> /\ NoState(pending[x], u) => NoState(pending'[x], u)
<1> DEFINE W == {"states", "actions"} \X Threads \X States
           r == Announced(pending[p], t, s)
<1>1. pending \in [Parties -> Seq(W)]
  BY DEF TypeOK
<1>2. pending' = IF Kind(p) = "afgo" THEN [pending EXCEPT ![p] = r] ELSE pending
  BY DEF SetRecord, Announced
<1>3. pending[p] \in Seq(W)
  BY <1>1
<1> HIDE DEF W
<1>4. /\ LastState(r, t, s)
      /\ s \in Asking => ActionIn(r, t)
      /\ \A u : ActionIn(pending[p], u) => ActionIn(r, u)
      /\ \A u, x : u # t /\ LastState(pending[p], u, x) => LastState(r, u, x)
      /\ \A u : u # t /\ NoState(pending[p], u) => NoState(r, u)
  BY <1>3, QueueAppend
<1>5. CASE Kind(p) = "afgo"
  <2>1. pending'[p] = r /\ \A x \in Parties : x # p => pending'[x] = pending[x]
    BY <1>1, <1>2, <1>5
  <2> QED
    BY <1>4, <2>1
<1>6. CASE Kind(p) # "afgo"
  BY <1>2, <1>6
<1> QED
  BY <1>5, <1>6

\* Filing a webhook in the store.
LEMMA PushFacts ==
  ASSUME NEW st \in Store!Stores, NEW u \in Threads, NEW type \in {"states", "actions"}, NEW x \in States,
         NEW t \in Threads, NEW s
  PROVE  LET new == Store!push_resource(st, u, type, x)
         IN /\ Store!CanPop(st, <<t, "actions">>) => Store!CanPop(new, <<t, "actions">>)
            /\ type = "actions" /\ u = t => Store!CanPop(new, <<t, "actions">>)
            /\ Filed(st, t, s) /\ ~(type = "states" /\ u = t) => Filed(new, t, s)
            /\ type = "states" /\ u = t => Filed(new, t, x)
<1> DEFINE new == Store!push_resource(st, u, type, x)
<1>1. /\ st.order \in Seq(Threads) /\ st.list \in [Store!Boxes -> Seq(States)] /\ st.has \subseteq Store!Boxes
  BY DEF Store!Stores
<1>2. <<u, type>> \in Store!Boxes /\ <<t, "states">> \in Store!Boxes /\ <<t, "actions">> \in Store!Boxes
  BY DEF Store!Boxes
<1>3. /\ new.order = IF Store!Inserted(st, u) THEN st.order ELSE Append(st.order, u)
      /\ new.has = st.has \cup {<<u, type>>}
      /\ new.list = [st.list EXCEPT ![<<u, type>>] = Append(@, x)]
  BY DEF Store!push_resource
<1>4. new.order # <<>>
  <2>1. CASE Store!Inserted(st, u)
    <3>1. st.order # <<>>
      BY <1>1, <2>1 DEF Store!Inserted
    <3> QED
      BY <1>3, <2>1, <3>1
  <2>2. CASE ~Store!Inserted(st, u)
    <3>1. Append(st.order, u) # <<>>
      BY <1>1
    <3> QED
      BY <1>3, <2>2, <3>1
  <2> QED
    BY <2>1, <2>2
<1>5. /\ new.list[<<u, type>>] = Append(st.list[<<u, type>>], x)
      /\ \A b \in Store!Boxes : b # <<u, type>> => new.list[b] = st.list[b]
      /\ st.list[<<u, type>>] \in Seq(States)
  BY <1>1, <1>2, <1>3
<1>6. /\ Append(st.list[<<u, type>>], x) # <<>>
      /\ Append(st.list[<<u, type>>], x)[Len(Append(st.list[<<u, type>>], x))] = x
  BY <1>5
<1> HIDE DEF new
<1>7. new.list[<<u, type>>] # <<>> /\ new.list[<<u, type>>][Len(new.list[<<u, type>>])] = x
  BY <1>5, <1>6
<1>8. <<u, type>> \in new.has /\ \A b \in st.has : b \in new.has
  BY <1>3
<1>9. Store!CanPop(st, <<t, "actions">>) => Store!CanPop(new, <<t, "actions">>)
  BY <1>2, <1>5, <1>7, <1>8 DEF Store!CanPop
<1>10. type = "actions" /\ u = t => Store!CanPop(new, <<t, "actions">>)
  BY <1>7, <1>8 DEF Store!CanPop
<1>11. ASSUME Filed(st, t, s), ~(type = "states" /\ u = t) PROVE Filed(new, t, s)
  <2>1. <<t, "states">> # <<u, type>>
    BY <1>11
  <2>2. new.list[<<t, "states">>] = st.list[<<t, "states">>]
    BY <1>2, <1>5, <2>1
  <2> QED
    BY <1>4, <1>8, <1>11, <2>2 DEF Filed, Store!CanPop, Store!PoppedTail
<1>12. type = "states" /\ u = t => Filed(new, t, x)
  BY <1>4, <1>7, <1>8 DEF Filed, Store!CanPop, Store!PoppedTail
<1> QED
  BY <1>9, <1>10, <1>11, <1>12 DEF new

\* What the two records say of each other and of what is under way.
LEMMA StageFacts ==
  ASSUME Staged, NEW t \in Threads
  PROVE  /\ Requested(t) /\ record["prover"][t] \in {"none", "proposal-sent"} => OnWire(t, "request")
         /\ record["verifier"][t] = "request-sent" /\ record["prover"][t] \in Sent => OnWire(t, "presentation")
         /\ record["verifier"][t] = "done" => record["prover"][t] = "done" \/ OnWire(t, "ack")
         /\ Proposed(t) /\ record["verifier"][t] = "none" => OnWire(t, "proposal")
         /\ Requested(t) => record["prover"][t] \in {"none", "proposal-sent", "request-received"} \cup Sent
         /\ record["prover"][t] = "request-received" => record["verifier"][t] = "request-sent"
         /\ record["prover"][t] = "done" => record["verifier"][t] = "done"
         /\ OnWire(t, "request") => record["verifier"][t] = "request-sent"
         /\ OnWire(t, "ack") => record["prover"][t] # "done"
         /\ record["prover"][t] = "proposal-sent" /\ ~Requested(t) => Proposed(t)
<1>1. Stage(t)
  BY DEF Staged
<1>2. \A m, v, p, x : OnWire(t, m) /\ AtStage(t, v, p, x) => m = x
  BY DEF OnWire, AtStage
<1>3. \A v, p, m : AtStage(t, v, p, m) =>
        record["verifier"][t] = v /\ record["prover"][t] = p /\ (m # "nothing" => OnWire(t, m))
  BY DEF AtStage
<1> QED
  BY <1>1, <1>2, <1>3 DEF Stage, Requested, Proposed, Sent

LEMMA WireUnderWay ==
  ASSUME NEW p, NEW t, NEW m, OnWire(t, m)
  PROVE  UnderWay(p, t)
BY DEF OnWire, UnderWay

LEMMA QueueUnderWay ==
  ASSUME TypeOK, NEW p \in Parties, NEW t, (\E s : LastState(pending[p], t, s)) \/ ActionIn(pending[p], t)
  PROVE  UnderWay(p, t)
<1>1. \E i \in 1..Len(pending[p]) : pending[p][i][2] = t
  BY DEF LastState, ActionIn
<1>2. DOMAIN pending[p] = 1..Len(pending[p])
  BY DEF TypeOK
<1> QED
  BY <1>1, <1>2 DEF UnderWay

\* An exchange nothing is said or done of stays where it is.
LEMMA SameStage ==
  ASSUME NEW t, Stage(t), record'["verifier"][t] = record["verifier"][t],
         record'["prover"][t] = record["prover"][t],
         \A n : n.thread = t => (n \in wire' <=> n \in wire)
  PROVE  Stage(t)'
<1>1. \A m : OnWire(t, m)' <=> OnWire(t, m)
  BY DEF OnWire
<1>2. \A v, p, m : AtStage(t, v, p, m) => AtStage(t, v, p, m)'
  BY <1>1 DEF AtStage
<1> QED
  BY <1>2 DEF Stage

LEMMA DeliverStaged == IInv /\ Agreed /\ Staged /\ Deliver => Staged'
<1> SUFFICES ASSUME IInv, Agreed, Staged, Deliver, NEW t \in Threads PROVE Stage(t)'
  BY DEF Staged
<1>0. TypeOK /\ Stage(t)
  BY DEF IInv, Staged
<1>1. PICK m \in wire, a \in Arrivals :
        /\ a.message = m.message
        /\ a.from = record[m.to][m.thread]
        /\ wire' = wire \ {m}
        /\ SetRecord(m.to, m.thread, a.to)
  BY DEF Deliver
<1>2. m.to \in Parties /\ m.thread \in Threads /\ a.to \in States
      /\ wire \subseteq [to : Parties, thread : Threads, message : Messages]
  BY <1>0, ArrivalFacts DEF TypeOK
<1>3. /\ record'[m.to][m.thread] = a.to
      /\ \A q \in Parties, u \in Threads : <<q, u>> # <<m.to, m.thread>> => record'[q][u] = record[q][u]
  BY <1>0, <1>1, <1>2, SetRecordTypes
<1>4. CASE m.thread # t
  <2>1. record'["verifier"][t] = record["verifier"][t] /\ record'["prover"][t] = record["prover"][t]
    BY <1>3, <1>4 DEF Parties
  <2>2. \A n : n.thread = t => (n \in wire' <=> n \in wire)
    BY <1>1, <1>4
  <2> QED
    BY <1>0, <2>1, <2>2, SameStage
<1>5. CASE m.thread = t
  <2>1. /\ \A n \in wire : n.to = IF n.message \in {"request", "ack"} THEN "prover" ELSE "verifier"
        /\ \A v, p, x : AtStage(t, v, p, x) =>
             /\ record["verifier"][t] = v /\ record["prover"][t] = p /\ m.message = x
             /\ \A n \in wire : n.thread = t => n.message = m.message
    BY <1>5 DEF Agreed, AtStage
  \* The message was the only one of the exchange.
  <2>2. ASSUME NEW n \in wire', n.thread = t PROVE FALSE
    <3>1. n \in wire /\ n # m
      BY <1>1
    <3>2. n.message = m.message
      BY <1>0, <2>1, <2>2, <3>1 DEF Stage
    <3>3. n.to = m.to
      BY <2>1, <3>1, <3>2
    <3>4. n = [to |-> n.to, thread |-> n.thread, message |-> n.message]
          /\ m = [to |-> m.to, thread |-> m.thread, message |-> m.message]
      BY <1>2, <3>1
    <3> QED
      BY <1>5, <2>2, <3>1, <3>2, <3>3, <3>4
  <2>3. \A v, p : record'["verifier"][t] = v /\ record'["prover"][t] = p => AtStage(t, v, p, "nothing")'
    BY <2>2 DEF AtStage
  <2>4. CASE m.to = "verifier"
    <3>1. record["verifier"][t] = a.from /\ record'["verifier"][t] = a.to
          /\ record'["prover"][t] = record["prover"][t] /\ m.message \notin {"request", "ack"}
          /\ m.message = a.message
      BY <1>1, <1>3, <1>5, <2>1, <2>4 DEF Parties
    <3>2. \/ /\ record["verifier"][t] = "none" /\ record["prover"][t] = "proposal-sent"
             /\ record'["verifier"][t] = "proposal-received"
          \/ /\ record["verifier"][t] = "request-sent" /\ record["prover"][t] = "presentation-sent"
             /\ record'["verifier"][t] = "presentation-received"
      <4>1. \/ AtStage(t, "none", "proposal-sent", "proposal")
            \/ AtStage(t, "request-sent", "presentation-sent", "presentation")
        BY <1>0, <2>1, <3>1, ArrivalFacts DEF Stage, Messages
      <4> QED
        BY <2>1, <3>1, <4>1, ArrivalFacts
    <3> QED
      BY <2>3, <3>1, <3>2 DEF Stage
  <2>5. CASE m.to = "prover"
    <3>1. record["prover"][t] = a.from /\ record'["prover"][t] = a.to
          /\ record'["verifier"][t] = record["verifier"][t] /\ m.message \in {"request", "ack"}
          /\ m.message = a.message
      BY <1>1, <1>3, <1>5, <2>1, <2>5 DEF Parties
    <3>2. \/ /\ record["verifier"][t] = "request-sent" /\ record'["prover"][t] = "request-received"
          \/ /\ record["verifier"][t] = "done" /\ record'["prover"][t] = "done"
      <4>1. \/ AtStage(t, "request-sent", "none", "request")
            \/ AtStage(t, "request-sent", "proposal-sent", "request")
            \/ AtStage(t, "done", "presentation-sent", "ack")
        BY <1>0, <2>1, <3>1 DEF Stage
      <4> QED
        BY <2>1, <3>1, <4>1, ArrivalFacts
    <3> QED
      BY <2>3, <3>1, <3>2 DEF Stage
  <2> QED
    BY <1>2, <2>4, <2>5 DEF Parties
<1> QED
  BY <1>4, <1>5

LEMMA PostStaged == IInv /\ Staged /\ Post => Staged'
<1> SUFFICES ASSUME IInv, Staged, Post, NEW u \in Threads PROVE Stage(u)'
  BY DEF Staged
<1> DEFINE t == Subject
           p == At(call.op)
<1>0. Stage(u)
  BY DEF Staged
<1>1. PICK m \in Moves :
        /\ m.op = call.op /\ record[p][t] = m.from /\ record'[p][t] = m.to
        /\ (call.thread = NoThread) = (m.from = "none")
        /\ wire' = wire \cup {[to |-> Other(p), thread |-> t, message |-> m.message]}
  BY PostRecords
<1>2. /\ t \in Threads
      /\ \A q \in Parties, x \in Threads : <<q, x>> # <<p, t>> => record'[q][x] = record[q][x]
      /\ call.thread = NoThread => Fresh(t)
  BY PostRecords
<1>3. \/ /\ p = "prover" /\ m.message = "proposal" /\ m.from = "none" /\ m.to = "proposal-sent"
      \/ /\ p = "verifier" /\ m.message = "request"
         /\ m.from \in {"none", "proposal-received"} /\ m.to = "request-sent"
      \/ /\ p = "prover" /\ m.message = "presentation"
         /\ m.from = "request-received" /\ m.to = "presentation-sent"
      \/ /\ p = "verifier" /\ m.message = "ack"
         /\ m.from = "presentation-received" /\ m.to = "done"
  BY <1>1, MoveFacts DEF Operations, At
<1> HIDE DEF t, p
<1>4. CASE t # u
  <2>1. record'["verifier"][u] = record["verifier"][u] /\ record'["prover"][u] = record["prover"][u]
    BY <1>2, <1>4 DEF Parties
  <2>2. \A n : n.thread = u => (n \in wire' <=> n \in wire)
    BY <1>1, <1>4
  <2> QED
    BY <1>0, <2>1, <2>2, SameStage
<1>5. CASE t = u
  <2>1. \A v, q, x : AtStage(u, v, q, x) =>
          /\ record["verifier"][u] = v /\ record["prover"][u] = q
          /\ x = "nothing" \/ OnWire(u, x)
    BY DEF AtStage
  <2>2. m.from = "none" => record["verifier"][u] = "none" /\ record["prover"][u] = "none"
    BY <1>1, <1>2, <1>5 DEF Fresh, Parties
  <2>3. AtStage(u, record["verifier"][u], record["prover"][u], "nothing")
    BY <1>0, <1>1, <1>3, <1>5, <2>1, <2>2 DEF Stage
  <2>4. \A n \in wire : n.thread # u
    <3>1. ASSUME NEW n \in wire, n.thread = u PROVE FALSE
      <4>1. n.message = "nothing"
        BY <2>3, <3>1 DEF AtStage
      <4>2. n.message \in Messages
        BY DEF IInv, TypeOK
      <4> QED
        BY <4>1, <4>2 DEF Messages
    <3> QED
      BY <3>1
  <2>5. (\E n \in wire' : n.thread = u /\ n.message = m.message)
        /\ \A n \in wire' : n.thread = u => n.message = m.message
    <3>1. PICK n : n = [to |-> Other(p), thread |-> t, message |-> m.message]
      OBVIOUS
    <3>2. n.thread = u /\ n.message = m.message /\ wire' = wire \cup {n}
      BY <1>1, <1>5, <3>1
    <3> QED
      BY <2>4, <3>2
  <2>6. \A v, q, x : record'["verifier"][u] = v /\ record'["prover"][u] = q /\ x = m.message => AtStage(u, v, q, x)'
    BY <2>5 DEF AtStage, OnWire
  <2>7. CASE p = "prover"
    <3>1. record'["prover"][u] = m.to /\ record'["verifier"][u] = record["verifier"][u]
          /\ record["prover"][u] = m.from
      BY <1>1, <1>2, <1>5, <2>7 DEF Parties
    <3>2. record["prover"][u] = "request-received" => record["verifier"][u] = "request-sent"
      BY <1>0, <2>1 DEF Stage
    <3> QED
      BY <1>3, <2>2, <2>6, <2>7, <3>1, <3>2 DEF Stage
  <2>8. CASE p = "verifier"
    <3>1. record'["verifier"][u] = m.to /\ record'["prover"][u] = record["prover"][u]
          /\ record["verifier"][u] = m.from
      BY <1>1, <1>2, <1>5, <2>8 DEF Parties
    <3>2. /\ record["verifier"][u] = "proposal-received" => record["prover"][u] = "proposal-sent"
          /\ record["verifier"][u] = "presentation-received" => record["prover"][u] = "presentation-sent"
      BY <1>0, <2>1 DEF Stage
    <3> QED
      BY <1>3, <2>2, <2>6, <2>8, <3>1, <3>2 DEF Stage
  <2> QED
    BY <1>3, <2>7, <2>8
<1> QED
  BY <1>4, <1>5

LEMMA SetRecordTold ==
  ASSUME TypeOK, Told, setup' = setup, NEW p \in Parties, NEW t \in Threads, NEW s \in States, SetRecord(p, t, s)
  PROVE  Told'
<1>1. /\ record'[p][t] = s
      /\ \A q \in Parties, u \in Threads : <<q, u>> # <<p, t>> => record'[q][u] = record[q][u]
  BY SetRecordTypes
<1>2. /\ notified \in [Parties -> SUBSET (Threads \X States)]
      /\ notified' = IF Kind(p) = "credo" THEN [notified EXCEPT ![p] = @ \cup {<<t, s>>}] ELSE notified
  BY DEF TypeOK, SetRecord
<1>3. Kind(p) = "credo" => <<t, s>> \in notified'[p]
  BY <1>2
<1>4. \A q \in Parties : notified[q] \subseteq notified'[q]
  BY <1>2
<1> QED
  BY <1>1, <1>3, <1>4 DEF Told, Kind

LEMMA DeliverT == IInv /\ InOrder /\ InTime /\ Deliver => InTime'
<1> SUFFICES ASSUME IInv, InOrder, InTime, Deliver PROVE InTime'
  OBVIOUS
<1>0. /\ TypeOK /\ Placed /\ Agreed /\ setup \in Setups
      /\ Staged /\ Told /\ RevokedNow /\ Stands /\ Coming /\ FailsOnlyWhenLate
  BY DEF IInv, InOrder, InTime, TypeOK
<1>1. PICK m \in wire, a \in Arrivals :
        /\ a.message = m.message
        /\ a.from = record[m.to][m.thread]
        /\ SetRecord(m.to, m.thread, a.to)
  BY DEF Deliver
<1>2. /\ m.to \in Parties /\ m.thread \in Threads /\ a.to \in States
      /\ m.to = IF m.message \in {"request", "ack"} THEN "prover" ELSE "verifier"
  BY <1>0, ArrivalFacts DEF TypeOK, Agreed
<1>3. /\ record'[m.to][m.thread] = a.to
      /\ \A q \in Parties, u \in Threads : <<q, u>> # <<m.to, m.thread>> => record'[q][u] = record[q][u]
  BY <1>0, <1>1, <1>2, SetRecordTypes
<1>4. /\ UNCHANGED <<setup, issued, revoked, store, stack, orphans, context, runVars, call, late>>
      /\ UNCHANGED <<thread, begun, at, verdict>>
  BY DEF Deliver, context, runVars
<1>5. /\ m.to = "verifier" =>
           \/ record["verifier"][m.thread] = "none" /\ a.to = "proposal-received"
           \/ record["verifier"][m.thread] = "request-sent" /\ a.to = "presentation-received"
      /\ m.to = "prover" =>
           \/ /\ OnWire(m.thread, "request") /\ record["prover"][m.thread] \in {"none", "proposal-sent"}
              /\ a.to = "request-received"
           \/ record["prover"][m.thread] = "presentation-sent" /\ a.to = "done"
  BY <1>1, <1>2, ArrivalFacts DEF Messages, OnWire, Parties
<1>6. OnWire(m.thread, "request") => record["verifier"][m.thread] = "request-sent"
  BY <1>0, <1>2, StageFacts
<1>7. ASSUME NEW u
      PROVE  /\ Requested(u) => Requested(u)'
             /\ u \in Threads /\ Proposed(u) => Proposed(u)'
             /\ u \in Threads /\ record["prover"][u] \in Sent => record'["prover"][u] \in Sent
  <2>1. CASE u = m.thread /\ m.to = "verifier"
    <3>1. record'["prover"][u] = record["prover"][u] /\ record'["verifier"][u] = a.to
      BY <1>2, <1>3, <2>1 DEF Parties
    <3> QED
      BY <1>5, <2>1, <3>1 DEF Requested, Proposed
  <2>2. CASE u = m.thread /\ m.to = "prover"
    <3>1. record'["verifier"][u] = record["verifier"][u] /\ record'["prover"][u] = a.to
      BY <1>2, <1>3, <2>2 DEF Parties
    <3> QED
      BY <1>5, <1>6, <2>2, <3>1 DEF Requested, Proposed, Sent
  <2>3. CASE u # m.thread
    <3>1. u \in Threads => record'["verifier"][u] = record["verifier"][u] /\ record'["prover"][u] = record["prover"][u]
      BY <1>3, <2>3 DEF Parties
    <3> QED
      BY <3>1 DEF Requested, Proposed
  <2> QED
    BY <1>2, <2>1, <2>2, <2>3 DEF Parties
<1>8. Staged' /\ Told'
  BY <1>0, <1>1, <1>2, <1>4, DeliverStaged, SetRecordTold
<1>9. /\ AskedFor(at)' <=> AskedFor(at)
      /\ RevokedAt(at)' <=> RevokedAt(at)
  BY <1>0, <1>4, StepsBehind
<1>10. RevokedNow'
  BY <1>0, <1>4, <1>9 DEF RevokedNow
<1>11. Stands'
  <2>1. UNCHANGED <<Version, Presented>>
    BY <1>4 DEF Version, Presented, N, Steps
  <2>2. \A op : Answering(op)' <=> Answering(op)
    BY <1>4 DEF Answering
  <2>3. thread # NoThread => thread \in Threads
    BY <1>0 DEF TypeOK
  <2>4. Presented => thread \in Threads
    BY DEF InOrder, Means
  <2>5. call.phase = "state" => call.thread \in Threads
    BY <1>0 DEF Placed
  <2>6. Requested(thread) => Requested(thread)'
    BY <1>4, <1>7 DEF Requested
  <2>7. Requested(call.thread) => Requested(call.thread)'
    BY <1>4, <1>7 DEF Requested
  <2>8. thread \in Threads /\ Proposed(thread) => Proposed(thread)'
    BY <1>4, <1>7 DEF Proposed
  <2>9. call.thread \in Threads /\ Proposed(call.thread) => Proposed(call.thread)'
    BY <1>4, <1>7 DEF Proposed
  <2>10. verdict = "running" /\ Presented => record'["prover"][thread] \in Sent
    BY <1>0, <1>4, <1>7, <2>4 DEF Stands
  <2> QED
    BY <1>0, <1>4, <1>9, <2>1, <2>2, <2>3, <2>5, <2>6, <2>7, <2>8, <2>9, <2>10 DEF Stands, Answering
<1>12. /\ Kind(m.to) = "afgo" => LastState(pending'[m.to], m.thread, a.to)
       /\ Kind(m.to) = "afgo" /\ a.to \in Asking => ActionIn(pending'[m.to], m.thread)
       /\ \A x \in Parties : \A u : ActionIn(pending[x], u) => ActionIn(pending'[x], u)
       /\ \A x \in Parties : \A u, y : <<x, u>> # <<m.to, m.thread>> /\ LastState(pending[x], u, y)
                                     => LastState(pending'[x], u, y)
       /\ \A x \in Parties : \A u : <<x, u>> # <<m.to, m.thread>> /\ NoState(pending[x], u) => NoState(pending'[x], u)
  BY <1>0, <1>1, <1>2, SetRecordQueue
<1>13. StateComing'
  <2> SUFFICES ASSUME call.phase = "state"
               PROVE  \/ LastState(pending'[At(call.op)], call.thread, record'[At(call.op)][call.thread])
                      \/ /\ NoState(pending'[At(call.op)], call.thread)
                         /\ Filed(store[At(call.op)], call.thread, record'[At(call.op)][call.thread])
    BY <1>4 DEF StateComing, Filed
  <2>1. At(call.op) \in Parties /\ call.thread \in Threads /\ Kind(At(call.op)) = "afgo"
    BY <1>0, PartyOf DEF Placed
  <2>2. CASE <<At(call.op), call.thread>> = <<m.to, m.thread>>
    <3>1. At(call.op) = m.to /\ call.thread = m.thread
      BY <2>2
    <3> QED
      BY <1>3, <1>12, <2>1, <3>1
  <2>3. CASE <<At(call.op), call.thread>> # <<m.to, m.thread>>
    BY <1>0, <1>3, <1>12, <2>1, <2>3 DEF Coming, StateComing
  <2> QED
    BY <2>2, <2>3
<1>14. ActionComing'
  <2> SUFFICES ASSUME Kind("prover") = "afgo", NEW t \in Threads, record'["prover"][t] = "request-received",
                      ~Presents(t)
               PROVE  ActionIn(pending'["prover"], t) \/ Store!CanPop(store["prover"], <<t, "actions">>)
    BY <1>4 DEF ActionComing, Kind, Presents
  <2>1. CASE m.to = "prover" /\ m.thread = t
    BY <1>3, <1>12, <2>1 DEF Asking, Parties
  <2>2. CASE ~(m.to = "prover" /\ m.thread = t)
    <3>1. record["prover"][t] = "request-received"
      BY <1>3, <2>2 DEF Parties
    <3> QED
      BY <1>0, <1>12, <3>1 DEF Coming, ActionComing, Parties
  <2> QED
    BY <2>1, <2>2
<1>15. DoneComing'
  <2> SUFFICES ASSUME Kind("prover") = "afgo", ~late, verdict = "running", at <= N, NEW t \in begun,
                      record'["prover"][t] = "done"
               PROVE  \/ LastState(pending'["prover"], t, "done")
                      \/ NoState(pending'["prover"], t) /\ OnStack(t, "done")
    BY <1>4 DEF DoneComing, Kind, OnStack, N, Steps
  <2>0. t \in Threads
    BY <1>0 DEF TypeOK
  <2>1. CASE m.to = "prover" /\ m.thread = t
    BY <1>3, <1>12, <2>0, <2>1 DEF Parties
  <2>2. CASE ~(m.to = "prover" /\ m.thread = t)
    <3>1. record["prover"][t] = "done"
      BY <1>3, <2>0, <2>2 DEF Parties
    <3>2. "prover" \in Parties /\ <<"prover", t>> # <<m.to, m.thread>>
      BY <2>2 DEF Parties
    <3> QED
      BY <1>0, <1>12, <3>1, <3>2 DEF Coming, DoneComing
  <2> QED
    BY <2>1, <2>2
<1>16. Orphaned'
  <2>1. \A t \in Threads : record["prover"][t] # "none" => record'["prover"][t] # "none"
    BY <1>3, <1>5 DEF Parties
  <2> QED
    BY <1>0, <1>4, <2>1 DEF Coming, Orphaned
<1>17. FailsOnlyWhenLate'
  BY <1>0, <1>4 DEF FailsOnlyWhenLate
<1> QED
  BY <1>8, <1>10, <1>11, <1>13, <1>14, <1>15, <1>16, <1>17 DEF InTime, Coming

\* A step that leaves the exchanges and the queues as they are.
LEMMA SameAgents ==
  ASSUME InTime, UNCHANGED <<record, wire, notified, setup>>
  PROVE  Staged' /\ Told'
<1>1. Staged'
  <2> SUFFICES ASSUME NEW t \in Threads PROVE Stage(t)'
    BY DEF Staged
  <2>1. Stage(t)
    BY DEF InTime, Staged
  <2> QED
    BY <2>1, SameStage
<1> QED
  BY <1>1 DEF InTime, Told, Kind

\* A step of the webhooks only.
LEMMA WebhookT == IInv /\ InOrder /\ InTime /\ (Webhook \/ UNCHANGED vars) => InTime'
<1> SUFFICES ASSUME IInv, InOrder, InTime, Webhook \/ UNCHANGED vars PROVE InTime'
  OBVIOUS
<1>0. /\ TypeOK /\ Staged /\ Told /\ RevokedNow /\ Stands /\ Coming /\ FailsOnlyWhenLate
  BY DEF IInv, InTime
<1>1. UNCHANGED <<setup, record, wire, issued, revoked, pending, store, stack, orphans, thread, begun, at,
                  verdict, call, late>>
  BY DEF Webhook, vars, agentVars, afgoVars, context, runVars
<1>2. Staged'
  <2> SUFFICES ASSUME NEW t \in Threads PROVE Stage(t)'
    BY DEF Staged
  <2>1. Stage(t)
    BY <1>0 DEF Staged
  <2> QED
    BY <1>1, <2>1, SameStage
<1>3. Told'
  <2>1. \A p \in Parties : notified[p] \subseteq notified'[p]
    <3>1. CASE Webhook
      BY <1>0, <3>1 DEF Webhook, TypeOK
    <3>2. CASE UNCHANGED vars
      BY <3>2 DEF vars
    <3> QED
      BY <3>1, <3>2
  <2> QED
    BY <1>0, <1>1, <2>1 DEF Told, Kind
<1>4. /\ AskedFor(at)' <=> AskedFor(at)
      /\ RevokedAt(at)' <=> RevokedAt(at)
  BY <1>0, <1>1, StepsBehind
<1>5. RevokedNow' /\ FailsOnlyWhenLate'
  BY <1>0, <1>1, <1>4 DEF RevokedNow, FailsOnlyWhenLate
<1>6. Stands'
  BY <1>0, <1>1, <1>4 DEF Stands, Requested, Proposed, Answering, Version, Presented, N, Steps
<1>7. Coming'
  BY <1>0, <1>1 DEF Coming, StateComing, ActionComing, DoneComing, Orphaned, Kind, Presents, OnStack, N, Steps
<1> QED
  BY <1>2, <1>3, <1>5, <1>6, <1>7 DEF InTime

\* AFGO files the next webhook, where what has been coming is then found.
LEMMA AfgoWebhookT == IInv /\ InOrder /\ InTime /\ AfgoWebhook => InTime'
<1> SUFFICES ASSUME IInv, InOrder, InTime, AfgoWebhook PROVE InTime'
  OBVIOUS
<1>0. /\ TypeOK /\ Placed /\ Staged /\ Told /\ RevokedNow /\ Stands /\ Coming /\ FailsOnlyWhenLate
  BY DEF IInv, InTime
<1>1. UNCHANGED <<setup, record, wire, notified, issued, revoked, thread, begun, at, verdict, call, late>>
  BY DEF AfgoWebhook, agentVars, context, runVars
<1>2. PICK p \in Parties :
        /\ pending[p] # <<>>
        /\ LET w == Head(pending[p]) IN
             /\ store' = [store EXCEPT ![p] = Store!push_resource(@, w[2], w[1], w[3])]
             /\ IF p = "prover" /\ w[1] = "states" THEN Push(w[2], w[3]) ELSE UNCHANGED <<stack, orphans>>
        /\ pending' = [pending EXCEPT ![p] = Tail(@)]
  BY DEF AfgoWebhook
<1> DEFINE W == {"states", "actions"} \X Threads \X States
           w == Head(pending[p])
<1>3. /\ pending \in [Parties -> Seq(W)] /\ store \in [Parties -> Store!Stores]
      /\ stack \in [Threads -> Seq(States)] /\ orphans \in [Threads -> Nat] /\ begun \subseteq Threads
      /\ record \in [Parties -> [Threads -> States]]
  BY <1>0 DEF TypeOK
<1>4. pending[p] \in Seq(W) /\ pending[p] # <<>>
  BY <1>2, <1>3
<1>5. w \in W
  BY <1>4
<1>6. w[1] \in {"states", "actions"} /\ w[2] \in Threads /\ w[3] \in States /\ w = <<w[1], w[2], w[3]>>
  BY <1>5
<1>7. /\ pending'[p] = Tail(pending[p]) /\ \A q \in Parties : q # p => pending'[q] = pending[q]
      /\ store'[p] = Store!push_resource(store[p], w[2], w[1], w[3])
      /\ \A q \in Parties : q # p => store'[q] = store[q]
  BY <1>2, <1>3
\* Of every thread, what the queue and the store now hold.
<1>8. ASSUME NEW t \in Threads
      PROVE  /\ \A s : LastState(pending[p], t, s) => LastState(pending'[p], t, s)
                         \/ (w = <<"states", t, s>> /\ NoState(pending'[p], t))
             /\ NoState(pending[p], t) => NoState(pending'[p], t) /\ ~(w[1] = "states" /\ w[2] = t)
             /\ ActionIn(pending[p], t) => ActionIn(pending'[p], t) \/ (w[1] = "actions" /\ w[2] = t)
  <2> HIDE DEF W
  <2> QED
    BY <1>4, <1>7, QueueTail DEF OfState
<1>9. ASSUME NEW t \in Threads
      PROVE  /\ Store!CanPop(store[p], <<t, "actions">>) => Store!CanPop(store'[p], <<t, "actions">>)
             /\ w[1] = "actions" /\ w[2] = t => Store!CanPop(store'[p], <<t, "actions">>)
             /\ \A s : Filed(store[p], t, s) /\ ~(w[1] = "states" /\ w[2] = t) => Filed(store'[p], t, s)
             /\ w[1] = "states" /\ w[2] = t => Filed(store'[p], t, w[3])
  <2>1. store[p] \in Store!Stores
    BY <1>3
  <2> HIDE DEF w
  <2> QED
    BY <1>6, <1>7, <2>1, PushFacts
<1>10. ASSUME NEW t \in Threads
       PROVE  /\ orphans'[t] > 0 => orphans[t] > 0
              /\ ~(w[1] = "states" /\ w[2] = t) => stack'[t] = stack[t]
              /\ \A s : p = "prover" /\ w = <<"states", t, s>> /\ ~(orphans[t] > 0) =>
                   stack'[t] # <<>> /\ Last(stack'[t]) = s
  <2>1. CASE p = "prover" /\ w[1] = "states"
    <3>1. Push(w[2], w[3])
      BY <1>2, <2>1
    <3>2. CASE orphans[w[2]] > 0
      <4>1. orphans' = [orphans EXCEPT ![w[2]] = @ - 1] /\ stack' = stack
        BY <3>1, <3>2 DEF Push
      <4>2. orphans'[t] = (IF t = w[2] THEN orphans[t] - 1 ELSE orphans[t]) /\ orphans[t] \in Nat
        BY <1>3, <4>1
      <4>3. orphans'[t] > 0 => orphans[t] > 0
        BY <4>2
      <4>4. \A s : w = <<"states", t, s>> => orphans[t] > 0
        BY <1>6, <3>2
      <4> QED
        BY <4>1, <4>3, <4>4
    <3>3. CASE ~(orphans[w[2]] > 0)
      <4>1. stack' = [stack EXCEPT ![w[2]] = Append(@, w[3])] /\ orphans' = orphans
        BY <3>1, <3>3 DEF Push
      <4>2. stack[w[2]] \in Seq(States)
        BY <1>3, <1>6
      <4>3. Append(stack[w[2]], w[3]) # <<>> /\ Last(Append(stack[w[2]], w[3])) = w[3]
        BY <1>6, <4>2, AppendFacts
      <4>4. stack'[t] = IF t = w[2] THEN Append(stack[w[2]], w[3]) ELSE stack[t]
        BY <1>3, <4>1
      <4>5. \A s : w = <<"states", t, s>> => t = w[2] /\ s = w[3]
        BY <1>6
      <4> HIDE DEF w
      <4> QED
        BY <2>1, <4>1, <4>3, <4>4, <4>5
    <3> QED
      BY <3>2, <3>3
  <2>2. CASE ~(p = "prover" /\ w[1] = "states")
    <3>1. stack' = stack /\ orphans' = orphans
      BY <1>2, <2>2
    <3>2. \A s : w = <<"states", t, s>> => w[1] = "states"
      BY <1>6
    <3> QED
      BY <2>2, <3>1, <3>2
  <2> QED
    BY <2>1, <2>2
<1>11. \A t, s : w = <<"states", t, s>> => w[1] = "states" /\ w[2] = t /\ w[3] = s
  BY <1>6
<1> HIDE DEF W, w
<1>12. Staged' /\ Told'
  BY <1>0, <1>1, SameAgents
<1>13. /\ AskedFor(at)' <=> AskedFor(at)
       /\ RevokedAt(at)' <=> RevokedAt(at)
  BY <1>0, <1>1, StepsBehind
<1>14. RevokedNow' /\ FailsOnlyWhenLate'
  BY <1>0, <1>1, <1>13 DEF RevokedNow, FailsOnlyWhenLate
<1>15. Stands'
  BY <1>0, <1>1, <1>13 DEF Stands, Requested, Proposed, Answering, Version, Presented, N, Steps
<1>16. StateComing'
  <2> DEFINE q == At(call.op)
             t == call.thread
             s == record[q][t]
  <2> SUFFICES ASSUME call.phase = "state"
               PROVE  LastState(pending'[q], t, s) \/ (NoState(pending'[q], t) /\ Filed(store'[q], t, s))
    BY <1>1 DEF StateComing, Filed
  <2>1. q \in Parties /\ t \in Threads
    BY <1>0, PartyOf DEF Placed
  <2>2. LastState(pending[q], t, s) \/ (NoState(pending[q], t) /\ Filed(store[q], t, s))
    BY <1>0 DEF Coming, StateComing
  <2> HIDE DEF q, t, s
  <2>3. CASE q = p
    <3>1. CASE LastState(pending[q], t, s)
      <4>1. LastState(pending'[p], t, s) \/ (w = <<"states", t, s>> /\ NoState(pending'[p], t))
        BY <1>8, <2>1, <2>3, <3>1
      <4>2. w = <<"states", t, s>> => Filed(store'[p], t, s)
        BY <1>9, <1>11, <2>1
      <4> QED
        BY <2>3, <4>1, <4>2
    <3>2. CASE NoState(pending[q], t) /\ Filed(store[q], t, s)
      <4>1. NoState(pending'[p], t) /\ ~(w[1] = "states" /\ w[2] = t)
        BY <1>8, <2>1, <2>3, <3>2
      <4>2. Filed(store'[p], t, s)
        BY <1>9, <2>1, <2>3, <3>2, <4>1
      <4> QED
        BY <2>3, <4>1, <4>2
    <3> QED
      BY <2>2, <3>1, <3>2
  <2>4. CASE q # p
    BY <1>7, <2>1, <2>2, <2>4
  <2> QED
    BY <2>3, <2>4
<1>17. ActionComing'
  <2> SUFFICES ASSUME Kind("prover") = "afgo", NEW t \in Threads, record["prover"][t] = "request-received",
                      ~Presents(t)
               PROVE  ActionIn(pending'["prover"], t) \/ Store!CanPop(store'["prover"], <<t, "actions">>)
    BY <1>1 DEF ActionComing, Kind, Presents
  <2>1. ActionIn(pending["prover"], t) \/ Store!CanPop(store["prover"], <<t, "actions">>)
    BY <1>0 DEF Coming, ActionComing
  <2>2. CASE p = "prover"
    BY <1>8, <1>9, <2>1, <2>2
  <2>3. CASE p # "prover"
    BY <1>7, <2>1, <2>3 DEF Parties
  <2> QED
    BY <2>2, <2>3
<1>18. DoneComing'
  <2> SUFFICES ASSUME Kind("prover") = "afgo", ~late, verdict = "running", at <= N, NEW t \in begun,
                      record["prover"][t] = "done"
               PROVE  \/ LastState(pending'["prover"], t, "done")
                      \/ NoState(pending'["prover"], t) /\ stack'[t] # <<>> /\ Last(stack'[t]) = "done"
    BY <1>1 DEF DoneComing, Kind, OnStack, N, Steps
  <2>0. t \in Threads
    BY <1>3
  <2>1. \/ LastState(pending["prover"], t, "done")
        \/ NoState(pending["prover"], t) /\ stack[t] # <<>> /\ Last(stack[t]) = "done"
    BY <1>0 DEF Coming, DoneComing, OnStack
  <2>2. ~(orphans[t] > 0)
    BY <1>0, <2>0 DEF Coming, Orphaned
  <2>3. CASE p = "prover"
    BY <1>8, <1>10, <1>11, <2>0, <2>1, <2>2, <2>3
  <2>4. CASE p # "prover"
    <3>1. stack' = stack /\ pending'["prover"] = pending["prover"]
      BY <1>2, <1>7, <2>4 DEF Parties
    <3> QED
      BY <2>1, <3>1
  <2> QED
    BY <2>3, <2>4
<1>19. Orphaned'
  BY <1>0, <1>1, <1>10 DEF Coming, Orphaned
<1> QED
  BY <1>12, <1>14, <1>15, <1>16, <1>17, <1>18, <1>19 DEF InTime, Coming

\* A step of the scenario looks at what stands, or waits for what is coming.
LEMMA StepT == IInv /\ InOrder /\ InTime /\ Step => InTime'
<1> SUFFICES ASSUME IInv, InOrder, InTime, Step PROVE InTime'
  OBVIOUS
<1>0. /\ TypeOK /\ setup \in Setups /\ Staged /\ Told /\ RevokedNow /\ Stands /\ Coming /\ FailsOnlyWhenLate
  BY DEF IInv, InTime, TypeOK
<1>1. /\ UNCHANGED <<setup, record, wire, notified, issued, revoked, pending, store, stack, orphans,
                     thread, begun, at, verdict, late>>
      /\ call = Idle /\ at <= N /\ Deed \in DOMAIN OperationOf
      /\ call'.op = OperationOf[Deed] /\ call'.phase = Begins(OperationOf[Deed], Named(Deed))
  BY DEF Step, Running, agentVars, afgoVars, runVars, N, Steps
<1>2. call'.phase # "state" /\ call.phase # "state" /\ call.op # "send-presentation"
  BY <1>1 DEF Begins, Idle
<1>3. Staged' /\ Told'
  BY <1>0, <1>1, SameAgents
<1>4. /\ AskedFor(at)' <=> AskedFor(at)
      /\ RevokedAt(at)' <=> RevokedAt(at)
  BY <1>0, <1>1, StepsBehind
<1>5. RevokedNow' /\ FailsOnlyWhenLate'
  BY <1>0, <1>1, <1>4 DEF RevokedNow, FailsOnlyWhenLate
<1>6. Stands'
  <2>1. call'.op = "get" => AskedFor(at)
    <3>1. ASSUME call'.op = "get" PROVE AskedFor(at)
      <4>1. Deed \in {"verified", "unverified"}
        BY <1>1, <3>1, DeedFacts
      <4>2. N \in Nat /\ N >= 3 /\ at \in 1..N
        BY <1>0, <1>1, ScenarioFacts DEF TypeOK, N, Steps
      <4>3. at = N
        BY <1>0, <4>1, <4>2, PlaceOfDeed
      <4>4. at \in (N-2)..(N+1)
        BY <4>2, <4>3
      <4> QED
        BY <1>0, <4>4, AskedAtLast
    <3> QED
      BY <3>1
  <2>2. Presented' => Presented
    BY <1>1, <1>2 DEF Presented, N, Steps
  <2>3. \A op : ~Answering(op)' /\ ~Answering(op)
    BY <1>2 DEF Answering
  <2>4. Version' = Version
    BY <1>1 DEF Version
  <2> QED
    BY <1>0, <1>1, <1>4, <2>1, <2>2, <2>3, <2>4 DEF Stands, Requested, Proposed, Answering
<1>7. StateComing'
  BY <1>2 DEF StateComing
<1>8. ActionComing'
  BY <1>0, <1>1, <1>2 DEF Coming, ActionComing, Presents, Kind
<1>9. DoneComing' /\ Orphaned'
  BY <1>0, <1>1 DEF Coming, DoneComing, Orphaned, Kind, OnStack, N, Steps
<1> QED
  BY <1>3, <1>5, <1>6, <1>7, <1>8, <1>9 DEF InTime, Coming

\* A credential is issued or revoked.
LEMMA CredentialStepsT == IInv /\ InOrder /\ InTime /\ (Issue \/ Revoke) => InTime'
<1> SUFFICES ASSUME IInv, InOrder, InTime, Issue \/ Revoke PROVE InTime'
  OBVIOUS
<1>0. /\ TypeOK /\ setup \in Setups /\ Staged /\ Told /\ RevokedNow /\ Stands /\ Coming /\ FailsOnlyWhenLate
  BY DEF IInv, InTime, TypeOK
<1>1. /\ UNCHANGED <<setup, record, wire, notified, pending, store, stack, orphans,
                     thread, begun, verdict, call, late>>
      /\ call = Idle /\ at <= N /\ at' = at + 1 /\ verdict = "running"
      /\ \/ Deed = "issue" /\ issued' = issued + 1 /\ revoked' = revoked
         \/ Deed = "revoke" /\ issued' = issued /\ revoked' = revoked \cup {issued}
  BY DEF Issue, Revoke, Running, agentVars, afgoVars, context, N, Steps
<1>2. N \in Nat /\ N >= 3 /\ at \in 1..N /\ issued \in Nat /\ revoked \subseteq 1..issued
  BY <1>0, <1>1, ScenarioFacts DEF TypeOK, N, Steps
<1>3. at \in 1..(N-3)
  BY <1>0, <1>1, <1>2, PlaceOfDeed
<1>4. Staged' /\ Told'
  BY <1>0, <1>1, SameAgents
<1>5. /\ AskedFor(at)' <=> AskedFor(at)
      /\ RevokedAt(at)' <=> Deed = "revoke" \/ (RevokedAt(at) /\ Deed # "issue")
  BY <1>0, <1>1, StepsBehind
<1>6. RevokedNow'
  <2>1. issued + 1 \notin revoked
    BY <1>2
  <2> QED
    BY <1>1, <1>5, <2>1 DEF RevokedNow
<1>7. FailsOnlyWhenLate'
  BY <1>1 DEF FailsOnlyWhenLate
<1>8. Stands'
  <2>1. ~Presented'
    <3>1. at' <= N-2 /\ N' = N /\ call'.phase = "none"
      BY <1>1, <1>2, <1>3 DEF N, Steps, Idle
    <3> QED
      BY <1>2, <1>3, <1>1, <3>1 DEF Presented
  <2>2. \A op : ~Answering(op)' /\ ~Answering(op)
    BY <1>1 DEF Answering, Idle
  <2>3. Version' = Version /\ call.op # "get"
    BY <1>1 DEF Version, Idle
  <2> QED
    BY <1>0, <1>1, <1>5, <2>1, <2>2, <2>3 DEF Stands, Requested, Proposed, Answering
<1>9. StateComing' /\ ActionComing'
  BY <1>0, <1>1 DEF Coming, StateComing, ActionComing, Presents, Kind, Idle
<1>10. DoneComing' /\ Orphaned'
  BY <1>0, <1>1, <1>2 DEF Coming, DoneComing, Orphaned, Kind, OnStack, N, Steps
<1> QED
  BY <1>4, <1>6, <1>7, <1>8, <1>9, <1>10 DEF InTime, Coming

\* A scenario passes, or is tried again.
LEMMA QuietT == IInv /\ InOrder /\ InTime /\ (Succeed \/ Retry) => InTime'
<1> SUFFICES ASSUME IInv, InOrder, InTime, Succeed \/ Retry PROVE InTime'
  OBVIOUS
<1>0. /\ TypeOK /\ setup \in Setups /\ Staged /\ Told /\ RevokedNow /\ Stands /\ Coming /\ FailsOnlyWhenLate
      /\ Own
  BY DEF IInv, InTime, TypeOK
<1>1. /\ UNCHANGED <<setup, record, wire, notified, revoked, pending, store, stack, orphans, call>>
      /\ call = Idle
      /\ \/ verdict' = "passed" /\ UNCHANGED <<begun, late>>
         \/ /\ verdict' = "running" /\ at' = 1 /\ issued' = issued + 1 /\ thread' = NoThread
            /\ begun' = {} /\ late' = FALSE
  BY <1>0 DEF Succeed, Retry, agentVars, afgoVars, context, Own
<1>2. N \in Nat /\ N >= 3 /\ issued \in Nat /\ revoked \subseteq 1..issued
  BY <1>0, ScenarioFacts DEF TypeOK, N, Steps
<1>3. Staged' /\ Told'
  BY <1>0, <1>1, SameAgents
<1>4. at' = 1 => ~AskedFor(at)' /\ ~RevokedAt(at)'
  BY <1>1 DEF AskedFor, RevokedAt, Since, Steps
<1>5. RevokedNow'
  <2>1. issued + 1 \notin revoked
    BY <1>2
  <2> QED
    BY <1>1, <1>4, <2>1 DEF RevokedNow
<1>6. FailsOnlyWhenLate'
  BY <1>1 DEF FailsOnlyWhenLate
<1>7. Stands'
  <2>1. at' = 1 => ~Presented'
    <3>1. N' = N /\ call'.phase = "none" /\ ~(1 > N-2)
      BY <1>1, <1>2 DEF N, Steps, Idle
    <3> QED
      BY <3>1 DEF Presented
  <2>2. \A op : ~Answering(op)'
    BY <1>1 DEF Answering, Idle
  <2>3. call'.op # "get"
    BY <1>1 DEF Idle
  <2> QED
    BY <1>1, <1>4, <2>1, <2>2, <2>3 DEF Stands, Answering
<1>8. StateComing' /\ ActionComing'
  BY <1>0, <1>1 DEF Coming, StateComing, ActionComing, Presents, Kind, Idle
<1>9. DoneComing' /\ Orphaned'
  BY <1>0, <1>1 DEF Coming, DoneComing, Orphaned
<1> QED
  BY <1>3, <1>5, <1>6, <1>7, <1>8, <1>9 DEF InTime, Coming

\* Only what follows a request waits or is looked into, and a thread is named to be answered only.
Waits ==
  /\ call.phase \in {"wait", "swap"} => call.op \in Presenting
  /\ call.phase = "check" => call.op = "verify-presentation"
  /\ call.phase = "post" /\ call.op = "send-proposal" => call.thread = NoThread
  /\ call.phase = "post" /\ call.op = "send-request" /\ call.thread # NoThread => Version = 3
  /\ Version = 3 /\ call.op = "send-request" /\ thread # NoThread => call.thread = thread

LEMMA WaitsS == IInv /\ Waits /\ [Next]_vars => Waits'
<1> SUFFICES ASSUME IInv, Waits, [Next]_vars PROVE Waits'
  OBVIOUS
<1>1. setup \in Setups /\ TypeOK /\ setup' = setup
  BY DEF IInv, TypeOK, Next, Harness, Served, Deliver, Webhook, AfgoWebhook, Step, Issue, Revoke, Succeed, Retry,
         Look, LookFails, Proceed, GiveUp, Post, Refused, StatePopped, NoStatePopped, LookPops, LookTimesOut,
         Seen, Looked, FailScenario, Fails, vars
<1>2. CASE call' = call /\ (thread' = thread \/ call = Idle)
  BY <1>1, <1>2 DEF Waits, Version, Idle
<1>3. CASE call' = Idle \/ (call'.phase = "look" /\ call'.op = "get")
  BY <1>3 DEF Waits, Idle
<1>4. CASE Step
  <2>1. PICK op, t : /\ op = OperationOf[Deed] /\ t = Named(Deed) /\ Deed \in DOMAIN OperationOf
                     /\ call' = [op |-> op, thread |-> t, phase |-> Begins(op, t)]
    BY <1>4 DEF Step
  <2>2. op \in Operations /\ Version \in 1..3
    BY <1>1, <2>1, DeedFacts, ScenarioFacts
  <2>3. op = "send-proposal" => t = NoThread
    BY <2>1, DeedFacts DEF Named
  <2>4. op = "send-request" /\ t # NoThread => Version = 3
    <3>1. op = "send-request" => Deed \in {"request", "requestValid"}
      BY <2>1, DeedFacts
    <3>2. Version < 3 \/ Version = 3
      BY <2>2
    <3> QED
      BY <2>1, <3>1, <3>2 DEF Named
  <2>5. Version = 3 => Kind(At(op)) = "afgo"
    BY <1>1, KindFacts, PartyOf
  <2>6. Begins(op, t) \in {"wait", "swap", "check"} => Begins(op, t) # "check" /\ op \in Presenting
    BY <2>2, <2>3, <2>4, <2>5 DEF Begins, Operations, Presenting
  <2>7. call'.op = op /\ call'.thread = t /\ call'.phase = Begins(op, t) /\ Version' = Version
        /\ thread' = thread
    BY <1>1, <1>4, <2>1 DEF Version, Step
  <2>8. Version = 3 /\ op = "send-request" => t = thread
    <3>1. op = "send-request" => Deed \in {"request", "requestValid"} /\ Deed # "propose"
      BY <2>1, DeedFacts
    <3>2. Version = 3 => ~(Version < 3)
      OBVIOUS
    <3> QED
      BY <2>1, <3>1, <3>2 DEF Named
  <2> QED
    BY <2>3, <2>4, <2>6, <2>7, <2>8 DEF Waits
<1>5. CASE Proceed
  <2>1. call' = [call EXCEPT !.phase = Then] /\ call.phase \in {"wait", "swap", "check", "action"}
    BY <1>5 DEF Proceed
  <2>2. /\ call'.op = call.op /\ call'.phase \in {"check", "post"}
        /\ call'.phase = "check" => call.op = "verify-presentation"
    BY <1>1, <2>1 DEF Then, TypeOK
  <2>3. call.op \in Presenting
    BY <2>1 DEF Waits, IInv, Placed, Presenting
  <2> QED
    BY <2>2, <2>3 DEF Waits, Presenting
<1>6. CASE Post
  <2>1. CASE Kind(At(call.op)) = "afgo"
    <3>1. call' = [call EXCEPT !.phase = "state", !.thread = Subject] /\ thread' = thread
      BY <1>6, <2>1 DEF Post
    <3>2. call'.op = call.op /\ call'.thread = Subject /\ call'.phase = "state"
      BY <1>1, <3>1 DEF TypeOK
    <3>3. call.thread # NoThread => Subject = call.thread
      BY DEF Subject
    <3> QED
      BY <1>1, <3>1, <3>2, <3>3 DEF Waits, Version
  <2>2. CASE Kind(At(call.op)) # "afgo"
    <3>1. Answered(Subject)
      BY <1>6, <2>2 DEF Post
    <3> QED
      BY <1>3, <3>1 DEF Answered
  <2> QED
    BY <2>1, <2>2
<1>7. CASE StatePopped
  <2>1. Answered(call.thread) \/ \E l : Fails(l)
    BY <1>7 DEF StatePopped
  <2>2. call' = Idle \/ (call'.phase = "look" /\ call'.op = "get")
    BY <2>1 DEF Answered, Fails
  <2> QED
    BY <1>3, <2>2
<1>8. CASE Look \/ LookPops \/ LookTimesOut
  <2>1. Seen \/ \E l : Looked(l)
    BY <1>8 DEF Look, LookPops, LookTimesOut
  <2>2. call' = Idle \/ (call' = call /\ thread' = thread)
    BY <2>1 DEF Seen, Looked, FailScenario, Fails, context
  <2> QED
    BY <1>2, <1>3, <2>2
<1>9. CASE LookFails \/ GiveUp \/ Refused \/ NoStatePopped
  <2>1. call' = Idle
    BY <1>9 DEF LookFails, GiveUp, Refused, NoStatePopped, FailScenario, Fails
  <2> QED
    BY <1>3, <2>1
<1>10. CASE Deliver \/ Webhook \/ AfgoWebhook \/ Issue \/ Revoke \/ Succeed \/ Retry \/ UNCHANGED vars
  <2>1. call' = call /\ (thread' = thread \/ call = Idle)
    BY <1>10 DEF Deliver, Webhook, AfgoWebhook, Issue, Revoke, Succeed, Retry, vars, context, IInv, Own
  <2> QED
    BY <1>2, <2>1
<1> QED
  BY <1>4, <1>5, <1>6, <1>7, <1>8, <1>9, <1>10 DEF Next, Harness, Served

\* A failure leaves nothing to stand or to come, but what is late.
LEMMA FailsT ==
  ASSUME IInv, InTime, NEW l, Fails(l), l \/ late,
         UNCHANGED <<record, wire, notified, pending>>,
         \A t \in Threads : Kind("prover") = "afgo" /\ record["prover"][t] = "request-received" => ~Presents(t),
         \A t \in Threads : Store!CanPop(store["prover"], <<t, "actions">>) =>
                              Store!CanPop(store'["prover"], <<t, "actions">>),
         Orphaned'
  PROVE  InTime'
<1>1. verdict' = "failed" /\ late' /\ call' = Idle /\ setup' = setup
  BY DEF Fails
<1>2. Staged' /\ Told'
  BY <1>1, SameAgents
<1>3. RevokedNow' /\ Stands' /\ DoneComing' /\ FailsOnlyWhenLate'
  BY <1>1 DEF RevokedNow, Stands, DoneComing, FailsOnlyWhenLate
<1>4. StateComing' /\ ActionComing'
  BY <1>1 DEF InTime, Coming, StateComing, ActionComing, Idle, Presents, Kind
<1> QED
  BY <1>2, <1>3, <1>4 DEF InTime, Coming

LEMMA OrphansLater ==
  ASSUME InTime, UNCHANGED <<orphans, record, begun>>, late => late'
  PROVE  Orphaned'
BY DEF InTime, Coming, Orphaned

\* An operation that answers something finds it, or the message that brings it is under way.
LEMMA Behind ==
  ASSUME IInv, InOrder, InTime, call.op \in Presenting, call.phase # "state"
  PROVE  /\ call.thread \in Threads /\ call.thread = thread
         /\ record[At(call.op)][call.thread] = Awaited(call.op) \/ UnderWay(At(call.op), call.thread)
<1> DEFINE t == call.thread
<1>0. TypeOK /\ setup \in Setups /\ Staged /\ Stands /\ Turn
  BY DEF IInv, InOrder, InTime, TypeOK
<1>1. /\ verdict = "running" /\ at \in 1..N /\ N \in Nat /\ N >= 3
      /\ call.op = "send-presentation" <=> at = N-2
      /\ call.op = "verify-presentation" <=> at = N-1
  <2>1. call.op # "idle"
    BY DEF Presenting
  <2> QED
    BY <1>0, <2>1, CallFacts, ScenarioFacts
<1>2. t = thread
  BY DEF IInv, Placed
<1>3. AskedFor(at)
  <2>1. at \in (N-2)..(N+1)
    BY <1>1 DEF Presenting
  <2> QED
    BY <1>0, <2>1, AskedAtLast
<1>4. Requested(t)
  BY <1>0, <1>1, <1>2, <1>3 DEF Stands
<1>5. t \in Threads /\ t # NoThread
  BY <1>4, PresentProofAssumption DEF Requested
<1>6. CASE call.op = "send-presentation"
  <2>1. ~Presented
    BY <1>1, <1>6 DEF Presented
  <2>2. record["prover"][t] \notin Sent
    BY <1>0, <1>1, <1>2, <1>5, <2>1 DEF Turn
  <2>3. record["prover"][t] = "request-received" \/ OnWire(t, "request")
    BY <1>0, <1>4, <1>5, <2>2, StageFacts
  <2> QED
    BY <1>2, <1>5, <1>6, <2>3, WireUnderWay DEF At, Awaited
<1>7. CASE call.op = "verify-presentation"
  <2>1. Presented /\ ~Accepted
    BY <1>1, <1>7 DEF Presented, Accepted
  <2>2. record["prover"][t] \in Sent /\ record["verifier"][t] # "done"
    BY <1>0, <1>1, <1>2, <1>5, <2>1 DEF Turn, Stands
  <2>3. record["verifier"][t] = "presentation-received" \/ OnWire(t, "presentation")
    BY <1>0, <1>4, <1>5, <2>2, StageFacts DEF Requested
  <2> QED
    BY <1>2, <1>5, <1>7, <2>3, WireUnderWay DEF At, Awaited
<1> QED
  BY <1>6, <1>7 DEF Presenting

\* A wait that ends in vain.
LEMMA GiveUpT == IInv /\ InOrder /\ Waits /\ InTime /\ GiveUp => InTime'
<1> SUFFICES ASSUME IInv, InOrder, Waits, InTime, GiveUp PROVE InTime'
  OBVIOUS
<1> DEFINE t == call.thread
           p == At(call.op)
<1>0. TypeOK /\ Placed /\ Told /\ Coming
  BY DEF IInv, InTime
<1>1. /\ call.phase \in {"wait", "swap", "check", "action"} /\ ~WaitOver
      /\ Fails(UnderWay(p, t))
      /\ UNCHANGED <<record, wire, notified, pending, store, orphans>>
  BY DEF GiveUp, FailScenario, agentVars, afgoVars
<1>2. call.op \in Presenting
  BY <1>0, <1>1 DEF Waits, Placed, Presenting
<1>3. t \in Threads /\ p \in Parties /\ (record[p][t] = Awaited(call.op) \/ UnderWay(p, t))
  BY <1>1, <1>2, Behind, PartyOf
<1>4. UnderWay(p, t)
  <2> SUFFICES ASSUME record[p][t] = Awaited(call.op) PROVE UnderWay(p, t)
    BY <1>3
  <2>0. record[p][t] # "none" /\ (call.op = "verify-presentation" => record[p][t] = "presentation-received")
        /\ (call.op = "send-presentation" => record[p][t] = "request-received" /\ p = "prover")
    BY DEF Awaited, At
  <2>1. CASE call.phase = "wait"
    <3>1. <<t, Awaited(call.op)>> \in notified[p]
      BY <1>0, <1>3, <2>0, <2>1 DEF Placed, Told
    <3> QED
      BY <1>1, <2>1, <3>1 DEF WaitOver
  <2>2. CASE call.phase = "swap"
    <3>1. \A s \in States : <<t, s>> \notin notified[p]
      BY <1>1, <2>2 DEF WaitOver
    <3> QED
      BY <1>0, <2>0, <2>2, <3>1 DEF Placed, UnderWay, Unheard
  <2>3. CASE call.phase = "check"
    BY <1>1, <2>0, <2>3 DEF Waits, WaitOver
  <2>4. CASE call.phase = "action"
    <3>1. Kind("prover") = "afgo" /\ p = "prover" /\ record["prover"][t] = "request-received"
          /\ ~Presents(t)
      BY <1>0, <2>0, <2>4 DEF Placed, Presents
    <3>2. ~Store!CanPop(store["prover"], <<t, "actions">>)
      BY <1>1, <2>4, <3>1 DEF WaitOver
    <3>3. ActionIn(pending["prover"], t)
      BY <1>0, <1>3, <3>1, <3>2 DEF Coming, ActionComing
    <3> QED
      BY <1>0, <3>1, <3>3, QueueUnderWay DEF Parties
  <2> QED
    BY <1>1, <2>1, <2>2, <2>3, <2>4
<1>5. UNCHANGED <<orphans, record, begun>> /\ (late => late')
  BY <1>1 DEF Fails, context
<1>6. Orphaned'
  BY <1>5, OrphansLater
<1>7. \A u : ~Presents(u)
  BY <1>1 DEF Presents
<1> HIDE DEF t, p
<1> QED
  BY <1>1, <1>4, <1>6, <1>7, FailsT

\* An operation the agent is not ready for.
LEMMA RefusedT == IInv /\ InOrder /\ Waits /\ InTime /\ Refused => InTime'
<1> SUFFICES ASSUME IInv, InOrder, Waits, InTime, Refused PROVE InTime'
  OBVIOUS
<1> DEFINE t == call.thread
           p == At(call.op)
<1>0. TypeOK /\ Placed /\ Staged /\ Stands /\ setup \in Setups
  BY DEF IInv, InTime, TypeOK
<1>1. /\ call.phase = "post" /\ Spare /\ \A m \in Moves : ~Fits(m, Subject)
      /\ Fails(UnderWay(p, t))
      /\ UNCHANGED <<record, wire, notified, pending, store, orphans>>
  BY DEF Refused, FailScenario, agentVars, afgoVars
<1>2. /\ Subject \in Threads /\ p \in Parties
      /\ t = NoThread => Fresh(Subject)
      /\ t # NoThread => Subject = t
  BY <1>0, <1>1, SpareThread, PartyOf
<1>3. /\ call.op \in Operations \ {"get"} /\ verdict = "running" /\ at \in 1..N
      /\ call.op = "send-request" => Deed \in {"request", "requestValid"} /\ Deed = Steps[at]
  <2>1. call.phase # "none" /\ call.phase # "look"
    BY <1>1
  <2> QED
    BY <1>0, <2>1, CallFacts DEF Placed, Deed, Steps
\* A move that fits would have been made.
<1>4. ASSUME NEW m \in Moves, m.op = call.op, m.from = record[p][Subject]
      PROVE  (t = NoThread) # (m.from = "none")
  BY <1>1, <1>4 DEF Fits
<1>5. /\ [op |-> "send-proposal", from |-> "none", to |-> "proposal-sent", message |-> "proposal"] \in Moves
      /\ [op |-> "send-request", from |-> "none", to |-> "request-sent", message |-> "request"] \in Moves
      /\ [op |-> "send-request", from |-> "proposal-received", to |-> "request-sent", message |-> "request"] \in Moves
      /\ [op |-> "send-presentation", from |-> "request-received", to |-> "presentation-sent",
          message |-> "presentation"] \in Moves
      /\ [op |-> "verify-presentation", from |-> "presentation-received", to |-> "done", message |-> "ack"] \in Moves
  BY DEF Moves
<1> DEFINE Goal == UnderWay(p, t) /\ \A u \in Threads : record["prover"][u] = "request-received" => ~Presents(u)
<1>6. ASSUME call.op \in Presenting PROVE Goal
  <2>1. t \in Threads /\ (record[p][t] = Awaited(call.op) \/ UnderWay(p, t))
    BY <1>1, <1>6, Behind
  <2>2. t # NoThread /\ Subject = t
    BY <1>2, <2>1, PresentProofAssumption
  <2>3. record[p][t] # Awaited(call.op)
    BY <1>4, <1>5, <1>6, <2>2 DEF Presenting, Awaited
  <2>4. \A u \in Threads : record["prover"][u] = "request-received" => ~Presents(u)
    BY <2>3 DEF Presents, Awaited, At
  <2> QED
    BY <2>1, <2>3, <2>4
<1>7. ASSUME call.op \in {"send-proposal", "send-request"} PROVE Goal
  <2>1. CASE t = NoThread
    <3>1. record[p][Subject] = "none"
      BY <1>2, <2>1 DEF Fresh
    <3>2. FALSE
      BY <1>4, <1>5, <1>7, <2>1, <3>1
    <3> QED
      BY <3>2
  <2>2. CASE t # NoThread
    <3>1. call.op = "send-request" /\ Version = 3 /\ t = thread /\ Subject = t /\ p = "verifier"
      BY <1>0, <1>1, <1>2, <1>7, <2>2 DEF Waits, Placed, At
    <3>2. ~AskedFor(at)
      BY <1>0, <1>3, <3>1, RequestFacts
    <3>3. Proposed(t)
      BY <1>0, <1>1, <1>3, <2>2, <3>1, <3>2 DEF Stands, Answering
    <3>4. record["verifier"][t] # "proposal-received"
      BY <1>4, <1>5, <2>2, <3>1
    <3>5. OnWire(t, "proposal")
      BY <1>0, <1>2, <3>1, <3>3, <3>4, StageFacts DEF Proposed
    <3> QED
      BY <3>1, <3>5, WireUnderWay DEF Presents
  <2> QED
    BY <2>1, <2>2
<1>8. Goal
  <2>1. call.op \in Presenting \/ call.op \in {"send-proposal", "send-request"}
    BY <1>3 DEF Operations, Presenting
  <2> QED
    BY <1>6, <1>7, <2>1
<1>9. UNCHANGED <<orphans, record, begun>> /\ (late => late')
  BY <1>1 DEF Fails, context
<1>10. Orphaned'
  BY <1>9, OrphansLater
<1> HIDE DEF t, p
<1> QED
  BY <1>1, <1>8, <1>10, FailsT

\* What an answer leaves standing.
LEMMA AnswerT ==
  ASSUME IInv, InOrder, Waits, InTime, NEW t \in Threads, Answered(t), call.phase \in {"post", "state"},
         UNCHANGED <<setup, issued, revoked, verdict>>,
         call.op = "send-request" => record'["verifier"][t] \in {"request-sent", "presentation-received", "done"},
         call.op = "send-proposal" => /\ record'["prover"][t] = "proposal-sent"
                                      /\ record'["verifier"][t] \in {"none", "proposal-received"},
         call.op = "send-presentation" => record'["prover"][t] \in Sent,
         call.op \in Presenting \/ (call.op = "send-request" /\ thread # NoThread /\ Version = 3) => t = thread,
         \A u \in Threads : /\ Requested(u) => record'["verifier"][u] \in {"request-sent", "presentation-received", "done"}
                            /\ record["prover"][u] \in Sent => record'["prover"][u] \in Sent
  PROVE  RevokedNow' /\ Stands'
<1>0. /\ TypeOK /\ setup \in Setups /\ RevokedNow /\ Stands /\ Placed
  BY DEF IInv, InTime, TypeOK
<1>1. /\ verdict = "running" /\ at \in 1..N /\ N \in Nat /\ N >= 3
      /\ call.op \in Operations \ {"get"} /\ call # Idle
      /\ call.op = "send-proposal" => Deed = "propose" /\ at < N-2
      /\ call.op = "send-request" => Deed \in {"request", "requestValid"} /\ at < N-2
      /\ call.op = "send-presentation" <=> at = N-2
      /\ call.op = "verify-presentation" <=> at = N-1
  BY <1>0, CallFacts, ScenarioFacts DEF Placed
<1>2. /\ Deed = Steps[at]
      /\ Deed \in {"present", "presentRevoked"} <=> at = N-2
      /\ Deed = "acknowledge" <=> at = N-1
  BY <1>0, <1>1, PlaceOfDeed
<1>3. Deed \notin {"issue", "revoke"}
  BY <1>1, <1>2 DEF Operations
<1>4. call.op \in Presenting => AskedFor(at) /\ Requested(thread) /\ Deed # "propose"
  <2>1. call.op \in Presenting => at \in (N-2)..(N+1)
    BY <1>1 DEF Presenting
  <2>2. call.op \in Presenting => AskedFor(at)
    BY <1>0, <2>1, AskedAtLast
  <2> QED
    BY <1>0, <1>1, <1>2, <2>2 DEF Stands, Presenting
<1>5. Version' = Version /\ N' = N
  BY DEF Version, N, Steps
<1>6. CASE call.op = "send-request" /\ Version = 1
  <2>1. /\ call' = [op |-> "get", thread |-> t, phase |-> "look"] /\ at' = at /\ thread' = t
    BY <1>6 DEF Answered
  <2>2. RevokedNow'
    BY <1>0, <2>1, StepsBehind DEF RevokedNow
  <2>3. ~Presented' /\ \A op : ~Answering(op)'
    <3>1. ~(at > N-2) /\ at # N-2
      BY <1>1, <1>6
    <3> QED
      BY <1>5, <2>1, <3>1 DEF Presented, Answering
  <2> QED
    BY <1>5, <1>6, <2>1, <2>2, <2>3 DEF Stands, Requested, Answering
<1>7. CASE ~(call.op = "send-request" /\ Version = 1)
  <2>1. /\ call' = Idle /\ at' = at + 1
        /\ thread' = IF call.op = "send-proposal" THEN t
                     ELSE IF call.op = "send-request" /\ (Version = 1 \/ thread = NoThread) THEN t
                     ELSE thread
    BY <1>7 DEF Answered
  <2>2. /\ AskedFor(at)' <=> Deed \in {"request", "requestValid"} \/ (AskedFor(at) /\ Deed # "propose")
        /\ RevokedAt(at)' <=> Deed = "revoke" \/ (RevokedAt(at) /\ Deed # "issue")
    BY <1>0, <2>1, StepsBehind
  <2>3. RevokedNow'
    BY <1>0, <1>3, <2>2 DEF RevokedNow
  <2>4. \A op : ~Answering(op)'
    BY <2>1 DEF Answering, Idle
  <2>5. call'.op # "get"
    BY <2>1 DEF Idle
  <2>6. AskedFor(at)' \/ (Version = 2 /\ thread' # NoThread) => Requested(thread)'
    <3>1. CASE call.op = "send-proposal"
      <4>1. Version # 2
        BY <1>0, <1>1, <1>2, <3>1, RequestFacts
      <4> QED
        BY <1>1, <2>2, <3>1, <4>1
    <3>2. CASE call.op = "send-request"
      <4>1. Version \in {2, 3}
        BY <1>0, <1>7, <3>2, ScenarioFacts
      <4>2. thread' = t \/ (thread' = thread /\ thread # NoThread)
        BY <2>1, <3>2
      <4>3. CASE thread' = t
        BY <3>2, <4>3 DEF Requested
      <4>4. CASE thread' = thread /\ thread # NoThread /\ Version = 2
        BY <1>0, <1>1, <4>4 DEF Stands, Requested
      <4>5. CASE thread' = thread /\ thread # NoThread /\ Version = 3
        BY <3>2, <4>5 DEF Requested
      <4> QED
        BY <4>1, <4>2, <4>3, <4>4, <4>5
    <3>3. CASE call.op \in Presenting
      BY <1>4, <2>1, <3>3 DEF Presenting, Requested
    <3> QED
      BY <1>1, <3>1, <3>2, <3>3 DEF Operations, Presenting
  <2>7. Version = 3 /\ thread' # NoThread /\ ~AskedFor(at)' => Proposed(thread)'
    <3>1. CASE call.op = "send-proposal"
      BY <2>1, <3>1 DEF Proposed
    <3>2. CASE call.op # "send-proposal"
      BY <1>1, <1>4, <2>2, <3>2 DEF Operations, Presenting
    <3> QED
      BY <3>1, <3>2
  <2>8. Presented' => record'["prover"][thread'] \in Sent
    <3>1. Presented' => at = N-2 \/ at = N-1
      <4>1. at' = at + 1 /\ N' = N /\ call'.phase = "none"
        BY <1>5, <2>1 DEF Idle
      <4>2. Presented' => at + 1 > N - 2
        BY <4>1 DEF Presented
      <4>3. Presented' => at >= N - 2
        BY <1>1, <4>2
      <4>4. at = N => call.op = "get"
        BY <1>1, CallFacts
      <4> QED
        BY <1>1, <4>3, <4>4
    <3>2. CASE at = N-2
      BY <1>1, <2>1, <3>2 DEF Presenting
    <3>3. CASE at = N-1
      <4>1. Presented
        BY <1>1, <3>3 DEF Presented
      <4>2. thread \in Threads /\ record["prover"][thread] \in Sent
        BY <1>0, <1>1, <1>4, <3>3, <4>1 DEF Stands, Requested, Presenting
      <4> QED
        BY <1>1, <2>1, <3>3, <4>2
    <3> QED
      BY <3>1, <3>2, <3>3
  <2> QED
    BY <1>5, <2>3, <2>4, <2>5, <2>6, <2>7, <2>8 DEF Stands
<1> QED
  BY <1>6, <1>7

\* Taking a message out of one list leaves the others as they are.
LEMMA PopFacts ==
  ASSUME NEW st \in Store!Stores, NEW b, NEW c, c # b, Store!CanPop(st, b), Store!CanPop(st, c)
  PROVE  Store!CanPop(Store!pop_resource(st, b), c) /\ Store!CanPop(Store!pop_resource_latest(st, b), c)
<1>1. st.list \in [Store!Boxes -> Seq(States)] /\ st.has \subseteq Store!Boxes /\ b \in Store!Boxes
      /\ c \in Store!Boxes /\ st.list[c] # <<>>
  BY DEF Store!Stores, Store!CanPop
<1>2. /\ Store!pop_resource(st, b).list[c] = st.list[c] /\ Store!pop_resource(st, b).has = st.has
      /\ Store!pop_resource_latest(st, b).list[c] = st.list[c] /\ Store!pop_resource_latest(st, b).has = st.has
  BY <1>1 DEF Store!pop_resource, Store!pop_resource_latest, Store!Stores
<1> QED
  BY <1>2 DEF Store!CanPop

\* What AFGO's answer takes is its own state, or the webhook that hides it is no fault of it.
LEMMA Answerable ==
  ASSUME IInv, InTime, call.phase = "state"
  PROVE  LET p == At(call.op)
             b == Store!LatestBox(store[p], "states")
         IN \/ Stray \/ UnderWay(p, call.thread)
            \/ /\ ~Store!LatestRaises(store[p]) /\ Store!CanPop(store[p], b)
               /\ Store!PoppedTail(store[p], b) = record[p][call.thread]
<1> DEFINE p == At(call.op)
           t == call.thread
<1>1. TypeOK /\ p \in Parties
  BY PartyOf DEF IInv
<1>2. CASE LastState(pending[p], t, record[p][t])
  BY <1>1, <1>2, QueueUnderWay
<1>3. CASE Filed(store[p], t, record[p][t])
  <2>1. ~Store!LatestRaises(store[p])
    BY <1>3 DEF Filed, Store!LatestRaises
  <2>2. ~Stray => Store!LatestBox(store[p], "states") = <<t, "states">>
    BY <2>1 DEF Stray, Store!LatestBox
  <2> QED
    BY <1>3, <2>1, <2>2 DEF Filed
<1> QED
  BY <1>2, <1>3 DEF InTime, Coming, StateComing

LEMMA NoStatePoppedT == IInv /\ InOrder /\ InTime /\ NoStatePopped => InTime'
<1> SUFFICES ASSUME IInv, InOrder, InTime, NoStatePopped PROVE InTime'
  OBVIOUS
<1>1. /\ call.phase = "state" /\ Fails(Stray \/ UnderWay(At(call.op), call.thread))
      /\ Store!LatestRaises(store[At(call.op)])
         \/ ~Store!CanPop(store[At(call.op)], Store!LatestBox(store[At(call.op)], "states"))
      /\ UNCHANGED <<record, wire, notified, pending, store, orphans>>
  BY DEF NoStatePopped, agentVars, afgoVars
<1>2. Stray \/ UnderWay(At(call.op), call.thread)
  BY <1>1, Answerable
<1>3. UNCHANGED <<orphans, record, begun>> /\ (late => late')
  BY <1>1 DEF Fails, context
<1>4. Orphaned'
  BY <1>3, OrphansLater
<1>5. \A u : ~Presents(u)
  BY <1>1 DEF Presents
<1> QED
  BY <1>1, <1>2, <1>4, <1>5, FailsT

LEMMA StatePoppedT == IInv /\ InOrder /\ Waits /\ InTime /\ StatePopped => InTime'
<1> SUFFICES ASSUME IInv, InOrder, Waits, InTime, StatePopped PROVE InTime'
  OBVIOUS
<1> DEFINE p == At(call.op)
           t == call.thread
           b == Store!LatestBox(store[p], "states")
<1>0. /\ TypeOK /\ setup \in Setups /\ Placed /\ Staged /\ Told /\ RevokedNow /\ Stands /\ Coming
      /\ FailsOnlyWhenLate
  BY DEF IInv, InTime, TypeOK
<1>1. /\ call.phase = "state" /\ Store!CanPop(store[p], b)
      /\ store' = [store EXCEPT ![p] = Store!pop_resource_latest(@, b)]
      /\ \/ /\ call.op = "verify-presentation" /\ Store!PoppedTail(store[p], b) # "done"
            /\ Fails(Stray \/ UnderWay(p, t))
         \/ /\ Answered(t)
            /\ UNCHANGED <<setup, credential_id_dict, timeframe, begun, attempt, verdict, looks, late>>
      /\ UNCHANGED <<record, wire, notified, issued, revoked, pending, stack, orphans>>
  BY DEF StatePopped, agentVars
<1>2. t \in Threads /\ p \in Parties
  BY <1>0, <1>1, PartyOf DEF Placed
<1>3. ASSUME NEW u \in Threads, Store!CanPop(store["prover"], <<u, "actions">>)
      PROVE  Store!CanPop(store'["prover"], <<u, "actions">>)
  <2>1. store \in [Parties -> Store!Stores]
    BY <1>0 DEF TypeOK
  <2>2. CASE p = "prover"
    <3>1. b[2] = "states"
      BY DEF Store!LatestBox
    <3>2. b # <<u, "actions">>
      BY <3>1
    <3>3. Store!CanPop(Store!pop_resource_latest(store[p], b), <<u, "actions">>)
      BY <1>1, <1>2, <1>3, <2>1, <2>2, <3>2, PopFacts
    <3> HIDE DEF b
    <3> QED
      BY <1>1, <1>2, <2>1, <2>2, <3>3
  <2>3. CASE p # "prover"
    BY <1>1, <1>3, <2>1, <2>3 DEF Parties
  <2> QED
    BY <2>2, <2>3
<1>4. \A u : ~Presents(u)
  BY <1>1 DEF Presents
<1>5. CASE call.op = "verify-presentation" /\ Store!PoppedTail(store[p], b) # "done" /\ Fails(Stray \/ UnderWay(p, t))
  <2>1. record[p][t] = "done"
    <3>1. at = N-1
      BY <1>1, <1>5, CallFacts
    <3>2. Accepted
      BY <1>1, <3>1 DEF Accepted
    <3> QED
      BY <1>0, <1>5, <3>2 DEF InOrder, Turn, Placed, Presenting, At
  <2>2. Stray \/ UnderWay(p, t)
    BY <1>1, <1>5, <2>1, Answerable
  <2>3. UNCHANGED <<orphans, record, begun>> /\ (late => late')
    BY <1>1, <1>5 DEF Fails, context
  <2>4. Orphaned'
    BY <2>3, OrphansLater
  <2> HIDE DEF p, t, b
  <2> QED
    BY <1>1, <1>3, <1>4, <1>5, <2>2, <2>4, FailsT
<1>6. CASE /\ Answered(t)
           /\ UNCHANGED <<setup, credential_id_dict, timeframe, begun, attempt, verdict, looks, late>>
  <2>1. Staged' /\ Told'
    BY <1>1, <1>6, SameAgents
  <2>2. verdict = "running" /\ at \in 1..N /\ N \in Nat
        /\ (call.op = "send-presentation" <=> at = N-2)
    BY <1>1, CallFacts
  <2>3. RevokedNow' /\ Stands'
    <3>1. /\ call.op = "send-request" => Requested(t)
          /\ call.op = "send-proposal" => Proposed(t)
      BY <1>0, <1>1, <2>2 DEF Stands, Answering
    <3>2. call.op = "send-presentation" => record["prover"][t] \in Sent
      <4>1. call.op = "send-presentation" => Presented /\ t = thread
        BY <1>0, <1>1, <2>2 DEF Presented, Placed, Presenting
      <4> QED
        BY <1>0, <2>2, <4>1 DEF Stands
    <3>3. call.op \in Presenting \/ (call.op = "send-request" /\ thread # NoThread /\ Version = 3) => t = thread
      BY <1>0 DEF Waits, Placed
    <3> HIDE DEF t
    <3> QED
      BY <1>1, <1>2, <1>6, <3>1, <3>2, <3>3, AnswerT DEF Requested, Proposed
  <2>4. /\ call' = Idle \/ (call'.phase = "look" /\ call'.op = "get")
        /\ at' = at \/ at' = at + 1
    BY <1>6 DEF Answered
  <2>5. StateComing' /\ ActionComing'
    BY <1>0, <1>1, <1>3, <1>4, <1>6, <2>4 DEF Coming, StateComing, ActionComing, Idle, Presents, Kind
  <2>6. DoneComing' /\ Orphaned' /\ FailsOnlyWhenLate'
    <3>1. at' <= N' => at <= N
      BY <1>6, <2>2, <2>4 DEF N, Steps
    <3> QED
      BY <1>0, <1>1, <1>6, <3>1 DEF Coming, DoneComing, Orphaned, FailsOnlyWhenLate, Kind, OnStack
  <2> QED
    BY <2>1, <2>3, <2>5, <2>6 DEF InTime, Coming
<1> QED
  BY <1>1, <1>5, <1>6

\* The wait of a call is over.
LEMMA ProceedT == IInv /\ InOrder /\ Waits /\ InTime /\ Proceed => InTime'
<1> SUFFICES ASSUME IInv, InOrder, Waits, InTime, Proceed PROVE InTime'
  OBVIOUS
<1>0. /\ TypeOK /\ Placed /\ Staged /\ Told /\ RevokedNow /\ Stands /\ Coming /\ FailsOnlyWhenLate
  BY DEF IInv, InTime
<1>1. /\ UNCHANGED <<setup, record, wire, issued, revoked, notified, pending, stack, orphans, thread, begun, at,
                     verdict, late>>
      /\ call.phase \in {"wait", "swap", "check", "action"} /\ WaitOver
      /\ store' = IF call.phase = "action"
                  THEN [store EXCEPT !["prover"] = Store!pop_resource(@, <<call.thread, "actions">>)]
                  ELSE store
      /\ call' = [call EXCEPT !.phase = Then]
  BY DEF Proceed, agentVars, context, runVars
<1>2. call'.phase \in {"post", "check"} /\ call'.op = call.op /\ call'.thread = call.thread
      /\ (call.phase = "action" => call'.phase = "post")
  BY <1>0, <1>1 DEF Then, TypeOK
<1>3. Staged' /\ Told'
  BY <1>1, SameAgents
<1>4. /\ AskedFor(at)' <=> AskedFor(at)
      /\ RevokedAt(at)' <=> RevokedAt(at)
  BY <1>0, <1>1, StepsBehind
<1>5. RevokedNow' /\ FailsOnlyWhenLate'
  BY <1>0, <1>1, <1>4 DEF RevokedNow, FailsOnlyWhenLate
<1>6. Stands'
  <2>1. Presented' => Presented
    BY <1>1, <1>2 DEF Presented, N, Steps
  <2>2. \A op : ~Answering(op)' /\ ~Answering(op)
    BY <1>1, <1>2 DEF Answering
  <2>3. Version' = Version
    BY <1>1 DEF Version
  <2> QED
    BY <1>0, <1>1, <1>2, <1>4, <2>1, <2>2, <2>3 DEF Stands, Requested, Proposed, Answering
<1>7. StateComing' /\ DoneComing' /\ Orphaned'
  BY <1>0, <1>1, <1>2 DEF Coming, StateComing, DoneComing, Orphaned, Kind, OnStack, N, Steps
<1>8. ActionComing'
  <2> SUFFICES ASSUME Kind("prover") = "afgo", NEW u \in Threads, record["prover"][u] = "request-received", ~Presents(u)'
               PROVE  ActionIn(pending["prover"], u) \/ Store!CanPop(store'["prover"], <<u, "actions">>)
    BY <1>1 DEF ActionComing, Kind
  <2>1. ActionIn(pending["prover"], u) \/ Store!CanPop(store["prover"], <<u, "actions">>)
    BY <1>0, <1>1 DEF Coming, ActionComing, Presents
  <2>2. CASE call.phase = "action"
    <3>1. u # call.thread
      BY <1>0, <1>2, <2>2 DEF Presents, Placed
    <3>2. At(call.op) = "prover" /\ "prover" \in Parties
      BY <1>0, <2>2 DEF Placed, At, Parties
    <3>3. Store!CanPop(store["prover"], <<call.thread, "actions">>)
      BY <1>1, <2>2, <3>2 DEF WaitOver
    <3>4. store \in [Parties -> Store!Stores]
      BY <1>0 DEF TypeOK
    <3>5. store'["prover"] = Store!pop_resource(store["prover"], <<call.thread, "actions">>)
      BY <1>1, <2>2, <3>2, <3>4
    <3>6. <<u, "actions">> # <<call.thread, "actions">>
      BY <3>1
    <3> QED
      BY <2>1, <3>2, <3>3, <3>4, <3>5, <3>6, PopFacts
  <2>3. CASE call.phase # "action"
    BY <1>1, <2>1, <2>3
  <2> QED
    BY <2>2, <2>3
<1> QED
  BY <1>3, <1>5, <1>6, <1>7, <1>8 DEF InTime, Coming

\* The agent takes the operation.
LEMMA PostT == IInv /\ InOrder /\ Waits /\ InTime /\ Post => InTime'
<1> SUFFICES ASSUME IInv, InOrder, Waits, InTime, Post PROVE InTime'
  OBVIOUS
<1> DEFINE t == Subject
           p == At(call.op)
<1>0. /\ TypeOK /\ setup \in Setups /\ Placed /\ Own /\ Staged /\ Told /\ RevokedNow /\ Stands /\ Coming
      /\ FailsOnlyWhenLate
  BY DEF IInv, InTime, TypeOK
<1>1. /\ UNCHANGED <<setup, issued, revoked, store, stack, orphans, attempt, verdict, looks, late>>
      /\ call.phase = "post"
      /\ begun' = IF call.thread = NoThread THEN begun \cup {t} ELSE begun
      /\ IF Kind(p) = "afgo"
         THEN /\ call' = [call EXCEPT !.phase = "state", !.thread = t]
              /\ UNCHANGED <<thread, verification, at>>
         ELSE Answered(t)
  BY DEF Post
<1>2. PICK m \in Moves :
        Fits(m, t) /\ SetRecord(p, t, m.to)
        /\ wire' = wire \cup {[to |-> Other(p), thread |-> t, message |-> m.message]}
  BY DEF Post
<1>3. /\ t \in Threads /\ p \in Parties /\ m.to \in States
      /\ call.thread = NoThread => Fresh(t)
      /\ call.thread # NoThread => t = call.thread /\ t = thread
      /\ m.op = call.op /\ record[p][t] = m.from /\ (call.thread = NoThread) = (m.from = "none")
  BY <1>2, PostRecords, PartyOf, MoveFacts DEF Fits
<1>4. /\ record'[p][t] = m.to
      /\ \A q \in Parties, u \in Threads : <<q, u>> # <<p, t>> => record'[q][u] = record[q][u]
  BY <1>0, <1>2, <1>3, SetRecordTypes
<1>5. \/ /\ call.op = "send-proposal" /\ p = "prover" /\ m.to = "proposal-sent" /\ m.from = "none"
      \/ /\ call.op = "send-request" /\ p = "verifier" /\ m.to = "request-sent"
      \/ /\ call.op = "send-presentation" /\ p = "prover" /\ m.to = "presentation-sent"
         /\ m.from = "request-received"
      \/ /\ call.op = "verify-presentation" /\ p = "verifier" /\ m.to = "done"
  BY <1>3, MoveFacts DEF Operations, At
<1>6. /\ verdict = "running" /\ at \in 1..N /\ N \in Nat /\ N >= 3
      /\ call.op = "send-presentation" <=> at = N-2
      /\ call.op = "verify-presentation" <=> at = N-1
      /\ at = N => call.op = "get"
  BY <1>0, <1>1, CallFacts, ScenarioFacts
<1>7. /\ Kind(p) = "afgo" => LastState(pending'[p], t, m.to)
      /\ \A x \in Parties : \A u : ActionIn(pending[x], u) => ActionIn(pending'[x], u)
      /\ \A x \in Parties : \A u, y : <<x, u>> # <<p, t>> /\ LastState(pending[x], u, y) => LastState(pending'[x], u, y)
      /\ \A x \in Parties : \A u : <<x, u>> # <<p, t>> /\ NoState(pending[x], u) => NoState(pending'[x], u)
  BY <1>0, <1>2, <1>3, SetRecordQueue
<1> HIDE DEF t, p
<1>8. ASSUME NEW u \in Threads
      PROVE  /\ Requested(u) => record'["verifier"][u] \in {"request-sent", "presentation-received", "done"}
             /\ record["prover"][u] \in Sent => record'["prover"][u] \in Sent
             /\ record'["prover"][u] \in {"request-received", "done"} =>
                  record'["prover"][u] = record["prover"][u] /\ <<"prover", u>> # <<p, t>>
             /\ record["prover"][u] # "none" => record'["prover"][u] # "none"
             /\ Proposed(u) /\ u # t => /\ record'["prover"][u] = "proposal-sent"
                                        /\ record'["verifier"][u] \in {"none", "proposal-received"}
  <2>1. CASE u = t /\ p = "verifier"
    <3>1. record'["verifier"][u] = m.to /\ record'["prover"][u] = record["prover"][u]
      BY <1>3, <1>4, <2>1 DEF Parties
    <3> QED
      BY <1>5, <2>1, <3>1
  <2>2. CASE u = t /\ p = "prover"
    <3>1. record'["prover"][u] = m.to /\ record'["verifier"][u] = record["verifier"][u]
          /\ record["prover"][u] = m.from
      BY <1>3, <1>4, <2>2 DEF Parties
    <3> QED
      BY <1>5, <2>2, <3>1 DEF Requested, Sent
  <2>3. CASE u # t
    <3>1. record'["prover"][u] = record["prover"][u] /\ record'["verifier"][u] = record["verifier"][u]
      BY <1>4, <2>3 DEF Parties
    <3> QED
      BY <2>3, <3>1 DEF Requested, Proposed
  <2> QED
    BY <1>3, <2>1, <2>2, <2>3 DEF Parties
\* What t is, once it is posted to.
<1>9. /\ call.op = "send-request" => record'["verifier"][t] \in {"request-sent", "presentation-received", "done"}
      /\ call.op = "send-proposal" => /\ record'["prover"][t] = "proposal-sent"
                                      /\ record'["verifier"][t] \in {"none", "proposal-received"}
      /\ call.op = "send-presentation" => record'["prover"][t] \in Sent
  <2>1. call.op = "send-proposal" => record'["verifier"][t] = "none"
    BY <1>3, <1>4, <1>5 DEF Fresh, Parties
  <2> QED
    BY <1>4, <1>5, <2>1 DEF Sent
<1>10. /\ call.op \in Presenting => call.thread \in Threads /\ t = thread
       /\ call.op = "send-request" /\ thread # NoThread /\ Version = 3 => t = thread
  <2>1. call.op \in Presenting => call.thread \in Threads
    BY <1>1, Behind
  <2>2. \A u \in Threads : u # NoThread
    BY PresentProofAssumption
  <2> QED
    BY <1>3, <2>1, <2>2 DEF Waits
<1>11. Staged' /\ Told'
  BY <1>0, <1>1, <1>2, <1>3, PostStaged, SetRecordTold
<1>12. RevokedNow' /\ Stands'
  <2>1. CASE Kind(p) = "afgo"
    <3>1. /\ call' = [call EXCEPT !.phase = "state", !.thread = t] /\ UNCHANGED <<thread, at>>
      BY <1>1, <2>1
    <3>2. call'.op = call.op /\ call'.phase = "state" /\ call'.thread = t
      BY <1>0, <3>1 DEF TypeOK
    <3>3. /\ AskedFor(at)' <=> AskedFor(at)
          /\ RevokedAt(at)' <=> RevokedAt(at)
      BY <1>0, <1>1, <3>1, StepsBehind
    <3>4. RevokedNow'
      BY <1>0, <1>1, <3>1, <3>3 DEF RevokedNow
    <3>5. Version' = Version /\ N' = N
      BY <1>1 DEF Version, N, Steps
    <3>6. Requested(thread) => Requested(thread)'
      BY <1>8, <3>1 DEF Requested
    <3>7. AskedFor(at)' \/ (Version' = 2 /\ thread' # NoThread) \/ call'.op = "get" => Requested(thread)'
      BY <1>0, <1>6, <3>1, <3>2, <3>3, <3>5, <3>6 DEF Stands
    <3>8. Answering("send-request")' => Requested(call.thread)'
      BY <1>3, <1>9, <3>2 DEF Answering, Requested
    <3>9. Answering("send-proposal")' => Proposed(call.thread)'
      BY <1>9, <3>2 DEF Answering, Proposed
    <3>10. Version' = 3 /\ thread' # NoThread /\ ~AskedFor(at)' /\ ~Answering("send-request")' => Proposed(thread)'
      <4> SUFFICES ASSUME Version = 3, thread # NoThread, ~AskedFor(at), call.op # "send-request"
                   PROVE  Proposed(thread)'
        BY <3>1, <3>2, <3>3, <3>5 DEF Answering
      <4>1. Proposed(thread) /\ thread \in Threads
        BY <1>0, <1>1, <1>6 DEF Stands, Answering, TypeOK
      <4>2. call.op = "send-proposal"
        <5>1. call.op \in Presenting => at \in (N-2)..(N+1)
          BY <1>6 DEF Presenting
        <5>2. call.op \notin Presenting
          BY <1>0, <5>1, AskedAtLast
        <5> QED
          BY <1>5, <5>2 DEF Presenting
      <4>3. thread # t
        BY <1>3, <1>5, <4>1, <4>2 DEF Fresh, Parties, Proposed
      <4> QED
        BY <1>8, <3>1, <4>1, <4>3 DEF Proposed
    <3>11. Presented' => record'["prover"][thread'] \in Sent
      <4>1. CASE at = N-2
        BY <1>6, <1>9, <1>10, <3>1, <4>1 DEF Presenting
      <4>2. CASE at = N-1
        <5>1. Presented
          BY <1>6, <4>2 DEF Presented
        <5>2. thread \in Threads /\ record["prover"][thread] \in Sent
          BY <1>0, <1>3, <1>6, <1>10, <4>2, <5>1 DEF Stands, Presenting
        <5> QED
          BY <1>8, <3>1, <5>2
      <4>3. Presented' => at = N-2 \/ at = N-1 \/ at = N
        <5>1. Presented' => at > N-2 \/ at = N-2
          BY <3>1, <3>5 DEF Presented
        <5> QED
          BY <1>6, <5>1
      <4>4. at # N
        BY <1>5, <1>6
      <4> QED
        BY <4>1, <4>2, <4>3, <4>4
    <3> QED
      BY <3>4, <3>7, <3>8, <3>9, <3>10, <3>11 DEF Stands
  <2>2. CASE Kind(p) # "afgo"
    <3>1. Answered(t)
      BY <1>1, <2>2
    <3> QED
      BY <1>1, <1>3, <1>8, <1>9, <1>10, <3>1, AnswerT
  <2> QED
    BY <2>1, <2>2
<1>13. /\ Kind(p) = "afgo" => call'.op = call.op /\ call'.phase = "state" /\ call'.thread = t /\ at' = at
       /\ Kind(p) # "afgo" => /\ call' = Idle \/ (call'.phase = "look" /\ call'.op = "get")
                              /\ at' = at \/ at' = at + 1
  <2>1. ASSUME Kind(p) = "afgo"
        PROVE  call'.op = call.op /\ call'.phase = "state" /\ call'.thread = t /\ at' = at
    <3>1. call' = [call EXCEPT !.phase = "state", !.thread = t] /\ at' = at
      BY <1>1, <2>1
    <3> QED
      BY <1>0, <3>1 DEF TypeOK
  <2>2. ASSUME Kind(p) # "afgo"
        PROVE  /\ call' = Idle \/ (call'.phase = "look" /\ call'.op = "get")
               /\ at' = at \/ at' = at + 1
    <3>1. Answered(t)
      BY <1>1, <2>2
    <3>2. \/ call' = [op |-> "get", thread |-> t, phase |-> "look"] /\ at' = at
          \/ call' = Idle /\ at' = at + 1
      BY <3>1 DEF Answered
    <3> QED
      BY <3>2
  <2> QED
    BY <2>1, <2>2
<1>14. StateComing'
  <2>1. CASE Kind(p) = "afgo"
    <3>1. At(call'.op) = p
      BY <1>13, <2>1 DEF p
    <3> QED
      BY <1>4, <1>7, <1>13, <2>1, <3>1 DEF StateComing
  <2>2. CASE Kind(p) # "afgo"
    BY <1>13, <2>2 DEF StateComing, Idle
  <2> QED
    BY <2>1, <2>2
<1>15. ActionComing'
  <2> SUFFICES ASSUME Kind("prover") = "afgo", NEW u \in Threads, record'["prover"][u] = "request-received"
               PROVE  ActionIn(pending'["prover"], u) \/ Store!CanPop(store["prover"], <<u, "actions">>)
    BY <1>1 DEF ActionComing, Kind
  <2>1. record["prover"][u] = "request-received" /\ <<"prover", u>> # <<p, t>>
    BY <1>8
  <2>2. ~Presents(u)
    <3>1. Presents(u) => p = "prover" /\ t = u
      BY <1>3, <1>5, <1>10 DEF Presents, Presenting
    <3> QED
      BY <2>1, <3>1
  <2> QED
    BY <1>0, <1>7, <2>1, <2>2 DEF Coming, ActionComing, Parties
<1>16. DoneComing'
  <2> SUFFICES ASSUME Kind("prover") = "afgo", ~late, verdict = "running", at' <= N, NEW u \in begun',
                      record'["prover"][u] = "done"
               PROVE  \/ LastState(pending'["prover"], u, "done")
                      \/ NoState(pending'["prover"], u) /\ OnStack(u, "done")
    BY <1>1 DEF DoneComing, Kind, OnStack, N, Steps
  <2>1. u \in Threads
    BY <1>0, <1>1, <1>3 DEF TypeOK
  <2>2. record["prover"][u] = "done" /\ <<"prover", u>> # <<p, t>>
    BY <1>8, <2>1
  <2>3. u \in begun
    BY <1>1, <1>3, <2>2 DEF Fresh, Parties
  <2> QED
    BY <1>0, <1>6, <1>7, <2>2, <2>3 DEF Coming, DoneComing, Parties
<1>17. Orphaned'
  <2> SUFFICES ASSUME NEW u \in Threads, orphans[u] > 0
               PROVE  record'["prover"][u] # "none" /\ (u \in begun' => late)
    BY <1>1 DEF Orphaned
  <2>1. record["prover"][u] # "none" /\ (u \in begun => late)
    BY <1>0 DEF Coming, Orphaned
  <2>2. u \in begun' => u \in begun
    BY <1>1, <1>3, <2>1 DEF Fresh, Parties
  <2> QED
    BY <1>8, <2>1, <2>2
<1>18. FailsOnlyWhenLate'
  BY <1>1, <1>6 DEF FailsOnlyWhenLate
<1> QED
  BY <1>11, <1>12, <1>14, <1>15, <1>16, <1>17, <1>18 DEF InTime, Coming

\* What the last step looks at: the request asked for non-revocation, and the credential shown
\* is revoked, where the steps behind say so.
LEMMA ShownFacts ==
  ASSUME IInv, InOrder, InTime, at = N, call.op = "get"
  PROVE  /\ thread \in asked <=> AsksValid
         /\ shown[thread] \in revoked <=> Steps[N-2] = "presentRevoked" \/ RevokedAt(N)
<1>0. /\ TypeOK /\ setup \in Setups /\ Turn /\ Asked /\ Means /\ RevokedNow
      /\ N \in Nat /\ N >= 3 /\ verdict = "running"
  <2>1. TypeOK /\ setup \in Setups
    BY DEF IInv, TypeOK
  <2>2. N \in Nat /\ N >= 3
    BY <2>1, ScenarioFacts
  <2> QED
    BY <2>1, <2>2, CallFacts DEF InOrder, InTime
<1>1. Presented /\ Accepted
  BY <1>0 DEF Presented, Accepted
<1>2. /\ thread \in Threads /\ Meant(shown[thread]) /\ record["verifier"][thread] = "done"
      /\ thread # NoThread
  BY <1>0, <1>1, PresentProofAssumption DEF Means, Turn
<1>3. DOMAIN setup.scenario.steps = 1..N
  BY <1>0, PresentProofAssumption DEF Setups, N, Steps
<1>4. \A i \in 1..N : i \in 1..(N-3) \/ i = N-2 \/ i = N-1 \/ i = N
  BY <1>0
<1>5. AsksValid => thread \in asked
  <2> SUFFICES ASSUME AsksValid PROVE thread \in asked
    OBVIOUS
  <2>1. PICK i \in 1..N : Steps[i] = "requestValid"
    BY <1>3 DEF AsksValid, Steps
  <2>2. i \in 1..(N-3)
    BY <1>0, <1>4, <2>1, ScenarioFacts
  <2>3. i \in 1..(at-1)
    BY <1>0, <2>2
  <2>4. timeframe
    BY <1>0, <2>1, <2>3 DEF Asked
  <2> QED
    BY <1>0, <1>2, <2>4 DEF Asked
<1>6. thread \in asked => AsksValid
  BY <1>0 DEF Asked
<1>7. ShowsRevoked <=> Steps[N-2] = "presentRevoked"
  <2>1. N-2 \in 1..N
    BY <1>0
  <2>2. \A i \in 1..N : Steps[i] = "presentRevoked" => i = N-2
    BY <1>0, <1>4, ScenarioFacts
  <2> QED
    BY <1>3, <2>1, <2>2 DEF ShowsRevoked, Steps
<1>8. issued \in revoked <=> RevokedAt(N)
  BY <1>0 DEF RevokedNow
<1>9. shown[thread] \in revoked <=> Steps[N-2] = "presentRevoked" \/ RevokedAt(N)
  <2>1. CASE ShowsRevoked
    BY <1>2, <1>7, <2>1 DEF Meant
  <2>2. CASE ~ShowsRevoked
    BY <1>2, <1>7, <1>8, <2>2 DEF Meant
  <2> QED
    BY <2>1, <2>2
<1> QED
  BY <1>5, <1>6, <1>9

\* A look at the prover finds what it looks for, or that is under way; and the verification is
\* the one the scenario expects.
LEMMA LookFacts ==
  ASSUME IInv, InOrder, InTime, call.phase = "look"
  PROVE  /\ call.op = "get" /\ call.thread = thread /\ thread \in Threads /\ thread \in begun
         /\ Requested(thread) /\ At(call.op) = "prover"
         /\ verdict = "running" /\ at \in 1..N /\ N \in Nat
         /\ Deed \notin {"propose", "issue", "revoke"}
         /\ \/ at = N /\ Presented /\ "done" \in Wanted
            \/ Version = 1 /\ at < N-2
         /\ Version # 1 => Wanted = {"done"}
         /\ record["prover"][thread] \in Wanted \/ UnderWay("prover", thread)
         /\ AsExpected
<1>0. /\ TypeOK /\ setup \in Setups /\ Staged /\ Stands /\ Turn /\ Outcome
  BY DEF IInv, InOrder, InTime, TypeOK
<1>1. /\ call.op = "get" /\ call.thread = thread /\ verdict = "running" /\ at \in 1..N /\ N \in Nat /\ N >= 3
      /\ at = N \/ (Version = 1 /\ at < N-2 /\ Deed \in {"request", "requestValid"})
      /\ at = N => Deed = Steps[N] /\ Deed \in {"verified", "unverified"}
  <2>1. call.op = "get" /\ call.thread = thread /\ N >= 3 /\ Steps[N] \in {"verified", "unverified"}
    BY <1>0, ScenarioFacts DEF IInv, Placed
  <2> QED
    BY <2>1, CallFacts
<1>2. Requested(thread)
  BY <1>0, <1>1 DEF Stands
<1>3. thread \in Threads /\ thread # NoThread /\ thread \in begun
  <2>1. thread \in Threads /\ thread # NoThread
    BY <1>2, PresentProofAssumption DEF Requested
  <2> QED
    BY <2>1 DEF IInv, Own
<1>4. ASSUME at = N
      PROVE  /\ Presented /\ "done" \in Wanted
             /\ record["prover"][thread] \in Wanted \/ UnderWay("prover", thread)
             /\ AsExpected
  <2>1. Presented /\ Accepted
    BY <1>1, <1>4 DEF Presented, Accepted
  <2>2. "done" \in Wanted
    BY <1>1, <1>4 DEF Wanted
  <2>3. record["verifier"][thread] = "done"
    BY <1>0, <2>1 DEF Turn
  <2>4. record["prover"][thread] = "done" \/ UnderWay("prover", thread)
    BY <1>0, <1>3, <2>3, StageFacts, WireUnderWay
  <2>5. verification[thread] = (IF Satisfies(thread) THEN "true" ELSE "false")
    BY <1>0, <1>1, <1>4 DEF Outcome
  <2>6. Steps[N] = "unverified" <=> ~Satisfies(thread)
    BY <1>0, <1>1, <1>4, ShownFacts, RequestFacts DEF Satisfies
  <2>7. AsExpected
    BY <1>1, <1>3, <1>4, <2>5, <2>6 DEF AsExpected
  <2> QED
    BY <2>1, <2>2, <2>4, <2>7
<1>5. ASSUME at < N-2, Version = 1, Deed \in {"request", "requestValid"}
      PROVE  /\ record["prover"][thread] \in Wanted \/ UnderWay("prover", thread)
             /\ AsExpected
  <2>1. ~Presented
    BY <1>1, <1>5 DEF Presented
  <2>2. record["prover"][thread] \notin Sent
    BY <1>0, <1>1, <1>3, <2>1 DEF Turn
  <2>3. record["prover"][thread] = "request-received" \/ OnWire(thread, "request")
    BY <1>0, <1>2, <1>3, <2>2, StageFacts
  <2>4. "request-received" \in Wanted /\ AsExpected
    BY <1>5 DEF Wanted, AsExpected
  <2> QED
    BY <2>3, <2>4, WireUnderWay
<1>6. Version # 1 => Wanted = {"done"}
  BY <1>1 DEF Wanted
<1>7. At(call.op) = "prover" /\ Deed \notin {"propose", "issue", "revoke"}
  BY <1>1 DEF At
<1> QED
  BY <1>1, <1>2, <1>3, <1>4, <1>5, <1>6, <1>7

\* For an AFGO prover there is one look only, the last, and what it looks for comes on the stack.
LEMMA LookAfgo ==
  ASSUME IInv, InOrder, InTime, call.phase = "look", Kind("prover") = "afgo"
  PROVE  /\ at = N /\ Wanted = {"done"} /\ record["prover"][thread] # "none"
         /\ late \/ UnderWay("prover", thread) \/ OnStack(thread, "done")
<1>0. TypeOK /\ setup \in Setups /\ "prover" \in Parties /\ Stands /\ DoneComing
  BY DEF IInv, InTime, Coming, TypeOK, Parties
<1>1. Version # 1
  BY <1>0, KindFacts
<1>2. /\ thread \in begun /\ at = N /\ N \in Nat /\ Wanted = {"done"} /\ verdict = "running" /\ Presented
      /\ record["prover"][thread] = "done" \/ UnderWay("prover", thread)
  BY <1>1, LookFacts
<1>3. record["prover"][thread] \in Sent
  BY <1>0, <1>2 DEF Stands
<1>4. ASSUME ~late, record["prover"][thread] = "done"
      PROVE  UnderWay("prover", thread) \/ OnStack(thread, "done")
  <2>1. LastState(pending["prover"], thread, "done") \/ OnStack(thread, "done")
    BY <1>0, <1>2, <1>4 DEF DoneComing
  <2> QED
    BY <1>0, <2>1, QueueUnderWay
<1> QED
  BY <1>2, <1>3, <1>4 DEF Sent

LEMMA SeenT ==
  ASSUME IInv, InOrder, InTime, call.phase = "look", at' = at + 1, call' = Idle,
         UNCHANGED <<setup, record, wire, issued, revoked, notified, pending, store, orphans, thread, begun,
                     verdict, late>>,
         stack' = stack \/ Kind("prover") = "afgo"
  PROVE  InTime'
<1>0. /\ TypeOK /\ setup \in Setups /\ RevokedNow /\ Stands /\ Coming
      /\ UNCHANGED <<N, Version>>
  BY DEF IInv, InTime, TypeOK, N, Steps, Version
<1>1. /\ call.op = "get" /\ Requested(thread) /\ verdict = "running" /\ at \in 1..N /\ N \in Nat
      /\ Deed \notin {"propose", "issue", "revoke"}
      /\ (at = N /\ Presented) \/ (Version = 1 /\ at < N-2)
  BY LookFacts
<1>2. call'.op = "idle" /\ call'.phase = "none"
  BY DEF Idle
<1>3. Staged' /\ Told'
  BY SameAgents
<1>4. /\ AskedFor(at)' <=> Deed \in {"request", "requestValid"} \/ AskedFor(at)
      /\ RevokedAt(at)' <=> RevokedAt(at)
  BY <1>0, <1>1, StepsBehind
<1>5. RevokedNow'
  BY <1>0, <1>4 DEF RevokedNow
<1>6. at = N => AskedFor(at)
  <2>1. at = N => at \in (N-2)..(N+1)
    BY <1>1
  <2> QED
    BY <1>0, <2>1, AskedAtLast
<1>7. Presented' => Presented
  BY <1>0, <1>1, <1>2 DEF Presented
<1>8. Stands'
  <2>1. Requested(thread)'
    BY <1>1 DEF Requested
  <2>2. Version' = 3 => AskedFor(at)'
    BY <1>0, <1>1, <1>4, <1>6
  <2>3. Presented' => record'["prover"][thread'] \in Sent
    BY <1>0, <1>1, <1>7 DEF Stands
  <2> QED
    BY <1>2, <2>1, <2>2, <2>3 DEF Stands, Answering
<1>9. StateComing' /\ ActionComing'
  BY <1>0, <1>1, <1>2 DEF Coming, StateComing, ActionComing, Presents, Kind
<1>10. DoneComing'
  <2>1. CASE stack' = stack
    <3>1. at' <= N' => at <= N
      BY <1>0, <1>1
    <3> QED
      BY <1>0, <2>1, <3>1 DEF Coming, DoneComing, OnStack, Kind
  <2>2. CASE Kind("prover") = "afgo"
    <3>1. at = N
      BY <2>2, LookAfgo
    <3>2. ~(at' <= N')
      BY <1>0, <1>1, <3>1
    <3> QED
      BY <3>2 DEF DoneComing
  <2> QED
    BY <2>1, <2>2
<1>11. Orphaned'
  BY OrphansLater
<1> QED
  BY <1>1, <1>3, <1>5, <1>8, <1>9, <1>10, <1>11 DEF InTime, Coming, FailsOnlyWhenLate

\* A look in vain that is followed by another.
LEMMA LookedT ==
  ASSUME IInv, InTime, verdict = "running",
         UNCHANGED <<setup, record, wire, issued, revoked, notified, pending, store, thread, begun, verdict, at, call>>,
         DoneComing', Orphaned'
  PROVE  InTime'
<1>0. /\ TypeOK /\ RevokedNow /\ Stands /\ Coming /\ UNCHANGED <<N, Version>>
  BY DEF IInv, InTime, N, Steps, Version
<1>1. Staged' /\ Told'
  BY SameAgents
<1>2. (AskedFor(at)' <=> AskedFor(at)) /\ (RevokedAt(at)' <=> RevokedAt(at))
  BY <1>0, StepsBehind
<1>3. RevokedNow'
  BY <1>0, <1>2 DEF RevokedNow
<1>4. Stands'
  BY <1>0, <1>2 DEF Stands, Answering, Requested, Proposed, Presented
<1>5. StateComing' /\ ActionComing'
  BY <1>0 DEF Coming, StateComing, ActionComing, Presents, Kind
<1> QED
  BY <1>1, <1>3, <1>4, <1>5 DEF InTime, Coming, FailsOnlyWhenLate

LEMMA LookT == IInv /\ InOrder /\ InTime /\ (Look \/ LookFails) => InTime'
<1> SUFFICES ASSUME IInv, InOrder, InTime, Look \/ LookFails PROVE InTime'
  OBVIOUS
<1>1. CASE Look
  <2>1. /\ call.phase = "look" /\ Seen
        /\ UNCHANGED <<record, wire, issued, revoked, notified, pending, store, stack, orphans>>
    BY <1>1 DEF Look, Seen, agentVars, afgoVars
  <2>2. at' = at + 1 /\ call' = Idle /\ UNCHANGED <<setup, thread, begun, verdict, late>>
    BY <2>1, LookFacts DEF Seen, context
  <2> QED
    BY <2>1, <2>2, SeenT
<1>2. CASE LookFails
  <2>1. /\ call.phase = "look" /\ Fails(UnderWay(At(call.op), call.thread))
        /\ UNCHANGED <<record, wire, notified, pending, store, orphans>>
        /\ record["prover"][call.thread] \notin Wanted \/ Unheard("prover", call.thread)
    BY <1>2 DEF LookFails, InState, FailScenario, agentVars, afgoVars
  <2>2. UnderWay(At(call.op), call.thread)
    BY <2>1, LookFacts DEF UnderWay
  <2>3. UNCHANGED <<orphans, record, begun>> /\ (late => late')
    BY <2>1 DEF Fails, context
  <2>4. Orphaned' /\ \A u : ~Presents(u)
    BY <2>1, <2>3, OrphansLater DEF Presents
  <2> QED
    BY <2>1, <2>2, <2>4, FailsT
<1> QED
  BY <1>1, <1>2

LEMMA LookPopsT == IInv /\ InOrder /\ InTime /\ LookPops => InTime'
<1> SUFFICES ASSUME IInv, InOrder, InTime, LookPops PROVE InTime'
  OBVIOUS
<1> DEFINE t == call.thread
<1>0. TypeOK /\ DoneComing
  BY DEF IInv, InTime, Coming
<1>1. /\ call.phase = "look" /\ Kind("prover") = "afgo" /\ stack[t] # <<>>
      /\ stack' = [stack EXCEPT ![t] = Front(@)]
      /\ IF Last(stack[t]) \in Wanted THEN Seen ELSE Looked(late)
      /\ UNCHANGED <<record, wire, issued, revoked, notified, pending, store, orphans>>
  BY DEF LookPops, Seen, agentVars
<1>2. t = thread /\ t \in Threads /\ verdict = "running" /\ At(call.op) = "prover" /\ AsExpected /\ at = N
      /\ Wanted = {"done"} /\ (late \/ UnderWay("prover", t) \/ OnStack(t, "done"))
  BY <1>1, LookFacts, LookAfgo
<1>3. CASE Last(stack[t]) \in Wanted
  <2>1. at' = at + 1 /\ call' = Idle /\ UNCHANGED <<setup, thread, begun, verdict, late>>
    BY <1>1, <1>2, <1>3 DEF Seen, context
  <2> QED
    BY <1>1, <2>1, SeenT
<1>4. CASE Last(stack[t]) \notin Wanted
  <2>1. ~OnStack(t, "done") /\ Looked(late)
    BY <1>1, <1>2, <1>4 DEF OnStack
  <2>2. CASE looks + 1 < StatePolls
    <3>1. late' = late /\ UNCHANGED <<setup, thread, begun, verdict, at, call>>
      BY <2>1, <2>2 DEF Looked, context, runVars
    <3>2. \A u \in Threads : u # t => stack'[u] = stack[u]
      BY <1>0, <1>1 DEF TypeOK
    <3>3. DoneComing'
      <4> SUFFICES ASSUME ~late, at <= N, NEW u \in begun, record["prover"][u] = "done"
                   PROVE  \/ LastState(pending["prover"], u, "done")
                          \/ NoState(pending["prover"], u) /\ (OnStack(u, "done"))'
        BY <1>1, <3>1 DEF DoneComing, N, Steps
      <4>1. \/ LastState(pending["prover"], u, "done")
            \/ NoState(pending["prover"], u) /\ OnStack(u, "done")
        BY <1>0, <1>1, <1>2 DEF DoneComing
      <4>2. u # t /\ u \in Threads => (OnStack(u, "done"))' = OnStack(u, "done")
        BY <3>2 DEF OnStack
      <4>3. u \in Threads
        BY <1>0 DEF TypeOK
      <4> QED
        BY <2>1, <4>1, <4>2, <4>3
    <3>4. Orphaned'
      BY <1>1, <3>1, OrphansLater
    <3> QED
      BY <1>1, <1>2, <3>1, <3>3, <3>4, LookedT
  <2>3. CASE ~(looks + 1 < StatePolls)
    <3>1. Fails(UnderWay("prover", t)) /\ (UnderWay("prover", t) \/ late)
      BY <1>2, <2>1, <2>3 DEF Looked, FailScenario
    <3>2. UNCHANGED <<orphans, record, begun>> /\ (late => late')
      BY <1>1, <3>1 DEF Fails, context
    <3>3. Orphaned' /\ \A u : ~Presents(u)
      BY <1>1, <3>2, OrphansLater DEF Presents
    <3> QED
      BY <1>1, <3>1, <3>3, FailsT
  <2> QED
    BY <2>2, <2>3
<1> QED
  BY <1>3, <1>4

LEMMA LookTimesOutT == IInv /\ InOrder /\ InTime /\ LookTimesOut => InTime'
<1> SUFFICES ASSUME IInv, InOrder, InTime, LookTimesOut PROVE InTime'
  OBVIOUS
<1> DEFINE t == call.thread
<1>0. TypeOK /\ Orphaned
  BY DEF IInv, InTime, Coming
<1>1. /\ call.phase = "look" /\ Kind("prover") = "afgo" /\ stack[t] = <<>>
      /\ orphans' = [orphans EXCEPT ![t] = @ + 1]
      /\ Looked(late \/ UnderWay("prover", t))
      /\ UNCHANGED <<record, wire, issued, revoked, notified, pending, store, stack>>
  BY DEF LookTimesOut, agentVars
<1>2. /\ t = thread /\ t \in Threads /\ verdict = "running" /\ At(call.op) = "prover"
      /\ record["prover"][t] # "none" /\ (late \/ UnderWay("prover", t) \/ OnStack(t, "done"))
  BY <1>1, LookFacts, LookAfgo
<1>3. late \/ UnderWay("prover", t)
  BY <1>1, <1>2 DEF OnStack
<1>4. late' = (late \/ UnderWay("prover", t)) /\ begun' = begun
  BY <1>1, <1>2 DEF Looked, FailScenario, Fails, context
<1>5. Orphaned'
  <2>1. \A u \in Threads : u # t => orphans'[u] = orphans[u]
    BY <1>0, <1>1 DEF TypeOK
  <2> QED
    BY <1>0, <1>1, <1>2, <1>3, <1>4, <2>1 DEF Orphaned
<1>6. CASE looks + 1 < StatePolls
  <2>1. UNCHANGED <<setup, thread, begun, verdict, at, call>>
    BY <1>1, <1>6 DEF Looked, context, runVars
  <2>2. DoneComing'
    BY <1>3, <1>4 DEF DoneComing
  <2> QED
    BY <1>1, <1>2, <1>5, <2>1, <2>2, LookedT
<1>7. CASE ~(looks + 1 < StatePolls)
  <2>1. Fails(UnderWay("prover", t)) /\ (UnderWay("prover", t) \/ late)
    BY <1>1, <1>2, <1>3, <1>7 DEF Looked, FailScenario
  <2>2. \A u : ~Presents(u)
    BY <1>1 DEF Presents
  <2> QED
    BY <1>1, <1>5, <2>1, <2>2, FailsT
<1> QED
  BY <1>6, <1>7

----------------------------------------------------------------------------

LEMMA InitT == Init => Waits /\ InTime
<1> SUFFICES ASSUME Init PROVE Waits /\ InTime
  OBVIOUS
<1>0. /\ setup \in Setups /\ verdict = "running" /\ call = Idle /\ at = 1 /\ thread = NoThread
      /\ record = [p \in Parties |-> [t \in Threads |-> "none"]] /\ wire = {} /\ issued = 1 /\ revoked = {}
      /\ orphans = [t \in Threads |-> 0] /\ begun = {}
  BY DEF Init
<1>1. \A p \in Parties, t \in Threads : record[p][t] = "none"
  BY <1>0
<1>2. N \in Nat /\ N >= 3
  BY <1>0, ScenarioFacts
<1>3. ~AskedFor(at) /\ ~RevokedAt(at)
  <2>1. 1..(1-1) = {}
    OBVIOUS
  <2> QED
    BY <1>0, <2>1 DEF AskedFor, RevokedAt, Since
<1>4. call.op = "idle" /\ call.phase = "none" /\ call.thread = NoThread
  BY <1>0 DEF Idle
<1>5. Waits
  BY <1>4 DEF Waits
<1>6. Staged
  BY <1>0, <1>1 DEF Staged, Stage, AtStage, Parties
<1>7. Told /\ FailsOnlyWhenLate
  BY <1>0, <1>1 DEF Told, FailsOnlyWhenLate
<1>8. RevokedNow
  BY <1>0, <1>3 DEF RevokedNow
<1>9. ~Presented
  BY <1>0, <1>2, <1>4 DEF Presented
<1>10. Stands
  BY <1>0, <1>3, <1>4, <1>9 DEF Stands, Answering
<1>11. Coming
  BY <1>0, <1>1, <1>4 DEF Coming, StateComing, ActionComing, DoneComing, Orphaned, Parties
<1> QED
  BY <1>5, <1>6, <1>7, <1>8, <1>10, <1>11 DEF InTime

LEMMA NextT == IInv /\ InOrder /\ Waits /\ InTime /\ [Next]_vars => Waits' /\ InTime'
<1> SUFFICES ASSUME IInv, InOrder, Waits, InTime, [Next]_vars PROVE InTime'
  BY WaitsS
<1>1. CASE Deliver \/ Webhook \/ AfgoWebhook \/ UNCHANGED vars
  BY <1>1, DeliverT, WebhookT, AfgoWebhookT
<1>2. CASE Step \/ Issue \/ Revoke \/ Succeed \/ Retry
  BY <1>2, StepT, CredentialStepsT, QuietT
<1>3. CASE Look \/ LookFails \/ LookPops \/ LookTimesOut
  BY <1>3, LookT, LookPopsT, LookTimesOutT
<1>4. CASE Proceed \/ GiveUp \/ Post \/ Refused \/ StatePopped \/ NoStatePopped
  BY <1>4, ProceedT, GiveUpT, PostT, RefusedT, StatePoppedT, NoStatePoppedT
<1> QED
  BY <1>1, <1>2, <1>3, <1>4 DEF Next, Harness, Served

\* A scenario fails only when a wait of its attempt ended while what it needed was under way,
\* or AFGO gave it the state of another exchange.  Neither the order of messages, webhooks and
\* steps fails it, nor a GET that takes the state it looks at from the stack, nor a task that
\* an earlier attempt left waiting there, nor the verification of a credential that was revoked.
THEOREM FailedWasLate == Spec => []FailsOnlyWhenLate
<1>1. Init => Waits /\ InTime
  BY InitT
<1>2. IInv /\ InOrder /\ Waits /\ InTime /\ [Next]_vars => Waits' /\ InTime'
  BY NextT
<1>3. InTime => FailsOnlyWhenLate
  BY DEF InTime
<1> QED
  BY <1>1, <1>2, <1>3, InvariantI, InOrderAlways, PTL DEF Spec
=============================================================================
