------------------------ MODULE IssueCredentialProofs ------------------------
(***************************************************************************)
(* Proofs about IssueCredential: for every set of threads, every set of    *)
(* scenarios in the order of the protocol, and any number of attempts.     *)
(***************************************************************************)
EXTENDS IssueCredential, TLAPS

\* The harness: what the context names was begun in this attempt; a call belongs
\* to the current step and names the exchange of the context; after a store
\* nothing is left to be called.
Harnessed ==
  /\ thread # NoThread => thread \in begun
  /\ verdict # "running" => call = Idle
  /\ call # Idle => at <= Len(setup.scenario) /\ call.op = OperationOf[setup.scenario[at]]
  /\ call.thread # NoThread => call.thread = thread
  /\ credential # NoThread => at > Len(setup.scenario) /\ credential = thread

\* The agents: a message goes to the party that can receive it, and the holder has
\* a credential only when the issuer has issued one.
IssuedTo(t) == record["issuer"][t] \in {"credential-issued", "done"}

Agreed ==
  /\ \A m \in wire : m.to = IF m.message \in {"offer", "credential"} THEN "holder" ELSE "issuer"
  /\ \A m \in wire : m.message = "credential" => IssuedTo(m.thread)
  /\ \A t \in Threads : record["holder"][t] \in {"credential-received", "done"} => IssuedTo(t)

IInv == TypeOK /\ Harnessed /\ Agreed

----------------------------------------------------------------------------
\* What the tables of operations and messages say, one fact at a time.
LEMMA MoveFacts ==
  ASSUME NEW m \in Moves
  PROVE  /\ m.op \in Operations /\ m.from \in States /\ m.to \in States \ {"none"}
         /\ m.message \in Messages
         /\ At(m.op) = "issuer" <=> m.message \in {"offer", "credential"}
         /\ m.op \in {"send-offer", "issue"} => m.from \notin {"credential-issued", "done"}
         /\ m.message = "credential" => m.to = "credential-issued"
         /\ m.op \notin {"send-offer", "issue"} /\ m.to \in {"credential-received", "done"}
              => m.from = "credential-received"
BY DEF Moves, Operations, States, Messages, At

LEMMA ArrivalFacts ==
  ASSUME NEW a \in Arrivals
  PROVE  /\ a.message \in Messages /\ a.from \in States /\ a.to \in States
         /\ a.to \in {"credential-received", "done"} => a.message \in {"credential", "ack"}
         /\ a.message = "credential" => a.to = "credential-received"
         /\ a.message = "ack" => a.to = "done"
         /\ a.from \in {"credential-issued", "done"} => a.to = "done"
BY DEF Arrivals, States, Messages

\* The scenario is a sequence of steps that are operations, with a store only last.
LEMMA ScenarioFacts ==
  ASSUME TypeOK
  PROVE  /\ Len(setup.scenario) \in Nat
         /\ \A i \in 1..Len(setup.scenario) :
              /\ OperationOf[setup.scenario[i]] \in Operations
              /\ OperationOf[setup.scenario[i]] = "store" => i = Len(setup.scenario)
              /\ i # 1 => setup.scenario[i-1] = Before[setup.scenario[i]]
              /\ setup.scenario[i] \in {"propose", "offer", "request", "issue", "store"}
<1> DEFINE Steps == {"propose", "offer", "request", "issue", "store"}
<1>1. /\ setup.scenario \in Seq(Steps)
      /\ \A i \in 1..Len(setup.scenario) : i # 1 => setup.scenario[i-1] = Before[setup.scenario[i]]
  BY IssueCredentialAssumption DEF TypeOK, Setups
<1>2. \A s \in Steps : /\ OperationOf[s] \in Operations
                       /\ OperationOf[s] = "store" => s = "store"
                       /\ Before[s] # "store"
  BY DEF OperationOf, Operations, Before
<1>3. \A i \in 1..Len(setup.scenario) : setup.scenario[i] \in Steps
  BY <1>1
<1>4. Len(setup.scenario) \in Nat
  BY <1>1
<1>5. ASSUME NEW i \in 1..Len(setup.scenario), setup.scenario[i] = "store", i # Len(setup.scenario)
      PROVE  FALSE
  <2>1. i+1 \in 1..Len(setup.scenario) /\ i+1 # 1 /\ (i+1)-1 = i
    BY <1>4, <1>5
  <2>2. setup.scenario[i] = Before[setup.scenario[i+1]]
    BY <1>1, <2>1
  <2> QED
    BY <1>2, <1>3, <1>5, <2>1, <2>2
<1> QED
  BY <1>1, <1>2, <1>3, <1>4, <1>5

LEMMA InitI == Init => IInv
<1> SUFFICES ASSUME Init PROVE IInv
  OBVIOUS
<1>1. \A p \in Parties, t \in Threads : record[p][t] = "none"
  BY DEF Init
<1>2. setup.scenario \in Scenarios /\ Len(setup.scenario) \in Nat
  BY IssueCredentialAssumption DEF Init, Setups
<1>3. TypeOK
  <2>1. /\ record \in [Parties -> [Threads -> States]]
        /\ notified \in [Parties -> SUBSET (Threads \X States)]
    BY DEF Init, States
  <2>2. 0 \in 0..(StatePolls - 1) /\ 1 \in 1..MaxAttempts[setup.scenario] /\ 1 \in 1..(Len(setup.scenario) + 1)
    BY <1>2, IssueCredentialAssumption
  <2>3. call \in [op : Operations \cup {"idle"}, thread : Threads \cup {NoThread},
                  phase : {"none", "post", "wait", "swap", "check", "look"}]
    BY DEF Init, Idle
  <2> QED
    BY <2>1, <2>2, <2>3 DEF Init, TypeOK
<1>4. Agreed
  BY <1>1 DEF Init, Agreed, Parties
<1> QED
  BY <1>3, <1>4 DEF Init, IInv, Harnessed, Idle

\* A step that leaves records and messages alone keeps the agents in agreement.
LEMMA AgreedKept ==
  ASSUME Agreed, UNCHANGED <<record, wire>>
  PROVE  Agreed'
BY DEF Agreed, IssuedTo

----------------------------------------------------------------------------
(* The agents.                                                             *)

\* A record that changes stays a record.
LEMMA SetRecordTypes ==
  ASSUME TypeOK, NEW p \in Parties, NEW t \in Threads, NEW s \in States, SetRecord(p, t, s)
  PROVE  /\ record' \in [Parties -> [Threads -> States]]
         /\ notified' \in [Parties -> SUBSET (Threads \X States)]
         /\ record'[p][t] = s
         /\ \A q \in Parties, u \in Threads : <<q, u>> # <<p, t>> => record'[q][u] = record[q][u]
<1>1. record' = [record EXCEPT ![p][t] = s] /\ record \in [Parties -> [Threads -> States]]
  BY DEF SetRecord, TypeOK
<1>2. notified' \in [Parties -> SUBSET (Threads \X States)]
  <2>1. notified \in [Parties -> SUBSET (Threads \X States)]
    BY DEF TypeOK
  <2>2. CASE setup.backchannel[p] = "credo"
    BY <2>1, <2>2 DEF SetRecord
  <2>3. CASE setup.backchannel[p] # "credo"
    BY <2>1, <2>3 DEF SetRecord
  <2> QED
    BY <2>2, <2>3
<1> QED
  BY <1>1, <1>2

\* The messages that remain still have an issuer who has issued.
LEMMA DeliverI == IInv /\ Deliver => IInv'
<1> SUFFICES ASSUME IInv, Deliver PROVE IInv'
  OBVIOUS
<1>0. TypeOK /\ Agreed /\ Harnessed
  BY DEF IInv
<1>1. PICK m \in wire, a \in Arrivals :
        /\ a.message = m.message
        /\ a.from = record[m.to][m.thread]
        /\ wire' = wire \ {m}
        /\ SetRecord(m.to, m.thread, a.to)
  BY DEF Deliver
<1>2. m.to \in Parties /\ m.thread \in Threads /\ a.to \in States
  BY <1>0, ArrivalFacts DEF TypeOK
<1>3. /\ record' \in [Parties -> [Threads -> States]]
      /\ notified' \in [Parties -> SUBSET (Threads \X States)]
      /\ record'[m.to][m.thread] = a.to
      /\ \A q \in Parties, u \in Threads :
           <<q, u>> # <<m.to, m.thread>> => record'[q][u] = record[q][u]
  BY <1>0, <1>1, <1>2, SetRecordTypes
<1>4. UNCHANGED <<setup, context, at, call, looks, attempt, verdict, late>>
  BY DEF Deliver
<1>5. TypeOK'
  BY <1>0, <1>1, <1>3, <1>4 DEF TypeOK, context
<1>6. Harnessed'
  BY <1>0, <1>4 DEF Harnessed, context, Idle
<1>7. ASSUME NEW t \in Threads, IssuedTo(t) PROVE IssuedTo(t)'
  BY <1>1, <1>2, <1>3, <1>7, ArrivalFacts DEF IssuedTo, Parties
<1>8. \A n \in wire' : n \in wire /\ n.thread \in Threads
  BY <1>0, <1>1 DEF TypeOK
<1>9. ASSUME NEW t \in Threads, record'["holder"][t] \in {"credential-received", "done"}
      PROVE IssuedTo(t)'
  <2>1. CASE m.to = "holder" /\ m.thread = t
    <3>1. a.message \in {"credential", "ack"}
      BY <1>3, <1>9, <2>1, ArrivalFacts
    <3>2. m.message = "credential"
      BY <1>0, <1>1, <2>1, <3>1 DEF Agreed
    <3> QED
      BY <1>0, <1>7, <2>1, <3>2 DEF Agreed
  <2>2. CASE ~(m.to = "holder" /\ m.thread = t)
    BY <1>0, <1>3, <1>7, <1>9, <2>2 DEF Agreed, Parties
  <2> QED
    BY <2>1, <2>2
<1>10. Agreed'
  BY <1>0, <1>7, <1>8, <1>9 DEF Agreed
<1> QED
  BY <1>5, <1>6, <1>10 DEF IInv

\* A webhook changes what the backchannel knows.
LEMMA WebhookI == IInv /\ Webhook => IInv'
<1> SUFFICES ASSUME IInv, Webhook PROVE IInv'
  OBVIOUS
<1>1. UNCHANGED <<setup, record, wire, context, at, call, looks, attempt, verdict, late>>
  BY DEF Webhook
<1>2. notified' \in [Parties -> SUBSET (Threads \X States)]
  BY DEF IInv, TypeOK, Webhook
<1>3. TypeOK' /\ Harnessed'
  BY <1>1, <1>2 DEF IInv, TypeOK, Harnessed, context, Idle
<1> QED
  BY <1>1, <1>3, AgreedKept DEF IInv

\* The agent carries out an operation, and the context learns its thread.
LEMMA PostI == IInv /\ Post => IInv'
<1> SUFFICES ASSUME IInv, Post PROVE IInv'
  OBVIOUS
<1>0. TypeOK /\ Agreed /\ Harnessed /\ call.phase = "post" /\ call # Idle
  BY DEF IInv, Post, Idle
<1> DEFINE p == At(call.op)
<1>1. PICK m \in Moves, t \in Threads :
        /\ Fits(m, t)
        /\ SetRecord(p, t, m.to)
        /\ wire' = wire \cup {[to |-> Other(p), thread |-> t, message |-> m.message]}
        /\ Answered(call.op, t)
  BY DEF Post
<1>2. /\ p \in Parties /\ Other(p) \in Parties /\ p = At(m.op) /\ call.op = m.op
      /\ m.to \in States /\ m.message \in Messages
  BY <1>1, MoveFacts DEF Fits, At, Other, Parties
<1>3. /\ record' \in [Parties -> [Threads -> States]]
      /\ notified' \in [Parties -> SUBSET (Threads \X States)]
      /\ record'[p][t] = m.to
      /\ \A q \in Parties, u \in Threads : <<q, u>> # <<p, t>> => record'[q][u] = record[q][u]
  BY <1>0, <1>1, <1>2, SetRecordTypes
<1>4. UNCHANGED <<setup, looks, attempt, verdict, late>>
  BY DEF Post
<1>5. /\ at \in 1..Len(setup.scenario) /\ Len(setup.scenario) \in Nat
      /\ call.op = "store" => at = Len(setup.scenario)
      /\ call.op \in Operations
  BY <1>0, ScenarioFacts DEF Harnessed, TypeOK
<1>6. \/ call.op = "send-offer" /\ call' = [call EXCEPT !.phase = "look"] /\ at' = at
      \/ call' = Idle /\ at' = at + 1
  BY DEF Post
<1>7. /\ thread' = IF call.op \in {"send-proposal", "send-offer"} THEN t ELSE thread
      /\ credential' = IF call.op = "store" THEN t ELSE credential
      /\ begun' = IF call.thread = NoThread THEN begun \cup {t} ELSE begun
      /\ call.thread # NoThread => t = call.thread /\ t = thread
  BY <1>0, <1>1 DEF Answered, Fits, Harnessed
<1>8. call.thread = NoThread => call.op \in {"send-proposal", "send-offer"}
  BY <1>1, <1>2 DEF Fits, Moves
<1>9. TypeOK'
  <2>1. call' \in [op : Operations \cup {"idle"}, thread : Threads \cup {NoThread},
                   phase : {"none", "post", "wait", "swap", "check", "look"}]
    BY <1>0, <1>6 DEF TypeOK, Idle
  <2>2. at' \in 1..(Len(setup.scenario) + 1)
    BY <1>0, <1>5, <1>6 DEF TypeOK
  <2>3. wire' \subseteq [to : Parties, thread : Threads, message : Messages]
    BY <1>0, <1>1, <1>2 DEF TypeOK
  <2>4. thread' \in Threads \cup {NoThread} /\ credential' \in Threads \cup {NoThread}
        /\ begun' \subseteq Threads
    BY <1>0, <1>7 DEF TypeOK
  <2> QED
    BY <1>0, <1>3, <1>4, <2>1, <2>2, <2>3, <2>4 DEF TypeOK
<1>10. Harnessed'
  <2>1. thread' # NoThread => thread' \in begun'
    BY <1>0, <1>7 DEF Harnessed
  <2>2. verdict' # "running" => call' = Idle
    BY <1>0, <1>4 DEF Harnessed
  <2>3. call' # Idle => at' <= Len(setup'.scenario) /\ call'.op = OperationOf[setup'.scenario[at']]
    BY <1>0, <1>4, <1>6 DEF Harnessed, TypeOK
  <2>4. call'.thread # NoThread => call'.thread = thread'
    BY <1>0, <1>6, <1>7, <1>8 DEF Idle, TypeOK
  <2>5. credential' # NoThread => at' > Len(setup'.scenario) /\ credential' = thread'
    <3>1. CASE call.op = "store"
      BY <1>4, <1>5, <1>6, <1>7, <1>8, <3>1
    <3>2. CASE call.op # "store"
      <4>1. credential = NoThread
        BY <1>0, <1>5 DEF Harnessed
      <4> QED
        BY <1>7, <3>2, <4>1
    <3> QED
      BY <3>1, <3>2
  <2> QED
    BY <2>1, <2>2, <2>3, <2>4, <2>5 DEF Harnessed
<1>11. Agreed'
  <2>1. ASSUME NEW u \in Threads, IssuedTo(u) PROVE IssuedTo(u)'
    <3>1. CASE p = "issuer" /\ u = t
      BY <1>1, <1>2, <2>1, <3>1, MoveFacts DEF Fits, IssuedTo, At
    <3>2. CASE ~(p = "issuer" /\ u = t)
      BY <1>3, <2>1, <3>2 DEF IssuedTo, Parties
    <3> QED
      BY <3>1, <3>2
  <2>2. \A n \in wire' : n \in wire \/ n = [to |-> Other(p), thread |-> t, message |-> m.message]
    BY <1>1
  <2>3. ASSUME NEW n \in wire'
        PROVE n.to = IF n.message \in {"offer", "credential"} THEN "holder" ELSE "issuer"
    BY <1>0, <1>2, <2>2, MoveFacts DEF Agreed, Other, Parties
  <2>4. ASSUME NEW n \in wire', n.message = "credential" PROVE IssuedTo(n.thread)'
    <3>1. CASE n \in wire
      BY <1>0, <2>1, <2>4, <3>1 DEF Agreed, TypeOK
    <3>2. CASE n = [to |-> Other(p), thread |-> t, message |-> m.message]
      BY <1>2, <1>3, <2>4, <3>2, MoveFacts DEF IssuedTo
    <3> QED
      BY <2>2, <3>1, <3>2
  <2>5. ASSUME NEW u \in Threads, record'["holder"][u] \in {"credential-received", "done"}
        PROVE IssuedTo(u)'
    <3>1. CASE p = "holder" /\ u = t
      <4>1. record["holder"][u] = "credential-received"
        BY <1>1, <1>2, <1>3, <2>5, <3>1, MoveFacts DEF Fits, At
      <4> QED
        BY <1>0, <2>1, <4>1 DEF Agreed
    <3>2. CASE ~(p = "holder" /\ u = t)
      BY <1>0, <1>3, <2>1, <2>5, <3>2 DEF Agreed, Parties
    <3> QED
      BY <3>1, <3>2
  <2> QED
    BY <2>3, <2>4, <2>5 DEF Agreed
<1> QED
  BY <1>9, <1>10, <1>11 DEF IInv

----------------------------------------------------------------------------
(* The harness and the waits of the backchannels.                          *)

\* A failing step ends the call.
LEMMA FailI ==
  ASSUME IInv, NEW p, NEW t, FailScenario(p, t)
  PROVE  IInv'
<1>1. UNCHANGED <<setup, record, wire, notified, thread, credential, begun, at, looks, attempt>>
  BY DEF FailScenario, context
<1>2. call' = Idle /\ verdict' = "failed" /\ late' \in BOOLEAN
  BY DEF FailScenario, IInv, TypeOK, UnderWay
<1>3. TypeOK'
  BY <1>1, <1>2 DEF IInv, TypeOK, Idle
<1>4. Harnessed'
  BY <1>1, <1>2 DEF IInv, Harnessed, Idle
<1> QED
  BY <1>1, <1>3, <1>4, AgreedKept DEF IInv

\* Every other step of the harness, and every look of a wait.
LEMMA HarnessI == IInv /\ (Harness \/ Served) => IInv'
<1> SUFFICES ASSUME IInv, Harness \/ Served PROVE IInv'
  OBVIOUS
<1>0. TypeOK /\ Harnessed /\ Agreed
  BY DEF IInv
<1>1. CASE Step
  <2>1. UNCHANGED <<setup, record, wire, notified, thread, credential, begun, at, looks, attempt, verdict>>
    BY <1>1 DEF Step, context
  <2> DEFINE op == OperationOf[setup.scenario[at]]
  <2>2. /\ call'.op = op /\ call'.thread \in {NoThread, thread}
        /\ call' = [op |-> call'.op, thread |-> call'.thread, phase |-> call'.phase]
        /\ call'.phase \in {"post", "wait", "swap"} /\ late' = FALSE
        /\ verdict = "running" /\ at <= Len(setup.scenario)
    BY <1>1 DEF Step, Begins
  <2>3. op \in Operations
    BY <1>0, <2>2, ScenarioFacts DEF TypeOK
  <2>4. TypeOK'
    BY <1>0, <2>1, <2>2, <2>3 DEF TypeOK
  <2>5. Harnessed'
    BY <1>0, <2>1, <2>2 DEF Harnessed
  <2> QED
    BY <1>0, <2>1, <2>4, <2>5, AgreedKept DEF IInv
<1>2. CASE HasCredential
  <2>1. /\ UNCHANGED <<setup, record, wire, notified, thread, credential, begun, at, call, looks, attempt, late>>
        /\ verdict' = "passed" /\ call = Idle
    BY <1>2 DEF HasCredential, context
  <2>2. TypeOK' /\ Harnessed'
    BY <1>0, <2>1 DEF TypeOK, Harnessed, Idle
  <2> QED
    BY <1>0, <2>1, <2>2, AgreedKept DEF IInv
<1>3. CASE Retry
  <2>1. /\ UNCHANGED <<setup, record, wire, notified, call, late>>
        /\ verdict' = "running" /\ verdict = "failed" /\ attempt' = attempt + 1 /\ attempt < MaxAttempts[setup.scenario]
        /\ thread' = NoThread /\ credential' = NoThread /\ begun' = {} /\ at' = 1 /\ looks' = 0
    BY <1>3 DEF Retry
  <2>2. call = Idle
    BY <1>0, <2>1 DEF Harnessed
  <2>3. TypeOK'
    <3>1. setup.scenario \in Scenarios /\ MaxAttempts[setup.scenario] \in Nat /\ StatePolls \in Nat \ {0}
      BY <1>0, IssueCredentialAssumption DEF TypeOK, Setups
    <3>2. attempt' \in 1..MaxAttempts[setup.scenario] /\ looks' \in 0..(StatePolls - 1)
      BY <1>0, <2>1, <3>1 DEF TypeOK
    <3>3. at' \in 1..(Len(setup.scenario) + 1)
      BY <1>0, <2>1, ScenarioFacts
    <3> QED
      BY <1>0, <2>1, <3>2, <3>3 DEF TypeOK
  <2>4. Harnessed'
    BY <2>1, <2>2 DEF Harnessed, Idle
  <2> QED
    BY <1>0, <2>1, <2>3, <2>4, AgreedKept DEF IInv
<1>4. CASE Look
  <2>1. /\ UNCHANGED <<setup, record, wire, notified, thread, credential, begun, attempt, verdict, late>>
        /\ call' = Idle /\ at' = at + 1 /\ looks' = 0 /\ call # Idle
    BY <1>4 DEF Look, context, Idle
  <2>2. at \in 1..Len(setup.scenario) /\ Len(setup.scenario) \in Nat
    BY <1>0, <2>1, ScenarioFacts DEF Harnessed, TypeOK
  <2>3. TypeOK'
    BY <1>0, <2>1, <2>2, IssueCredentialAssumption DEF TypeOK, Idle
  <2>4. Harnessed'
    BY <1>0, <2>1, <2>2 DEF Harnessed, Idle
  <2> QED
    BY <1>0, <2>1, <2>3, <2>4, AgreedKept DEF IInv
<1>5. CASE LookAgain \/ Miss
  <2>1. /\ UNCHANGED <<setup, record, wire, notified, thread, credential, begun, at, call, attempt, verdict>>
        /\ looks' \in {looks, looks + 1} /\ (looks' = looks + 1 => looks + 1 < StatePolls)
        /\ late' \in BOOLEAN
    <3>1. looks \in Nat /\ late \in BOOLEAN
      BY <1>0, IssueCredentialAssumption DEF TypeOK
    <3>2. CASE LookAgain
      BY <3>1, <3>2 DEF LookAgain, context
    <3>3. CASE Miss
      BY <3>1, <3>3 DEF Miss, context
    <3> QED
      BY <1>5, <3>2, <3>3
  <2>2. TypeOK'
    <3>1. looks' \in 0..(StatePolls - 1)
      BY <1>0, <2>1, IssueCredentialAssumption DEF TypeOK
    <3> QED
      BY <1>0, <2>1, <3>1 DEF TypeOK
  <2>3. Harnessed'
    BY <1>0, <2>1 DEF Harnessed, Idle
  <2> QED
    BY <1>0, <2>1, <2>2, <2>3, AgreedKept DEF IInv
<1>6. CASE Proceed
  <2>1. /\ UNCHANGED <<setup, record, wire, notified, thread, credential, begun, at, looks, attempt, verdict, late>>
        /\ call' = [call EXCEPT !.phase = Then] /\ Then \in {"check", "post"}
        /\ call.phase \in {"wait", "swap", "check"}
    BY <1>6 DEF Proceed, context, Then
  <2>2. TypeOK'
    BY <1>0, <2>1 DEF TypeOK
  <2>3. call'.op = call.op /\ call'.thread = call.thread /\ call # Idle
    BY <1>0, <2>1 DEF TypeOK, Idle
  <2>4. Harnessed'
    BY <1>0, <2>1, <2>3 DEF Harnessed
  <2> QED
    BY <1>0, <2>1, <2>2, <2>4, AgreedKept DEF IInv
<1>7. CASE LookFails \/ GiveUp \/ Refused
  <2>1. PICK p, t : FailScenario(p, t)
    BY <1>7 DEF LookFails, GiveUp, Refused
  <2> QED
    BY <2>1, FailI
<1>8. CASE Post
  BY <1>8, PostI
<1> QED
  BY <1>1, <1>2, <1>3, <1>4, <1>5, <1>6, <1>7, <1>8 DEF Harness, Served

LEMMA StepI == IInv /\ [Next]_vars => IInv'
<1> SUFFICES ASSUME IInv, [Next]_vars PROVE IInv'
  OBVIOUS
<1>1. CASE UNCHANGED vars
  <2>1. TypeOK' /\ Harnessed'
    BY <1>1 DEF vars, IInv, TypeOK, Harnessed, Idle
  <2> QED
    BY <1>1, <2>1, AgreedKept DEF vars, IInv
<1> QED
  BY <1>1, DeliverI, WebhookI, HarnessI DEF Next

LEMMA InvariantI == Spec => []IInv
  BY InitI, StepI, PTL DEF Spec

----------------------------------------------------------------------------
\* Every variable keeps its type, for any scenarios and any number of attempts.
THEOREM IssueTypes == Spec => []TypeOK
<1>1. IInv => TypeOK
  BY DEF IInv
<1> QED
  BY <1>1, InvariantI, PTL

\* No call of an attempt names an exchange of an earlier one.
THEOREM CallsOfThisAttempt == Spec => []OnlyThisAttempt
<1>1. IInv => OnlyThisAttempt
  BY DEF IInv, Harnessed, OnlyThisAttempt
<1> QED
  BY <1>1, InvariantI, PTL

\* What a passing verdict rests on: the credential stored last is still the holder's.
Done == verdict = "passed" => credential # NoThread /\ record["holder"][credential] = "done"

LEMMA DoneI == IInv /\ Done /\ [Next]_vars => Done'
<1> SUFFICES ASSUME IInv, Done, [Next]_vars, verdict' = "passed"
             PROVE  credential' # NoThread /\ record'["holder"][credential'] = "done"
  BY DEF Done
<1>0. TypeOK /\ Harnessed /\ Agreed
  BY DEF IInv
<1>1. CASE Deliver
  <2>1. UNCHANGED <<credential, verdict>>
    BY <1>1 DEF Deliver, context
  <2>2. PICK m \in wire, a \in Arrivals :
          /\ a.message = m.message /\ a.from = record[m.to][m.thread]
          /\ SetRecord(m.to, m.thread, a.to)
    BY <1>1 DEF Deliver
  <2>3. /\ m.to \in Parties /\ m.thread \in Threads /\ a.to \in States
        /\ credential \in Threads /\ "holder" \in Parties
    BY <1>0, <2>1, ArrivalFacts DEF TypeOK, Parties, Done
  <2>4. a.from # "done"
    BY DEF Arrivals
  <2>5. <<"holder", credential>> # <<m.to, m.thread>>
    BY <2>1, <2>2, <2>4 DEF Done
  <2>6. record'["holder"][credential] = record["holder"][credential]
    BY <1>0, <2>2, <2>3, <2>5, SetRecordTypes
  <2> QED
    BY <2>1, <2>6 DEF Done
<1>2. CASE HasCredential
  BY <1>2 DEF HasCredential, context
<1>3. CASE Webhook \/ UNCHANGED vars
  BY <1>3 DEF Webhook, Done, vars, context
<1>4. CASE Step \/ Retry \/ Look \/ LookAgain \/ Proceed \/ Miss \/ Post
  <2>1. verdict' # "passed"
    <3>1. CASE Step \/ Retry
      BY <1>4, <3>1 DEF Step, Retry
    <3>2. CASE Look \/ LookAgain \/ Proceed \/ Miss \/ Post
      <4>1. call # Idle /\ verdict' = verdict
        BY <3>2 DEF Look, LookAgain, Proceed, Miss, Post, Idle
      <4> QED
        BY <1>0, <4>1 DEF Harnessed
    <3> QED
      BY <1>4, <3>1, <3>2
  <2> QED
    BY <2>1
<1>5. CASE LookFails \/ GiveUp \/ Refused
  BY <1>5 DEF LookFails, GiveUp, Refused, FailScenario
<1> QED
  BY <1>1, <1>2, <1>3, <1>4, <1>5 DEF Next, Harness, Served

\* A scenario that passes has had the credential of its own attempt issued and stored.
THEOREM PassedWasIssued == Spec => []PassMeansIssued
<1>1. Init => Done
  BY DEF Init, Done
<1>2. IInv /\ Done => PassMeansIssued
  <2> SUFFICES ASSUME IInv, Done, verdict = "passed"
               PROVE  /\ thread \in begun /\ credential = thread
                      /\ record["holder"][thread] = "done"
                      /\ record["issuer"][thread] \in {"credential-issued", "done"}
    BY DEF PassMeansIssued
  <2>1. credential = thread /\ thread \in begun /\ thread \in Threads
    BY DEF IInv, Harnessed, Done, TypeOK
  <2> QED
    BY <2>1 DEF IInv, Agreed, IssuedTo, Done
<1> QED
  BY <1>1, <1>2, InvariantI, DoneI, PTL DEF Spec

----------------------------------------------------------------------------
(* IssueCredential implements Issuance.                                    *)

H(t) == record["holder"][t]
I(t) == record["issuer"][t]

\* The pairs of states holder and issuer can be in, and the one message that can be
\* under way in such a pair.
Talks(h, i) ==
  \/ h = "none" /\ i \in {"none", "offer-sent"}
  \/ h = "proposal-sent" /\ i \in {"none", "proposal-received", "offer-sent"}
  \/ h = "offer-received" /\ i = "offer-sent"
  \/ h = "request-sent" /\ i \in {"offer-sent", "request-received", "credential-issued"}
  \/ h = "credential-received" /\ i = "credential-issued"
  \/ h = "done" /\ i \in {"credential-issued", "done"}

Speaks(message, h, i) ==
  \/ message = "proposal" /\ h = "proposal-sent" /\ i = "none"
  \/ message = "offer" /\ h \in {"none", "proposal-sent"} /\ i = "offer-sent"
  \/ message = "request" /\ h = "request-sent" /\ i = "offer-sent"
  \/ message = "credential" /\ h = "request-sent" /\ i = "credential-issued"
  \/ message = "ack" /\ h = "done" /\ i = "credential-issued"

Conversation ==
  /\ \A t \in Threads : Talks(H(t), I(t))
  /\ \A m \in wire : Speaks(m.message, H(m.thread), I(m.thread))

\* How far an exchange is, from the states of its two records.
StageOf(h, i) ==
  IF h = "done" THEN 5
  ELSE IF i \in {"credential-issued", "done"} THEN 4
  ELSE IF h \in {"request-sent", "credential-received"} THEN 3
  ELSE IF i \in {"offer-sent", "request-received"} THEN 2
  ELSE IF h = "proposal-sent" THEN 1 ELSE 0

LEMMA StageIs == \A t \in Threads : Stage(t) = StageOf(H(t), I(t))
  BY DEF Stage, StageOf, H, I

\* A message that arrives leaves the pair in conversation, at the same stage, with
\* nothing more to be said.
LEMMA HearsH ==
  ASSUME NEW a \in Arrivals, NEW h, NEW i, Speaks(a.message, h, i),
         a.message \in {"offer", "credential"}, a.from = h
  PROVE  Talks(a.to, i) /\ StageOf(a.to, i) = StageOf(h, i) /\ \A s : ~Speaks(s, a.to, i)
BY DEF Arrivals, Speaks, Talks, StageOf

LEMMA HearsI ==
  ASSUME NEW a \in Arrivals, NEW h, NEW i, Speaks(a.message, h, i),
         a.message \notin {"offer", "credential"}, a.from = i
  PROVE  Talks(h, a.to) /\ StageOf(h, a.to) = StageOf(h, i) /\ \A s : ~Speaks(s, h, a.to)
BY DEF Arrivals, Speaks, Talks, StageOf

\* An operation leaves the pair in conversation, one stage further, with its message
\* the only one under way.
LEMMA ActsH ==
  ASSUME NEW m \in Moves, NEW h, NEW i, Talks(h, i), At(m.op) = "holder", m.from = h,
         h = "none" => i = "none"
  PROVE  /\ Talks(m.to, i) /\ Speaks(m.message, m.to, i)
         /\ \A s : ~Speaks(s, h, i)
         /\ IF h = "none" THEN StageOf(h, i) = 0 /\ StageOf(m.to, i) = 1
            ELSE StageOf(h, i) \in 1..4 /\ StageOf(m.to, i) = StageOf(h, i) + 1
BY DEF Moves, At, Speaks, Talks, StageOf

LEMMA ActsI ==
  ASSUME NEW m \in Moves, NEW h, NEW i, Talks(h, i), At(m.op) = "issuer", m.from = i,
         i = "none" => h = "none"
  PROVE  /\ Talks(h, m.to) /\ Speaks(m.message, h, m.to)
         /\ \A s : ~Speaks(s, h, i)
         /\ IF i = "none" THEN StageOf(h, i) = 0 /\ StageOf(h, m.to) = 2
            ELSE StageOf(h, i) \in 1..4 /\ StageOf(h, m.to) = StageOf(h, i) + 1
BY DEF Moves, At, Speaks, Talks, StageOf

AbstractStep == Abstract!Next \/ UNCHANGED Abstract!vars

\* No record changes: no stage does.
LEMMA SameStages ==
  ASSUME UNCHANGED record
  PROVE  /\ [t \in Threads |-> Stage(t)]' = [t \in Threads |-> Stage(t)]
         /\ \A t \in Threads : H(t)' = H(t) /\ I(t)' = I(t)
BY DEF Stage, H, I

\* The record a message arrives at, and the others.
LEMMA DeliverFacts ==
  ASSUME IInv, Conversation, NEW m \in wire, NEW a \in Arrivals, a.message = m.message,
         a.from = record[m.to][m.thread], SetRecord(m.to, m.thread, a.to)
  PROVE  /\ m.thread \in Threads
         /\ Talks(H(m.thread)', I(m.thread)')
         /\ StageOf(H(m.thread)', I(m.thread)') = StageOf(H(m.thread), I(m.thread))
         /\ \A s : ~Speaks(s, H(m.thread)', I(m.thread)')
         /\ \A u \in Threads : u # m.thread => H(u)' = H(u) /\ I(u)' = I(u)
<1>0. TypeOK /\ Agreed
  BY DEF IInv
<1> DEFINE t == m.thread
<1>2. m.to \in Parties /\ t \in Threads /\ a.to \in States
  BY <1>0, ArrivalFacts DEF TypeOK
<1>3. /\ record'[m.to][t] = a.to
      /\ \A q \in Parties, u \in Threads : <<q, u>> # <<m.to, t>> => record'[q][u] = record[q][u]
  BY <1>0, <1>2, SetRecordTypes
<1>4. Speaks(a.message, H(t), I(t))
  BY DEF Conversation
<1>5. CASE a.message \in {"offer", "credential"}
  <2>1. m.to = "holder" /\ a.from = H(t)
    BY <1>0, <1>5 DEF Agreed, H
  <2>2. H(t)' = a.to /\ I(t)' = I(t)
    BY <1>2, <1>3, <2>1 DEF H, I, Parties
  <2>3. \A u \in Threads : u # t => H(u)' = H(u) /\ I(u)' = I(u)
    BY <1>2, <1>3 DEF H, I, Parties
  <2> QED
    BY <1>2, <1>4, <1>5, <2>1, <2>2, <2>3, HearsH
<1>6. CASE a.message \notin {"offer", "credential"}
  <2>1. m.to = "issuer" /\ a.from = I(t)
    BY <1>0, <1>6 DEF Agreed, I
  <2>2. I(t)' = a.to /\ H(t)' = H(t)
    BY <1>2, <1>3, <2>1 DEF H, I, Parties
  <2>3. \A u \in Threads : u # t => H(u)' = H(u) /\ I(u)' = I(u)
    BY <1>2, <1>3 DEF H, I, Parties
  <2> QED
    BY <1>2, <1>4, <1>6, <2>1, <2>2, <2>3, HearsI
<1> QED
  BY <1>5, <1>6

\* A message that arrives is a stutter of Issuance.
LEMMA DeliverR == IInv /\ Conversation /\ Deliver => Conversation' /\ UNCHANGED Abstract!vars
<1> SUFFICES ASSUME IInv, Conversation, Deliver PROVE Conversation' /\ UNCHANGED Abstract!vars
  OBVIOUS
<1>0. TypeOK /\ Agreed
  BY DEF IInv
<1>1. PICK m \in wire, a \in Arrivals :
        /\ a.message = m.message
        /\ a.from = record[m.to][m.thread]
        /\ wire' = wire \ {m}
        /\ SetRecord(m.to, m.thread, a.to)
  BY DEF Deliver
<1> DEFINE t == m.thread
<1>4. Speaks(m.message, H(t), I(t))
  BY DEF Conversation
<1>5. /\ Talks(H(t)', I(t)') /\ StageOf(H(t)', I(t)') = StageOf(H(t), I(t))
      /\ \A s : ~Speaks(s, H(t)', I(t)')
      /\ \A u \in Threads : u # t => H(u)' = H(u) /\ I(u)' = I(u)
  BY <1>1, DeliverFacts
<1>6. ASSUME NEW u \in Threads, u # t PROVE H(u)' = H(u) /\ I(u)' = I(u)
  BY <1>5, <1>6
<1>7. \A u \in Threads : Talks(H(u)', I(u)')
  BY <1>5, <1>6 DEF Conversation
<1>8. ASSUME NEW n \in wire' PROVE Speaks(n.message, H(n.thread)', I(n.thread)')
  <2>1. n \in wire /\ n # m /\ n.thread \in Threads
    BY <1>0, <1>1, <1>8 DEF TypeOK
  <2>2. n.thread # t
    <3> SUFFICES ASSUME n.thread = t PROVE FALSE
      OBVIOUS
    <3>1. Speaks(n.message, H(t), I(t)) /\ Speaks(m.message, H(t), I(t))
      BY <2>1, <1>1, <1>4 DEF Conversation
    <3>2. n.message = m.message
      BY <3>1 DEF Speaks
    <3>3. n.to = m.to
      BY <1>0, <2>1, <3>2 DEF Agreed
    <3>4. m = [to |-> m.to, thread |-> m.thread, message |-> m.message]
          /\ n = [to |-> n.to, thread |-> n.thread, message |-> n.message]
      BY <1>0, <2>1 DEF TypeOK
    <3> QED
      BY <2>1, <3>2, <3>3, <3>4
  <2> QED
    BY <1>6, <2>1, <2>2 DEF Conversation
<1>9. \A u \in Threads : Stage(u)' = Stage(u)
  <2>1. ASSUME NEW u \in Threads PROVE StageOf(H(u)', I(u)') = StageOf(H(u), I(u))
    BY <1>5, <1>6
  <2>2. \A u \in Threads : Stage(u)' = StageOf(H(u)', I(u)')
    BY DEF Stage, StageOf, H, I
  <2> QED
    BY <2>1, <2>2, StageIs
<1>10. thread' = thread /\ verdict' = verdict
  BY DEF Deliver, context
<1> QED
  BY <1>7, <1>8, <1>9, <1>10 DEF Conversation, Abstract!vars

\* The record an operation moves, and the others.
LEMMA PostFacts ==
  ASSUME IInv, Conversation, call.phase = "post", NEW m \in Moves, NEW t \in Threads,
         Fits(m, t), SetRecord(At(call.op), t, m.to)
  PROVE  /\ call.op = m.op
         /\ call.thread = NoThread => H(t) = "none" /\ I(t) = "none" /\ m.from = "none"
         /\ call.thread # NoThread => t = thread /\ t = call.thread /\ m.from # "none"
         /\ Talks(H(t)', I(t)') /\ Speaks(m.message, H(t)', I(t)')
         /\ \A s : ~Speaks(s, H(t), I(t))
         /\ IF m.from = "none"
            THEN /\ StageOf(H(t), I(t)) = 0
                 /\ StageOf(H(t)', I(t)') = IF m.op = "send-offer" THEN 2 ELSE 1
            ELSE StageOf(H(t), I(t)) \in 1..4 /\ StageOf(H(t)', I(t)') = StageOf(H(t), I(t)) + 1
         /\ \A u \in Threads : u # t => H(u)' = H(u) /\ I(u)' = I(u)
<1>0. TypeOK /\ Agreed /\ Harnessed
  BY DEF IInv
<1> DEFINE p == At(call.op)
<1>2. p \in Parties /\ p = At(m.op) /\ call.op = m.op /\ m.to \in States
  BY MoveFacts DEF Fits, At, Parties
<1>3. /\ record'[p][t] = m.to
      /\ \A q \in Parties, u \in Threads : <<q, u>> # <<p, t>> => record'[q][u] = record[q][u]
  BY <1>0, <1>2, SetRecordTypes
<1>4. /\ m.from = record[p][t]
      /\ call.thread = NoThread => H(t) = "none" /\ I(t) = "none" /\ m.from = "none"
      /\ call.thread # NoThread => t = thread /\ t = call.thread /\ m.from # "none"
  BY <1>0, <1>2 DEF Fits, Fresh, Harnessed, H, I, Parties
<1>5. m.from = "none" => m.op = IF p = "issuer" THEN "send-offer" ELSE "send-proposal"
  BY <1>2 DEF Moves, At
<1>6. /\ Talks(H(t)', I(t)') /\ Speaks(m.message, H(t)', I(t)')
      /\ \A s : ~Speaks(s, H(t), I(t))
      /\ IF m.from = "none"
         THEN /\ StageOf(H(t), I(t)) = 0
              /\ StageOf(H(t)', I(t)') = IF m.op = "send-offer" THEN 2 ELSE 1
         ELSE StageOf(H(t), I(t)) \in 1..4 /\ StageOf(H(t)', I(t)') = StageOf(H(t), I(t)) + 1
  <2>1. CASE p = "holder"
    <3>1. H(t)' = m.to /\ I(t)' = I(t) /\ m.from = H(t) /\ Talks(H(t), I(t))
      BY <1>2, <1>3, <1>4, <2>1 DEF H, I, Parties, Conversation
    <3>2. H(t) = "none" => I(t) = "none"
      BY <1>4, <3>1
    <3> QED
      BY <1>2, <1>5, <2>1, <3>1, <3>2, ActsH
  <2>2. CASE p = "issuer"
    <3>1. I(t)' = m.to /\ H(t)' = H(t) /\ m.from = I(t) /\ Talks(H(t), I(t))
      BY <1>2, <1>3, <1>4, <2>2 DEF H, I, Parties, Conversation
    <3>2. I(t) = "none" => H(t) = "none"
      BY <1>4, <3>1
    <3> QED
      BY <1>2, <1>5, <2>2, <3>1, <3>2, ActsI
  <2> QED
    BY <1>2, <2>1, <2>2 DEF Parties
<1>7. ASSUME NEW u \in Threads, u # t PROVE H(u)' = H(u) /\ I(u)' = I(u)
  BY <1>2, <1>3, <1>7 DEF H, I, Parties
<1> QED
  BY <1>2, <1>4, <1>6, <1>7

\* An operation begins an exchange or advances the one the scenario works on.
LEMMA PostR == IInv /\ Conversation /\ Post => Conversation' /\ Abstract!Next
<1> SUFFICES ASSUME IInv, Conversation, Post PROVE Conversation' /\ Abstract!Next
  OBVIOUS
<1>0. TypeOK /\ Agreed /\ Harnessed /\ call # Idle
  BY DEF IInv, Post, Idle
<1> DEFINE p == At(call.op)
<1>1. PICK m \in Moves, t \in Threads :
        /\ Fits(m, t)
        /\ SetRecord(p, t, m.to)
        /\ wire' = wire \cup {[to |-> Other(p), thread |-> t, message |-> m.message]}
        /\ Answered(call.op, t)
  BY DEF Post
<1>2. /\ call.op = m.op
      /\ call.thread = NoThread => m.from = "none"
      /\ call.thread # NoThread => t = thread /\ t = call.thread /\ m.from # "none"
      /\ Talks(H(t)', I(t)') /\ Speaks(m.message, H(t)', I(t)')
      /\ \A s : ~Speaks(s, H(t), I(t))
      /\ \A u \in Threads : u # t => H(u)' = H(u) /\ I(u)' = I(u)
  BY <1>1, PostFacts DEF Post
<1>5. IF m.from = "none"
      THEN StageOf(H(t), I(t)) = 0 /\ StageOf(H(t)', I(t)') \in {1, 2}
      ELSE StageOf(H(t), I(t)) \in 1..4 /\ StageOf(H(t)', I(t)') = StageOf(H(t), I(t)) + 1
  BY <1>1, PostFacts DEF Post
<1>6. ASSUME NEW u \in Threads, u # t PROVE H(u)' = H(u) /\ I(u)' = I(u)
  BY <1>2, <1>6
<1>7. \A u \in Threads : Talks(H(u)', I(u)')
  BY <1>2, <1>6 DEF Conversation
<1>8. ASSUME NEW n \in wire' PROVE Speaks(n.message, H(n.thread)', I(n.thread)')
  <2>1. CASE n = [to |-> Other(p), thread |-> t, message |-> m.message]
    BY <1>2, <2>1
  <2>2. CASE n \in wire
    <3>1. n.thread \in Threads /\ Speaks(n.message, H(n.thread), I(n.thread))
      BY <1>0, <2>2 DEF TypeOK, Conversation
    <3>2. n.thread # t
      BY <1>2, <3>1
    <3> QED
      BY <1>6, <3>1, <3>2
  <2> QED
    BY <1>1, <1>8, <2>1, <2>2
<1>9. Conversation'
  BY <1>7, <1>8 DEF Conversation
<1> DEFINE stage == [u \in Threads |-> Stage(u)]
<1>10. /\ stage[t] = StageOf(H(t), I(t)) /\ stage'[t] = StageOf(H(t)', I(t)')
       /\ \A u \in Threads : u # t => stage'[u] = stage[u]
  <2>1. \A u \in Threads : Stage(u)' = StageOf(H(u)', I(u)')
    BY DEF Stage, StageOf, H, I
  <2> QED
    BY <1>6, <2>1, StageIs
<1>11. verdict = "running" /\ verdict' = "running"
  BY <1>0 DEF Harnessed, Post
<1>12. CASE m.from = "none"
  <2>1. call.thread = NoThread
    BY <1>2, <1>12
  <2>2. thread' = t
    BY <1>1, <1>2, <1>12 DEF Answered, Moves
  <2>3. stage' = [stage EXCEPT ![t] = stage'[t]] /\ stage'[t] \in {1, 2} /\ stage[t] = 0
    BY <1>5, <1>10, <1>12
  <2>4. Abstract!Start(t)
    BY <1>11, <2>2, <2>3 DEF Abstract!Start
  <2> QED
    BY <1>9, <2>4 DEF Abstract!Next
<1>13. CASE m.from # "none"
  <2>1. t = thread /\ thread' = thread /\ thread # NoThread
    <3>1. call.thread # NoThread
      BY <1>2, <1>13
    <3> QED
      BY <1>1, <1>2, <3>1 DEF Answered
  <2>2. stage' = [stage EXCEPT ![t] = stage[t] + 1] /\ stage[t] \in 1..4
    BY <1>5, <1>10, <1>13
  <2>3. Abstract!Advance
    BY <1>11, <2>1, <2>2 DEF Abstract!Advance
  <2> QED
    BY <1>9, <2>3 DEF Abstract!Next
<1> QED
  BY <1>12, <1>13

\* A step that leaves records and messages alone leaves the conversations alone.
LEMMA SilentR ==
  ASSUME IInv, Conversation, UNCHANGED <<record, wire>>
  PROVE  Conversation'
<1>1. \A m \in wire : m.thread \in Threads
  BY DEF IInv, TypeOK
<1> QED
  BY <1>1, SameStages DEF Conversation

\* Everything else is a stutter, a verdict or a new attempt.
LEMMA HarnessR ==
  IInv /\ Conversation /\ (Harness \/ Served) => Conversation' /\ AbstractStep
<1> SUFFICES ASSUME IInv, Conversation, Harness \/ Served PROVE Conversation' /\ AbstractStep
  OBVIOUS
<1>0. Harnessed /\ TypeOK
  BY DEF IInv
<1>1. CASE Post
  BY <1>1, PostR DEF AbstractStep
<1>2. CASE Step \/ Look \/ LookAgain \/ Proceed \/ Miss
  <2>1. UNCHANGED <<record, wire, thread, verdict>>
    BY <1>2 DEF Step, Look, LookAgain, Proceed, Miss, context
  <2> QED
    BY <2>1, SilentR, SameStages DEF AbstractStep, Abstract!vars
<1>3. CASE LookFails \/ GiveUp \/ Refused
  <2>1. UNCHANGED <<record, wire, thread>> /\ verdict' = "failed"
    BY <1>3 DEF LookFails, GiveUp, Refused, FailScenario, context
  <2>2. verdict = "running"
    <3>1. call # Idle
      BY <1>3 DEF LookFails, GiveUp, Refused, Idle
    <3> QED
      BY <1>0, <3>1 DEF Harnessed
  <2>3. Abstract!Fail
    BY <2>1, <2>2, SameStages DEF Abstract!Fail
  <2> QED
    BY <2>1, <2>3, SilentR DEF AbstractStep, Abstract!Next
<1>4. CASE HasCredential
  <2>1. UNCHANGED <<record, wire, thread, credential>> /\ verdict = "running" /\ verdict' = "passed"
    BY <1>4 DEF HasCredential, context
  <2>2. thread # NoThread /\ thread \in Threads /\ record["holder"][thread] = "done"
    BY <1>0, <1>4 DEF HasCredential, Harnessed, TypeOK
  <2>3. [t \in Threads |-> Stage(t)][thread] = 5
    BY <2>2 DEF Stage
  <2>4. Abstract!Pass
    BY <2>1, <2>2, <2>3, SameStages DEF Abstract!Pass
  <2> QED
    BY <2>1, <2>4, SilentR DEF AbstractStep, Abstract!Next
<1>5. CASE Retry
  <2>1. UNCHANGED <<record, wire>> /\ verdict = "failed" /\ verdict' = "running" /\ thread' = NoThread
    BY <1>5 DEF Retry
  <2>2. Abstract!Retry
    BY <2>1, SameStages DEF Abstract!Retry
  <2> QED
    BY <2>1, <2>2, SilentR DEF AbstractStep, Abstract!Next
<1> QED
  BY <1>1, <1>2, <1>3, <1>4, <1>5 DEF Harness, Served

LEMMA NextR == IInv /\ Conversation /\ [Next]_vars => Conversation' /\ AbstractStep
<1> SUFFICES ASSUME IInv, Conversation, [Next]_vars PROVE Conversation' /\ AbstractStep
  OBVIOUS
<1>1. CASE Deliver
  BY <1>1, DeliverR DEF AbstractStep
<1>2. CASE Webhook \/ UNCHANGED vars
  <2>1. UNCHANGED <<record, wire, thread, verdict>>
    BY <1>2 DEF Webhook, vars, context
  <2> QED
    BY <2>1, SilentR, SameStages DEF AbstractStep, Abstract!vars
<1> QED
  BY <1>1, <1>2, HarnessR DEF Next

LEMMA InitR == Init => Conversation /\ Abstract!Init
<1> SUFFICES ASSUME Init PROVE Conversation /\ Abstract!Init
  OBVIOUS
<1>1. \A t \in Threads : H(t) = "none" /\ I(t) = "none" /\ Stage(t) = 0
  BY DEF Init, H, I, Stage, Parties
<1> QED
  BY <1>1 DEF Init, Conversation, Talks, Abstract!Init

\* The safety half of IssuanceSpec: harness, backchannels and agents together do what
\* Issuance promises of a scenario, step by step.
THEOREM KeepsThePromises == Spec => Abstract!Init /\ [][Abstract!Next]_(Abstract!vars)
<1>1. Init => Conversation /\ Abstract!Init
  BY InitR
<1>2. IInv /\ Conversation /\ [Next]_vars => Conversation' /\ [Abstract!Next]_(Abstract!vars)
  BY NextR DEF AbstractStep
<1> QED
  BY <1>1, <1>2, InvariantI, PTL DEF Spec

----------------------------------------------------------------------------
(* A scenario fails only when something is late, and Credo posts in state. *)

\* The stage an operation needs, and the states of a record that has had it.
Need(op) ==
  CASE op = "send-offer" -> 1
    [] op = "send-request" -> 2
    [] op = "issue" -> 3
    [] op = "store" -> 4
    [] OTHER -> 0

Beyond(op) ==
  CASE op = "send-offer" -> {"offer-sent", "request-received", "credential-issued", "done"}
    [] op = "send-request" -> {"request-sent", "credential-received", "done"}
    [] op = "issue" -> {"credential-issued", "done"}
    [] op = "store" -> {"done"}
    [] OTHER -> {}

Receiver(message) == IF message \in {"offer", "credential"} THEN "holder" ELSE "issuer"

\* The converse of Conversation: what has been said and not heard is under way.
Heard ==
  \A t \in Threads, x \in Messages :
    Speaks(x, H(t), I(t)) => [to |-> Receiver(x), thread |-> t, message |-> x] \in wire

\* Credo's events: that of the record's state is there, and a state of which an event
\* is there is the record's, or its operation is over.
Told ==
  \A p \in Parties, t \in Threads :
    setup.backchannel[p] = "credo" /\ record[p][t] # "none" => <<t, record[p][t]>> \in notified[p]

Known ==
  \A op \in Operations, t \in Threads : \A s \in Awaited(op) :
    <<t, s>> \in notified[At(op)] => record[At(op)][t] \in {s} \cup Beyond(op)

\* The exchange of the context has come as far as the step needs.
Turn ==
  verdict = "running" =>
    /\ thread = NoThread => at = 1
    /\ call.phase = "look" => thread # NoThread /\ StageOf(H(thread), I(thread)) = 2
    /\ /\ thread # NoThread /\ call.phase # "look"
       /\ at <= Len(setup.scenario) /\ setup.scenario[at] # "propose"
       => StageOf(H(thread), I(thread)) = Need(OperationOf[setup.scenario[at]])

\* What the phase of a call says.
Waited ==
  /\ call.op = "send-proposal" => call.thread = NoThread
  /\ call.phase = "look" => call.op = "send-offer"
  /\ call.phase \in {"wait", "swap", "check"} => call.thread # NoThread
  /\ call.phase = "wait" => setup.backchannel[At(call.op)] = "credo"
  /\ call.phase \in {"swap", "check"} => setup.backchannel[At(call.op)] = "acapy"
  /\ call.phase = "check" => call.op = "issue"
  /\ call.phase = "post" /\ call.thread # NoThread /\ setup.backchannel[At(call.op)] = "credo"
       => record[At(call.op)][call.thread] \in Awaited(call.op)

InState == Conversation /\ Heard /\ Told /\ Known /\ Turn /\ Waited /\ FailsOnlyWhenLate

\* Nothing arrives at a record in an awaited state; what is over stays over.
LEMMA ArrivalsInState ==
  ASSUME NEW a \in Arrivals, NEW op \in Operations,
         a.message \in {"offer", "credential"} <=> At(op) = "holder"
  PROVE  /\ a.from \notin Awaited(op)
         /\ a.from \in Beyond(op) <=> a.to \in Beyond(op)
BY DEF Arrivals, Operations, Awaited, Beyond, At

\* An operation moves a record on from the state it waits for, and no other does.
LEMMA MovesInState ==
  ASSUME NEW m \in Moves, NEW op \in Operations, At(m.op) = At(op)
  PROVE  /\ m.from \in Awaited(op) => m.op = op
         /\ m.from \in Beyond(op) => m.to \in Beyond(op)
         /\ m.op = op /\ op # "send-proposal" => m.to \in Beyond(op)
BY DEF Moves, Operations, Awaited, Beyond, At

\* In the stage an operation needs, its record is in the awaited state or has a message
\* still to hear, and the operation is not over.
LEMMA NeedFacts ==
  ASSUME NEW op \in Operations, op # "send-proposal", NEW h, NEW i, Talks(h, i),
         StageOf(h, i) = Need(op), NEW r, r = IF At(op) = "holder" THEN h ELSE i
  PROVE  /\ r \notin Beyond(op)
         /\ r \in Awaited(op) \/ \E x \in Messages : Receiver(x) = At(op) /\ Speaks(x, h, i)
<1>1. CASE op = "send-offer"
  BY <1>1 DEF Talks, StageOf, Need, At, Beyond, Awaited, Messages, Receiver, Speaks
<1>2. CASE op = "send-request"
  BY <1>2 DEF Talks, StageOf, Need, At, Beyond, Awaited, Messages, Receiver, Speaks
<1>3. CASE op = "issue"
  BY <1>3 DEF Talks, StageOf, Need, At, Beyond, Awaited, Messages, Receiver, Speaks
<1>4. CASE op = "store"
  BY <1>4 DEF Talks, StageOf, Need, At, Beyond, Awaited, Messages, Receiver, Speaks
<1> QED
  BY <1>1, <1>2, <1>3, <1>4 DEF Operations

\* A call is of the step the scenario is at.
LEMMA CallFacts ==
  ASSUME IInv, call # Idle
  PROVE  /\ call.op = OperationOf[setup.scenario[at]] /\ call.op \in Operations
         /\ at \in 1..Len(setup.scenario) /\ Len(setup.scenario) \in Nat /\ verdict = "running"
         /\ call.op = "send-proposal" <=> setup.scenario[at] = "propose"
         /\ call.thread # NoThread => call.thread = thread /\ thread \in Threads
<1>1. at \in 1..Len(setup.scenario) /\ Len(setup.scenario) \in Nat
  BY ScenarioFacts DEF IInv, Harnessed, TypeOK
<1>2. call.op = OperationOf[setup.scenario[at]] /\ call.op \in Operations
      /\ setup.scenario[at] \in {"propose", "offer", "request", "issue", "store"}
  BY <1>1, ScenarioFacts DEF IInv, Harnessed
<1>3. call.op = "send-proposal" <=> setup.scenario[at] = "propose"
  BY <1>2 DEF OperationOf
<1> QED
  BY <1>1, <1>2, <1>3 DEF IInv, Harnessed, TypeOK

\* What follows the move of a record: what is known of it still holds.
LEMMA KnownKept ==
  ASSUME TypeOK, Known, NEW p \in Parties, NEW t \in Threads, NEW s \in States, SetRecord(p, t, s),
         \A op \in Operations :
           At(op) = p /\ record[p][t] \in Awaited(op) \cup Beyond(op) => s \in Beyond(op)
  PROVE  Known'
<1> SUFFICES ASSUME NEW op \in Operations, NEW u \in Threads, NEW x \in Awaited(op),
                    <<u, x>> \in notified'[At(op)]
             PROVE  record'[At(op)][u] \in {x} \cup Beyond(op)
  BY DEF Known
<1>0. At(op) \in Parties
  BY DEF At, Parties
<1>1. /\ record'[p][t] = s
      /\ \A q \in Parties, v \in Threads : <<q, v>> # <<p, t>> => record'[q][v] = record[q][v]
  BY SetRecordTypes
<1>2. <<u, x>> \in notified[At(op)] \/ (At(op) = p /\ u = t /\ x = s)
  BY <1>0 DEF SetRecord, TypeOK
<1>3. CASE <<u, x>> \in notified[At(op)]
  <2>1. record[At(op)][u] \in {x} \cup Beyond(op)
    BY <1>3 DEF Known
  <2>2. CASE At(op) = p /\ u = t
    BY <1>1, <2>1, <2>2
  <2>3. CASE ~(At(op) = p /\ u = t)
    BY <1>0, <1>1, <2>1, <2>3
  <2> QED
    BY <2>2, <2>3
<1> QED
  BY <1>1, <1>2, <1>3

LEMMA ToldKept ==
  ASSUME TypeOK, Told, NEW p \in Parties, NEW t \in Threads, NEW s \in States, SetRecord(p, t, s),
         setup' = setup
  PROVE  Told'
<1> SUFFICES ASSUME NEW q \in Parties, NEW u \in Threads, setup.backchannel[q] = "credo",
                    record'[q][u] # "none"
             PROVE  <<u, record'[q][u]>> \in notified'[q]
  BY DEF Told
<1>1. /\ record'[p][t] = s
      /\ \A r \in Parties, v \in Threads : <<r, v>> # <<p, t>> => record'[r][v] = record[r][v]
  BY SetRecordTypes
<1>2. CASE q = p /\ u = t
  <2>1. notified' = [notified EXCEPT ![p] = @ \cup {<<t, s>>}]
    BY <1>2 DEF SetRecord
  <2> QED
    BY <1>1, <1>2, <2>1 DEF TypeOK
<1>3. CASE ~(q = p /\ u = t)
  <2>1. <<u, record[q][u]>> \in notified[q] /\ record'[q][u] = record[q][u]
    BY <1>1, <1>3 DEF Told
  <2> QED
    BY <2>1 DEF SetRecord, TypeOK
<1> QED
  BY <1>2, <1>3

LEMMA DeliverS == IInv /\ InState /\ Deliver => InState'
<1> SUFFICES ASSUME IInv, InState, Deliver PROVE InState'
  OBVIOUS
<1>0. /\ TypeOK /\ Agreed /\ Harnessed
      /\ Conversation /\ Heard /\ Told /\ Known /\ Turn /\ Waited
  BY DEF IInv, InState
<1>1. PICK m \in wire, a \in Arrivals :
        /\ a.message = m.message
        /\ a.from = record[m.to][m.thread]
        /\ wire' = wire \ {m}
        /\ SetRecord(m.to, m.thread, a.to)
  BY DEF Deliver
<1> DEFINE t == m.thread
<1>2. m.to \in Parties /\ t \in Threads /\ a.to \in States
  BY <1>0, <1>1, ArrivalFacts DEF TypeOK
<1>3. /\ record'[m.to][t] = a.to
      /\ \A q \in Parties, u \in Threads : <<q, u>> # <<m.to, t>> => record'[q][u] = record[q][u]
  BY <1>0, <1>1, <1>2, SetRecordTypes
<1>4. ASSUME NEW op \in Operations, At(op) = m.to
      PROVE  a.from \notin Awaited(op) /\ (a.from \in Beyond(op) <=> a.to \in Beyond(op))
  <2>1. a.message \in {"offer", "credential"} <=> At(op) = "holder"
    BY <1>0, <1>1, <1>4 DEF Agreed
  <2> QED
    BY <2>1, ArrivalsInState
<1>5. /\ StageOf(H(t)', I(t)') = StageOf(H(t), I(t))
      /\ \A s : ~Speaks(s, H(t)', I(t)')
      /\ \A u \in Threads : u # t => H(u)' = H(u) /\ I(u)' = I(u)
  BY <1>0, <1>1, DeliverFacts
<1>6. UNCHANGED <<setup, thread, at, call, verdict, late>>
  BY DEF Deliver, context
<1>7. Known' /\ Told'
  BY <1>0, <1>1, <1>2, <1>4, <1>6, KnownKept, ToldKept
<1>8. Heard'
  <2> SUFFICES ASSUME NEW u \in Threads, NEW x \in Messages, Speaks(x, H(u)', I(u)')
               PROVE  [to |-> Receiver(x), thread |-> u, message |-> x] \in wire'
    BY DEF Heard
  <2>1. u # t /\ Speaks(x, H(u), I(u))
    BY <1>5
  <2> QED
    BY <1>0, <1>1, <2>1 DEF Heard
<1>9. Turn'
  <2>1. \A u \in Threads : StageOf(H(u)', I(u)') = StageOf(H(u), I(u))
    BY <1>5
  <2>2. ASSUME thread # NoThread
        PROVE  StageOf(record'["holder"][thread], record'["issuer"][thread])
                 = StageOf(H(thread), I(thread))
    <3>1. thread \in Threads
      BY <1>0, <2>2 DEF TypeOK
    <3> QED
      BY <2>1, <3>1 DEF H, I
  <2> QED
    BY <1>0, <1>6, <2>2 DEF Turn, H, I
<1>10. Waited'
  <2>1. ASSUME call.thread # NoThread, setup.backchannel[At(call.op)] = "credo",
               call.phase = "post"
        PROVE  record'[At(call.op)][call.thread] \in Awaited(call.op)
    <3>1. call.op \in Operations /\ At(call.op) \in Parties /\ call.thread \in Threads
      BY <1>0, <2>1, CallFacts DEF Idle, At, Parties
    <3>2. record[At(call.op)][call.thread] \in Awaited(call.op)
      BY <1>0, <2>1 DEF Waited
    <3>3. <<At(call.op), call.thread>> # <<m.to, t>>
      BY <1>1, <1>4, <3>1, <3>2
    <3> QED
      BY <1>3, <3>1, <3>2, <3>3
  <2> QED
    BY <1>0, <1>6, <2>1 DEF Waited
<1>11. Conversation' /\ FailsOnlyWhenLate'
  BY <1>0, <1>6, DeliverR DEF InState, FailsOnlyWhenLate
<1> QED
  BY <1>7, <1>8, <1>9, <1>10, <1>11 DEF InState

\* What the steps after an operation's need: the stage it leads to.
LEMMA NextNeeds ==
  ASSUME TypeOK, at \in 1..Len(setup.scenario), NEW n, n = at + 1, n <= Len(setup.scenario),
         setup.scenario[n] # "propose"
  PROVE  Need(OperationOf[setup.scenario[n]])
           = IF setup.scenario[at] = "offer" THEN 2 ELSE Need(OperationOf[setup.scenario[at]]) + 1
<1>1. Len(setup.scenario) \in Nat
  BY ScenarioFacts
<1>2. n \in 1..Len(setup.scenario) /\ n # 1 /\ n - 1 = at
  BY <1>1
<1>3. /\ setup.scenario[at] = Before[setup.scenario[n]]
      /\ setup.scenario[n] \in {"offer", "request", "issue", "store"}
  BY <1>2, ScenarioFacts
<1> QED
  BY <1>3 DEF Before, OperationOf, Need

LEMMA PostS == IInv /\ InState /\ Post => InState'
<1> SUFFICES ASSUME IInv, InState, Post PROVE InState'
  OBVIOUS
<1>0. /\ TypeOK /\ Agreed /\ Harnessed /\ call # Idle
      /\ Conversation /\ Heard /\ Told /\ Known /\ Turn /\ Waited
  BY DEF IInv, InState, Post, Idle
<1> DEFINE p == At(call.op)
<1>1. PICK m \in Moves, t \in Threads :
        /\ Fits(m, t)
        /\ SetRecord(p, t, m.to)
        /\ wire' = wire \cup {[to |-> Other(p), thread |-> t, message |-> m.message]}
        /\ Answered(call.op, t)
  BY DEF Post
<1>2. /\ p \in Parties /\ p = At(m.op) /\ call.op = m.op /\ m.to \in States /\ m.op \in Operations
      /\ m.message \in Messages /\ Other(p) = Receiver(m.message)
      /\ m.from = record[p][t]
  BY <1>1, MoveFacts DEF Fits, At, Parties, Other, Receiver
<1>3. /\ call.thread = NoThread => m.from = "none"
      /\ call.thread # NoThread => t = thread /\ m.from # "none"
      /\ Speaks(m.message, H(t)', I(t)')
      /\ \A s : ~Speaks(s, H(t), I(t))
      /\ \A u \in Threads : u # t => H(u)' = H(u) /\ I(u)' = I(u)
  BY <1>0, <1>1, PostFacts DEF Post
<1>4. IF m.from = "none"
      THEN StageOf(H(t)', I(t)') = IF m.op = "send-offer" THEN 2 ELSE 1
      ELSE StageOf(H(t)', I(t)') = StageOf(H(t), I(t)) + 1
  BY <1>0, <1>1, PostFacts DEF Post
<1>5. Known' /\ Told'
  <2>1. ASSUME NEW op \in Operations, At(op) = p, record[p][t] \in Awaited(op) \cup Beyond(op)
        PROVE  m.to \in Beyond(op)
    <3>1. op # "send-proposal"
      BY <2>1 DEF Awaited, Beyond
    <3> QED
      BY <1>2, <2>1, <3>1, MovesInState
  <2>2. setup' = setup
    BY DEF Post
  <2> QED
    BY <1>0, <1>1, <1>2, <2>1, <2>2, KnownKept, ToldKept
<1>6. Heard'
  <2> SUFFICES ASSUME NEW u \in Threads, NEW x \in Messages, Speaks(x, H(u)', I(u)')
               PROVE  [to |-> Receiver(x), thread |-> u, message |-> x] \in wire'
    BY DEF Heard
  <2>1. CASE u = t
    <3>1. x = m.message
      BY <1>3, <2>1 DEF Speaks
    <3> QED
      BY <1>1, <1>2, <2>1, <3>1
  <2>2. CASE u # t
    <3>1. Speaks(x, H(u), I(u))
      BY <1>3, <2>2
    <3> QED
      BY <1>0, <1>1, <3>1 DEF Heard
  <2> QED
    BY <2>1, <2>2
<1>7. /\ at \in 1..Len(setup.scenario) /\ Len(setup.scenario) \in Nat /\ setup' = setup
      /\ call.op = OperationOf[setup.scenario[at]] /\ verdict = "running" /\ verdict' = "running"
      /\ call.op = "send-proposal" <=> setup.scenario[at] = "propose"
      /\ call.op = "send-offer" <=> setup.scenario[at] = "offer"
  <2>1. setup.scenario[at] \in {"propose", "offer", "request", "issue", "store"}
    BY <1>0, CallFacts, ScenarioFacts
  <2>2. call.op = "send-offer" <=> setup.scenario[at] = "offer"
    BY <1>0, <2>1, CallFacts DEF OperationOf
  <2> QED
    BY <1>0, <2>2, CallFacts DEF Post
<1>8. \/ call'.phase = "look" /\ call'.op = "send-offer" /\ at' = at /\ call.op = "send-offer"
      \/ call' = Idle /\ at' = at + 1
  <2>1. call \in [op : Operations \cup {"idle"}, thread : Threads \cup {NoThread},
                  phase : {"none", "post", "wait", "swap", "check", "look"}]
    BY <1>0 DEF TypeOK
  <2> QED
    BY <2>1 DEF Post
<1>9. Waited'
  <2>1. CASE call'.phase = "look" /\ call'.op = "send-offer"
    BY <2>1 DEF Waited
  <2>2. CASE call' = Idle
    BY <2>2 DEF Waited, Idle
  <2> QED
    BY <1>8, <2>1, <2>2
<1>10. thread' = t /\ t # NoThread
  <2>1. CASE call.thread = NoThread
    <3>1. m.op \in {"send-proposal", "send-offer"}
      BY <1>3, <2>1 DEF Moves
    <3> QED
      BY <1>1, <1>2, <3>1, IssueCredentialAssumption DEF Answered
  <2>2. CASE call.thread # NoThread
    BY <1>1, <1>3, <2>2, IssueCredentialAssumption DEF Answered
  <2> QED
    BY <2>1, <2>2
<1>11. StageOf(H(t)', I(t)') = IF call.op = "send-offer" THEN 2 ELSE Need(call.op) + 1
  <2>1. CASE m.from = "none"
    <3>1. m.op \in {"send-proposal", "send-offer"}
      BY <2>1 DEF Moves
    <3> QED
      BY <1>2, <1>4, <2>1, <3>1 DEF Need
  <2>2. CASE m.from # "none"
    <3>1. t = thread /\ thread # NoThread /\ m.op # "send-proposal"
      BY <1>3, <1>10, <2>2 DEF Moves
    <3>2. StageOf(H(t), I(t)) = Need(call.op)
      BY <1>0, <1>2, <1>7, <3>1 DEF Turn, Post
    <3> QED
      BY <1>2, <1>4, <2>2, <3>2 DEF Need, Operations
  <2> QED
    BY <2>1, <2>2
<1>12. Turn'
  <2>1. H(thread)' = record'["holder"][t] /\ I(thread)' = record'["issuer"][t]
        /\ H(t)' = record'["holder"][t] /\ I(t)' = record'["issuer"][t]
    BY <1>10 DEF H, I
  <2>2. StageOf(H(thread)', I(thread)') = IF call.op = "send-offer" THEN 2 ELSE Need(call.op) + 1
    BY <1>11, <2>1
  <2>3. CASE call'.phase = "look" /\ at' = at /\ call.op = "send-offer"
    BY <1>10, <2>2, <2>3 DEF Turn
  <2>4. CASE call' = Idle /\ at' = at + 1
    <3>1. ASSUME at' <= Len(setup.scenario), setup.scenario[at'] # "propose"
          PROVE  StageOf(H(thread)', I(thread)') = Need(OperationOf[setup.scenario[at']])
      BY <1>0, <1>7, <2>2, <2>4, <3>1, NextNeeds
    <3> QED
      BY <1>7, <1>10, <2>4, <3>1 DEF Turn, Idle
  <2> QED
    BY <1>8, <2>3, <2>4
<1>13. Conversation' /\ FailsOnlyWhenLate'
  BY <1>0, <1>7, PostR DEF FailsOnlyWhenLate
<1> QED
  BY <1>5, <1>6, <1>9, <1>12, <1>13 DEF InState

\* What an operation still lacks is under way to its party.
LEMMA LacksUnderWay ==
  ASSUME IInv, InState, NEW op \in Operations, op # "send-proposal", thread # NoThread,
         StageOf(H(thread), I(thread)) = Need(op), record[At(op)][thread] \notin Awaited(op)
  PROVE  UnderWay(At(op), thread)
<1>1. thread \in Threads /\ Talks(H(thread), I(thread))
  BY DEF IInv, TypeOK, InState, Conversation
<1>2. record[At(op)][thread] = IF At(op) = "holder" THEN H(thread) ELSE I(thread)
  BY DEF At, H, I
<1>3. PICK x \in Messages : Receiver(x) = At(op) /\ Speaks(x, H(thread), I(thread))
  BY <1>1, <1>2, NeedFacts
<1> DEFINE m == [to |-> At(op), thread |-> thread, message |-> x]
<1>4. m \in wire
  BY <1>1, <1>3 DEF InState, Heard
<1> QED
  BY <1>4 DEF UnderWay

\* An event of the state an operation needs, in the stage that needs it, is of the
\* record's present state.
LEMMA CallStage ==
  ASSUME IInv, InState, call.thread # NoThread, call.phase # "look"
  PROVE  /\ call.thread = thread /\ thread \in Threads /\ call.op \in Operations
         /\ StageOf(H(thread), I(thread)) = Need(call.op)
         /\ record[At(call.op)][thread] \notin Beyond(call.op)
<1>0. call # Idle
  BY DEF Idle
<1>1. /\ call.op = OperationOf[setup.scenario[at]] /\ call.op \in Operations
      /\ at <= Len(setup.scenario) /\ verdict = "running"
      /\ call.op = "send-proposal" <=> setup.scenario[at] = "propose"
      /\ call.thread = thread /\ thread \in Threads /\ thread # NoThread
  BY <1>0, CallFacts
<1>2. call.op # "send-proposal" /\ StageOf(H(thread), I(thread)) = Need(call.op)
  BY <1>1 DEF InState, Turn, Waited
<1>3. Talks(H(thread), I(thread))
  BY <1>1 DEF InState, Conversation
<1>4. record[At(call.op)][thread] = IF At(call.op) = "holder" THEN H(thread) ELSE I(thread)
  BY DEF At, H, I
<1> QED
  BY <1>1, <1>2, <1>3, <1>4, NeedFacts

\* What the backchannel waits for and does not know is under way.
LEMMA WaitUnderWay ==
  ASSUME IInv, InState, call.phase \in {"wait", "swap", "check"}, ~WaitOver
  PROVE  UnderWay(At(call.op), call.thread)
<1>0. TypeOK /\ Told /\ Waited /\ call.thread # NoThread /\ call.op # "send-proposal"
  BY DEF IInv, InState, Waited
<1>1. /\ call.thread = thread /\ thread \in Threads /\ call.op \in Operations
      /\ StageOf(H(thread), I(thread)) = Need(call.op) /\ thread # NoThread
  BY <1>0, CallStage
<1> DEFINE p == At(call.op)
<1>2. p \in Parties /\ record[p][thread] \in States
  BY <1>0, <1>1 DEF At, Parties, TypeOK
<1>3. CASE record[p][thread] \notin Awaited(call.op)
  BY <1>0, <1>1, <1>3, LacksUnderWay
<1>4. CASE record[p][thread] \in Awaited(call.op)
  <2>0. record[p][thread] # "none"
    BY <1>4 DEF Awaited
  <2>1. CASE call.phase = "wait"
    <3>1. <<thread, record[p][thread]>> \in notified[p]
      BY <1>0, <1>1, <1>2, <2>0, <2>1 DEF Waited, Told
    <3> QED
      BY <1>1, <1>2, <1>4, <2>1, <3>1 DEF WaitOver
  <2>2. CASE call.phase = "swap"
    <3>1. \A s \in States : <<thread, s>> \notin notified[p]
      BY <1>1, <2>2 DEF WaitOver
    <3>2. setup.backchannel[p] = "acapy"
      BY <1>0, <2>2 DEF Waited
    <3> QED
      BY <1>1, <2>0, <3>1, <3>2 DEF UnderWay
  <2>3. CASE call.phase = "check"
    <3>1. call.op = "issue"
      BY <1>0, <2>3 DEF Waited
    <3>2. record[p][thread] = "request-received"
      BY <1>4, <3>1 DEF Awaited
    <3> QED
      BY <1>1, <2>3, <3>2 DEF WaitOver
  <2> QED
    BY <2>1, <2>2, <2>3
<1> QED
  BY <1>3, <1>4

\* A record in an awaited state is ready for the operation.
LEMMA AwaitedReady ==
  ASSUME call.op \in Operations, record[At(call.op)][call.thread] \in Awaited(call.op),
         call.thread # NoThread
  PROVE  Ready
<1>1. \E m \in Moves :
        m.from # "none" /\ m.op = call.op /\ m.from = record[At(call.op)][call.thread]
  BY DEF Awaited, Moves, Operations
<1> QED
  BY <1>1 DEF Ready, Fits

\* A call that fails lacked something that was under way.
LEMMA FailureIsLate ==
  ASSUME IInv, InState, LookFails \/ GiveUp \/ Refused
  PROVE  late'
<1>0. TypeOK /\ Waited /\ Turn /\ Told
  BY DEF IInv, InState
<1>1. CASE LookFails
  <2>1. call # Idle /\ verdict = "running" /\ thread # NoThread
        /\ StageOf(H(thread), I(thread)) = 2
    <3>1. call # Idle /\ call.phase = "look"
      BY <1>1 DEF LookFails, Idle
    <3> QED
      BY <1>0, <3>1, CallFacts DEF Turn
  <2>2. thread \in Threads /\ record["holder"][thread] \in States
    BY <1>0, <2>1 DEF TypeOK, Parties
  <2>3. UnderWay("holder", thread)
    <3>1. CASE record["holder"][thread] # "offer-received"
      <4>1. At("send-request") = "holder" /\ Awaited("send-request") = {"offer-received"}
            /\ Need("send-request") = 2 /\ "send-request" \in Operations
        BY DEF At, Awaited, Need, Operations
      <4> QED
        BY <2>1, <3>1, <4>1, LacksUnderWay
    <3>2. CASE record["holder"][thread] = "offer-received"
      <4>1. \A s \in States : <<thread, s>> \notin notified["holder"]
        BY <1>1, <3>2 DEF LookFails, OfferReceived
      <4>2. setup.backchannel["holder"] # "credo"
        BY <1>0, <2>2, <3>2, <4>1 DEF Told, Parties
      <4>3. setup.backchannel["holder"] = "acapy"
        BY <1>0, <4>2 DEF TypeOK, Setups, Parties
      <4> QED
        BY <3>2, <4>1, <4>3 DEF UnderWay
    <3> QED
      BY <3>1, <3>2
  <2> QED
    BY <1>1, <2>3 DEF LookFails, FailScenario
<1>2. CASE GiveUp
  <2>2. late \/ UnderWay(At(call.op), call.thread)
    BY <1>2, WaitUnderWay DEF GiveUp
  <2> QED
    BY <1>2, <2>2 DEF GiveUp, FailScenario
<1>3. CASE Refused
  <2>1. call.thread # NoThread /\ call.phase = "post" /\ call.op # "send-proposal"
    BY <1>0, <1>3 DEF Refused, Waited
  <2>2. /\ call.thread = thread /\ thread \in Threads /\ call.op \in Operations
        /\ StageOf(H(thread), I(thread)) = Need(call.op) /\ thread # NoThread
    BY <2>1, CallStage
  <2>3. record[At(call.op)][thread] \notin Awaited(call.op)
    <3>1. ~Ready
      BY <1>3 DEF Refused, Ready
    <3> QED
      BY <2>1, <2>2, <3>1, AwaitedReady
  <2>4. UnderWay(At(call.op), call.thread)
    BY <2>2, <2>1, <2>3, LacksUnderWay
  <2> QED
    BY <1>3, <2>4 DEF Refused, FailScenario
<1> QED
  BY <1>1, <1>2, <1>3

\* Records, messages and what is known of them stay as they are.
LEMMA QuietS ==
  ASSUME IInv, InState, UNCHANGED <<setup, record, wire, notified>>
  PROVE  Conversation' /\ Heard' /\ Told' /\ Known'
<1>1. Conversation'
  BY SilentR DEF InState
<1>2. Heard'
  BY DEF InState, Heard, H, I
<1>3. Told' /\ Known'
  BY DEF InState, Told, Known
<1> QED
  BY <1>1, <1>2, <1>3

\* The states of the context's exchange are the same when it is.
LEMMA SameStage ==
  ASSUME UNCHANGED <<record, thread>>
  PROVE  StageOf(H(thread), I(thread))' = StageOf(H(thread), I(thread))
BY DEF StageOf, H, I

LEMMA WebhookS == IInv /\ InState /\ Webhook => InState'
<1> SUFFICES ASSUME IInv, InState, Webhook PROVE InState'
  OBVIOUS
<1>0. TypeOK /\ Conversation /\ Heard /\ Told /\ Known /\ Turn /\ Waited /\ FailsOnlyWhenLate
  BY DEF IInv, InState
<1>1. UNCHANGED <<setup, record, wire, thread, at, call, verdict, late>>
  BY DEF Webhook, context
<1>2. PICK p \in Parties, t \in Threads :
        notified' = [notified EXCEPT ![p] = @ \cup {<<t, record[p][t]>>}]
  BY DEF Webhook
<1>3. Known'
  <2>1. ASSUME NEW q \in Parties, NEW u \in Threads, NEW x, <<u, x>> \in notified'[q]
        PROVE  <<u, x>> \in notified[q] \/ x = record[q][u]
    BY <1>0, <1>2, <2>1 DEF TypeOK
  <2>2. \A op \in Operations : At(op) \in Parties
    BY DEF At, Parties
  <2> QED
    BY <1>0, <1>1, <2>1, <2>2 DEF Known
<1>4. Told'
  <2>1. \A q \in Parties : notified[q] \subseteq notified'[q]
    BY <1>0, <1>2 DEF TypeOK
  <2> QED
    BY <1>0, <1>1, <2>1 DEF Told
<1>5. Conversation' /\ Heard'
  BY <1>0, <1>1, SilentR DEF Heard, H, I
<1>6. Turn' /\ Waited' /\ FailsOnlyWhenLate'
  BY <1>0, <1>1, SameStage DEF Turn, Waited, FailsOnlyWhenLate
<1> QED
  BY <1>3, <1>4, <1>5, <1>6 DEF InState

\* A step makes a call, which waits unless it begins an exchange.
LEMMA StepS == IInv /\ InState /\ Step => InState'
<1> SUFFICES ASSUME IInv, InState, Step PROVE InState'
  OBVIOUS
<1>0. TypeOK /\ Turn
  BY DEF IInv, InState
<1>1. /\ UNCHANGED <<setup, record, wire, notified, thread, at, verdict>> /\ verdict = "running"
      /\ call = Idle /\ call'.phase = Begins(call'.op, call'.thread)
      /\ call'.op = "send-proposal" => call'.thread = NoThread
      /\ at \in 1..Len(setup.scenario) /\ call'.op = OperationOf[setup.scenario[at]]
  <2>1. at \in 1..Len(setup.scenario)
    BY <1>0, ScenarioFacts DEF Step, TypeOK
  <2> QED
    BY <2>1 DEF Step, context
<1>2. setup.backchannel[At(call'.op)] \in {"acapy", "credo"}
  <2>1. At(call'.op) \in Parties
    BY DEF At, Parties
  <2> QED
    BY <1>0, <2>1 DEF TypeOK, Setups
<1>3. Waited'
  BY <1>1, <1>2 DEF Waited, Begins
<1>4. Turn'
  <2>1. call'.phase # "look" /\ call.phase # "look"
    BY <1>1 DEF Begins, Idle
  <2> QED
    BY <1>0, <1>1, <2>1, SameStage DEF Turn
<1>5. FailsOnlyWhenLate'
  BY <1>1 DEF FailsOnlyWhenLate
<1> QED
  BY <1>1, <1>3, <1>4, <1>5, QuietS DEF InState

LEMMA LookS == IInv /\ InState /\ Look => InState'
<1> SUFFICES ASSUME IInv, InState, Look PROVE InState'
  OBVIOUS
<1>0. TypeOK /\ Turn /\ Waited /\ FailsOnlyWhenLate
  BY DEF IInv, InState
<1>1. /\ UNCHANGED <<setup, record, wire, notified, thread, verdict, late>> /\ call.phase = "look"
      /\ call' = Idle /\ at' = at + 1
  BY DEF Look, context
<1>2. /\ at \in 1..Len(setup.scenario) /\ Len(setup.scenario) \in Nat
      /\ setup.scenario[at] = "offer" /\ verdict = "running"
  <2>1. call.op = "send-offer" /\ call # Idle
    BY <1>0, <1>1 DEF Waited, Idle
  <2>2. /\ at \in 1..Len(setup.scenario) /\ Len(setup.scenario) \in Nat /\ verdict = "running"
        /\ call.op = OperationOf[setup.scenario[at]]
    BY <2>1, CallFacts
  <2> QED
    BY <1>0, <2>1, <2>2, ScenarioFacts DEF OperationOf
<1>3. thread # NoThread /\ StageOf(H(thread), I(thread)) = 2
  BY <1>0, <1>1, <1>2 DEF Turn
<1>4. Turn'
  <2>1. ASSUME at' <= Len(setup.scenario), setup.scenario[at'] # "propose"
        PROVE  Need(OperationOf[setup.scenario[at']]) = 2
    BY <1>0, <1>1, <1>2, <2>1, NextNeeds
  <2> QED
    BY <1>1, <1>3, <2>1, SameStage DEF Turn, Idle
<1>5. Waited' /\ FailsOnlyWhenLate'
  BY <1>0, <1>1 DEF Waited, Idle, FailsOnlyWhenLate
<1> QED
  BY <1>1, <1>4, <1>5, QuietS DEF InState

\* A wait of Credo ends with an event of the state the record is in.
LEMMA ProceedS == IInv /\ InState /\ Proceed => InState'
<1> SUFFICES ASSUME IInv, InState, Proceed PROVE InState'
  OBVIOUS
<1>0. TypeOK /\ Known /\ Turn /\ Waited /\ FailsOnlyWhenLate
  BY DEF IInv, InState
<1>1. UNCHANGED <<setup, record, wire, notified, thread, at, verdict, late>>
  BY DEF Proceed, context
<1>2. /\ call'.op = call.op /\ call'.thread = call.thread /\ call'.phase = Then
      /\ call.phase \in {"wait", "swap", "check"} /\ call.thread # NoThread
  BY <1>0 DEF Proceed, TypeOK, Waited
<1>3. call'.phase \in {"check", "post"}
      /\ (call'.phase = "check" => call.phase = "swap" /\ call.op = "issue")
  BY <1>2 DEF Then
<1>4. ASSUME setup.backchannel[At(call.op)] = "credo"
      PROVE  record[At(call.op)][call.thread] \in Awaited(call.op)
  <2>1. call.phase = "wait"
    BY <1>0, <1>2, <1>4 DEF Waited
  <2>2. /\ call.thread = thread /\ thread \in Threads /\ call.op \in Operations
        /\ record[At(call.op)][thread] \notin Beyond(call.op)
    BY <1>2, CallStage
  <2>3. PICK s \in Awaited(call.op) : <<thread, s>> \in notified[At(call.op)]
    BY <2>1, <2>2 DEF Proceed, WaitOver
  <2> QED
    BY <1>0, <2>2, <2>3 DEF Known
<1>5. Waited'
  <2>1. call'.phase = "check" => setup.backchannel[At(call.op)] = "acapy"
    BY <1>0, <1>3 DEF Waited
  <2>2. call.op # "send-proposal"
    BY <1>0, <1>2 DEF Waited
  <2> QED
    BY <1>1, <1>2, <1>3, <1>4, <2>1, <2>2 DEF Waited
<1>6. Turn' /\ FailsOnlyWhenLate'
  <2>1. call'.phase # "look" /\ call.phase # "look"
    BY <1>2, <1>3
  <2> QED
    BY <1>0, <1>1, <2>1, SameStage DEF Turn, FailsOnlyWhenLate
<1> QED
  BY <1>1, <1>5, <1>6, QuietS DEF InState

LEMMA NextS == IInv /\ InState /\ [Next]_vars => InState'
<1> SUFFICES ASSUME IInv, InState, [Next]_vars PROVE InState'
  OBVIOUS
<1>0. TypeOK /\ Harnessed /\ Turn /\ Waited /\ FailsOnlyWhenLate
  BY DEF IInv, InState
<1>1. CASE Deliver \/ Post \/ Webhook \/ Step \/ Look \/ Proceed
  BY <1>1, DeliverS, PostS, WebhookS, StepS, LookS, ProceedS
<1>2. CASE LookAgain \/ Miss \/ UNCHANGED vars
  <2>1. UNCHANGED <<setup, record, wire, notified, thread, at, call, verdict>> /\ (late => late')
    BY <1>2 DEF LookAgain, Miss, vars, context
  <2>2. Turn' /\ Waited' /\ FailsOnlyWhenLate'
    BY <1>0, <2>1, SameStage DEF Turn, Waited, FailsOnlyWhenLate
  <2> QED
    BY <2>1, <2>2, QuietS DEF InState
<1>3. CASE LookFails \/ GiveUp \/ Refused
  <2>1. UNCHANGED <<setup, record, wire, notified>> /\ verdict' = "failed" /\ call' = Idle
    BY <1>3 DEF LookFails, GiveUp, Refused, FailScenario
  <2>2. FailsOnlyWhenLate'
    BY <1>3, FailureIsLate DEF FailsOnlyWhenLate
  <2> QED
    BY <2>1, <2>2, QuietS DEF InState, Turn, Waited, Idle
<1>4. CASE HasCredential
  <2>1. UNCHANGED <<setup, record, wire, notified>> /\ verdict' = "passed" /\ call' = Idle
    BY <1>4 DEF HasCredential
  <2> QED
    BY <2>1, QuietS DEF InState, Turn, Waited, Idle, FailsOnlyWhenLate
<1>5. CASE Retry
  <2>1. /\ UNCHANGED <<setup, record, wire, notified>> /\ verdict' = "running" /\ call' = Idle
        /\ thread' = NoThread /\ at' = 1
    BY <1>0, <1>5 DEF Retry, Harnessed
  <2> QED
    BY <2>1, QuietS DEF InState, Turn, Waited, Idle, FailsOnlyWhenLate
<1> QED
  BY <1>1, <1>2, <1>3, <1>4, <1>5 DEF Next, Harness, Served

LEMMA InStateAlways == Spec => []InState
<1>1. ASSUME Init PROVE InState
  <2>1. \A t \in Threads : H(t) = "none" /\ I(t) = "none"
    BY <1>1 DEF Init, H, I, Parties
  <2>2. Heard /\ Conversation
    BY <1>1, <2>1, InitR DEF Heard, Speaks
  <2>3. Told /\ Known
    BY <1>1 DEF Init, Told, Known, Parties, At
  <2>4. Turn /\ Waited /\ FailsOnlyWhenLate
    BY <1>1 DEF Init, Turn, Waited, Idle, FailsOnlyWhenLate
  <2> QED
    BY <2>2, <2>3, <2>4 DEF InState
<1> QED
  BY <1>1, NextS, InvariantI, PTL DEF Spec

\* No order of steps, waits, polls and webhooks fails a scenario whose agents answer in
\* time: what a failed call lacked was still under way.
THEOREM FailedWasLate == Spec => []FailsOnlyWhenLate
<1>1. InState => FailsOnlyWhenLate
  BY DEF InState
<1> QED
  BY <1>1, InStateAlways, PTL

\* After waitForState the agent accepts what Credo's backchannel posts to it, whatever
\* the events of earlier attempts and of the exchange's earlier states.
THEOREM PostsInState == Spec => []CredoPostsInState
<1>1. ASSUME IInv, InState PROVE CredoPostsInState
  <2> SUFFICES ASSUME setup.backchannel[At(call.op)] = "credo", call.phase = "post",
                      call.thread # NoThread
               PROVE  Ready
    BY DEF CredoPostsInState
  <2>1. call.op \in Operations /\ record[At(call.op)][call.thread] \in Awaited(call.op)
    BY <1>1, CallFacts DEF InState, Waited, Idle
  <2> QED
    BY <2>1, AwaitedReady
<1> QED
  BY <1>1, InStateAlways, InvariantI, PTL
=============================================================================
