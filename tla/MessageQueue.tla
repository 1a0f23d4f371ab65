---------------------------- MODULE MessageQueue ----------------------------
(***************************************************************************)
(* The polls of the AFGO backchannel that wait on asyncio queues: GET      *)
(* /agent/response/did-exchange with an invitation id (a queue) or without *)
(* one (a stack all invitations share), and GET /agent/command/proof (a    *)
(* stack per thread).                                                      *)
(*                                                                         *)
(* pop_message_queue waits for shield(queue.get()) with a timeout.  The    *)
(* shield makes get() a task of its own, which the timeout does not        *)
(* cancel: it goes on waiting and takes a webhook that nobody sees.        *)
(***************************************************************************)
EXTENDS Naturals, Sequences, FiniteSets

CONSTANTS
  Invitations, Proofs,   \* what webhooks are about
  NoId,                  \* the key of the stack all invitations share
  PerExchange,           \* bound: webhooks about each
  MaxPolls,              \* bound: polls
  NoBox, Nothing

ASSUME MessageQueueAssumption ==
  /\ Invitations \cap Proofs = {}
  /\ NoId \notin Proofs
  /\ PerExchange \in Nat
  /\ MaxPolls \in Nat
  /\ NoBox \notin {"queue", "stack"} \X (Invitations \cup Proofs \cup {NoId})

Webhooks == [about : Invitations \cup Proofs, n : 1..PerExchange]

ASSUME NothingAssumption == Nothing \notin Webhooks

Queues == {"queue"} \X Invitations
Stacks == {"stack"} \X (Proofs \cup {NoId})
Boxes == Queues \cup Stacks

VARIABLES
  received,   \* webhooks the agent has sent
  pushing,    \* handlers under way: the webhook, and which push is next
  content,    \* [Boxes -> Seq(Webhooks)]: the asyncio queues
  getters,    \* [Boxes -> Seq(Nat)]: the tasks that wait in them
  tasks       \* the get() task of every poll so far, and how the poll ended

vars == <<received, pushing, content, getters, tasks>>

----------------------------------------------------------------------------
(* Webhooks.                                                               *)

\* Where a webhook is pushed, in order.
Destinations(x) ==
  IF x \in Invitations THEN << <<"queue", x>>, <<"stack", NoId>> >> ELSE << <<"stack", x>> >>

\* The agent's next webhooks arrive, in any order.
Receive ==
  /\ \E w \in Webhooks \ received :
       /\ received' = received \cup {w}
       /\ pushing' = pushing \cup {[webhook |-> w, next |-> 1]}
  /\ UNCHANGED <<content, getters, tasks>>

\* Queue.put wakes the task that has waited longest.
WakeFirst(b) ==
  IF getters[b] = <<>> THEN UNCHANGED <<getters, tasks>>
  ELSE /\ getters' = [getters EXCEPT ![b] = Tail(@)]
       /\ tasks' = [tasks EXCEPT ![Head(getters[b])].state = "woken"]

\* Mutant: a webhook about an invitation is pushed to its queue twice.
PushTwice(h) ==
  LET to == Destinations(h.webhook.about)
      b == to[h.next]
  IN /\ content' = [content EXCEPT ![b] = IF h.next < Len(to) THEN @ \o <<h.webhook, h.webhook>>
                                          ELSE Append(@, h.webhook)]
     /\ pushing' = (pushing \ {h}) \cup
                     (IF h.next < Len(to) THEN {[h EXCEPT !.next = @ + 1]} ELSE {})
     /\ WakeFirst(b)
     /\ UNCHANGED received

\* Mutant: a handler that does not stop after its last push.
PushPastTheEnd(h) ==
  LET to == Destinations(h.webhook.about)
      b == to[h.next]
  IN /\ content' = [content EXCEPT ![b] = Append(@, h.webhook)]
     /\ pushing' = (pushing \ {h}) \cup {[h EXCEPT !.next = @ + 1]}
     /\ WakeFirst(b)
     /\ UNCHANGED received

\* A handler pushes its webhook: put() is a task, so handlers interleave.
Push(h) ==
  LET to == Destinations(h.webhook.about)
      b == to[h.next]
  IN /\ content' = [content EXCEPT ![b] = Append(@, h.webhook)]
     /\ pushing' = (pushing \ {h}) \cup
                     (IF h.next < Len(to) THEN {[h EXCEPT !.next = @ + 1]} ELSE {})
     /\ WakeFirst(b)
     /\ UNCHANGED received

----------------------------------------------------------------------------
(* Polls.  The harness is synchronous: one at a time.                      *)

Serving == tasks # <<>> /\ tasks[Len(tasks)].poll = "pending"

Poll(b) ==
  /\ ~Serving
  /\ Len(tasks) < MaxPolls
  /\ tasks' = Append(tasks, [box |-> b, state |-> "new", got |-> Nothing, poll |-> "pending"])
  /\ UNCHANGED <<received, pushing, content, getters>>

\* What get_nowait takes from a Queue or a LifoQueue, and what it leaves.
First(b) == IF b \in Queues THEN Head(content[b]) ELSE content[b][Len(content[b])]
Others(b) == IF b \in Queues THEN Tail(content[b]) ELSE SubSeq(content[b], 1, Len(content[b]) - 1)

\* A get() runs, for the first time or because it was woken.  Another may have been
\* quicker: then it waits again, behind the others.
GetNothing(i) ==
  LET b == tasks[i].box
  IN /\ tasks[i].state \in {"new", "woken"}
     /\ content[b] = <<>>
     /\ tasks' = [tasks EXCEPT ![i].state = "waiting"]
     /\ getters' = [getters EXCEPT ![b] = Append(@, i)]
     /\ UNCHANGED <<received, pushing, content>>

\* It takes a webhook, and its poll is answered if it is still there.
Get(i) ==
  LET b == tasks[i].box
  IN /\ tasks[i].state \in {"new", "woken"}
     /\ content[b] # <<>>
     /\ tasks' = [tasks EXCEPT ![i].state = "done",
                               ![i].got = First(b),
                               ![i].poll = IF @ = "pending" THEN "answered" ELSE @]
     /\ content' = [content EXCEPT ![b] = Others(b)]
     /\ UNCHANGED <<received, pushing, getters>>

\* Mutant: the poll waits as long as get() does.
TimeOutNever == FALSE /\ UNCHANGED vars

\* wait_for gives up: the answer is {} (500 for a proof).  get() is left alone, even
\* when it has just been woken.
TimeOut ==
  /\ Serving
  /\ tasks[Len(tasks)].state \in {"waiting", "woken"}
  /\ tasks' = [tasks EXCEPT ![Len(tasks)].poll = "timed out"]
  /\ UNCHANGED <<received, pushing, content, getters>>

----------------------------------------------------------------------------
Init ==
  /\ received = {}
  /\ pushing = {}
  /\ content = [b \in Boxes |-> <<>>]
  /\ getters = [b \in Boxes |-> <<>>]
  /\ tasks = <<>>

\* What the event loop runs.
Loop ==
  \/ \E h \in pushing : Push(h)
  \/ \E i \in 1..Len(tasks) : GetNothing(i) \/ Get(i)
  \/ TimeOut

Next == Receive \/ (\E b \in Boxes : Poll(b)) \/ Loop

\* The event loop goes on and timers fire.
Spec == Init /\ [][Next]_vars /\ WF_vars(Loop)

----------------------------------------------------------------------------
(* Properties.                                                             *)

Tasks == [box : Boxes, state : {"new", "waiting", "woken", "done"},
          got : Webhooks \cup {Nothing}, poll : {"pending", "answered", "timed out"}]

\* Every variable has its type.
TypeOK ==
  /\ received \subseteq Webhooks
  /\ pushing \subseteq [webhook : Webhooks, next : {1, 2}]
  /\ content \in [Boxes -> Seq(Webhooks)]
  /\ getters \in [Boxes -> Seq(1..MaxPolls)]
  /\ tasks \in Seq(Tasks)
  /\ Len(tasks) \in 0..MaxPolls

\* A webhook is in a box, or about to be pushed there, or taken from there by one task,
\* and never in two of these places: nothing is handed out twice, however gets,
\* handlers and timeouts interleave.
OneTaker ==
  \A b \in Boxes :
    /\ \A i, j \in 1..Len(content[b]) : content[b][i] = content[b][j] => i = j
    /\ \A i, j \in 1..Len(tasks) :
         /\ tasks[i].box = b /\ tasks[j].box = b
         /\ tasks[i].got = tasks[j].got /\ tasks[i].got # Nothing
         => i = j
    /\ \A i \in 1..Len(content[b]), j \in 1..Len(tasks) :
         tasks[j].box = b => tasks[j].got # content[b][i]

\* "If it is not here, skip this and check for one later in the process": when a poll
\* has found nothing and its webhook has come all the same, the next poll finds it.
LaterPollFindsIt ==
  \A i, j \in 1..Len(tasks) :
    /\ i < j /\ tasks[i].box = tasks[j].box
    /\ tasks[i].poll = "timed out" /\ tasks[i].got # Nothing
    => tasks[j].poll # "timed out"

----------------------------------------------------------------------------
(* The refinement of LossyMailbox.                                         *)

\* The tasks of b whose poll has timed out and that have not taken a webhook yet.
Orphans(b) ==
  {i \in 1..Len(tasks) :
     tasks[i].box = b /\ tasks[i].poll = "timed out" /\ tasks[i].state # "done"}

Asked == IF Serving THEN tasks[Len(tasks)].box ELSE NoBox
LastAnswer ==
  IF tasks # <<>> /\ tasks[Len(tasks)].poll = "answered" THEN tasks[Len(tasks)].got ELSE Nothing
Debt == [b \in Boxes |-> Cardinality(Orphans(b))]

Abstract == INSTANCE LossyMailbox WITH
  waiting <- content, asked <- Asked, answer <- LastAnswer, debt <- Debt

\* The queues lose no more than LossyMailbox says, and every poll is answered.
LossyMailboxSpec == Abstract!Spec
=============================================================================
