-------------------------- MODULE MessageQueueProofs --------------------------
(***************************************************************************)
(* Proofs about MessageQueue, for any invitations and proofs and any       *)
(* number of webhooks and polls.                                           *)
(***************************************************************************)
EXTENDS MessageQueue, FiniteSetTheorems, SequenceTheorems, TLAPS

\* A task has a webhook when it is done; a pending poll is the last one, and its task
\* is not done; the task of an answered one is.
Tasked ==
  \A i \in 1..Len(tasks) :
    /\ tasks[i].state = "done" <=> tasks[i].got # Nothing
    /\ tasks[i].poll = "pending" => i = Len(tasks) /\ tasks[i].state # "done"
    /\ tasks[i].poll = "answered" => tasks[i].state = "done"

\* Who waits in a box is a task that sleeps there, once.
Queued ==
  \A b \in Boxes :
    /\ \A k \in 1..Len(getters[b]) :
         /\ getters[b][k] \in 1..Len(tasks)
         /\ tasks[getters[b][k]].box = b
         /\ tasks[getters[b][k]].state = "waiting"
    /\ \A k, l \in 1..Len(getters[b]) : getters[b][k] = getters[b][l] => k = l

\* The webhook is, or was, in the box.
In(w, b) == \E i \in 1..Len(content[b]) : content[b][i] = w
From(w, b) == \E i \in 1..Len(tasks) : tasks[i].box = b /\ tasks[i].got = w
Filed(w, b) == In(w, b) \/ From(w, b)

\* What is not received, or waits to be pushed to a box, is not filed there.
Coming ==
  /\ \A w \in Webhooks, b \in Boxes : Filed(w, b) => w \in received
  /\ \A h \in pushing :
       /\ h.webhook \in received
       /\ h.next \in 1..Len(Destinations(h.webhook.about))
       /\ \A k \in 1..Len(Destinations(h.webhook.about)) :
            k >= h.next => ~Filed(h.webhook, Destinations(h.webhook.about)[k])
  /\ \A g, h \in pushing : g.webhook = h.webhook => g = h

IInv == TypeOK /\ Tasked /\ Queued /\ Coming /\ OneTaker

----------------------------------------------------------------------------
\* Where a webhook goes: boxes, all different.
LEMMA DestinationFacts ==
  ASSUME NEW x \in Invitations \cup Proofs
  PROVE  /\ Len(Destinations(x)) \in {1, 2}
         /\ \A k \in 1..Len(Destinations(x)) : Destinations(x)[k] \in Boxes
         /\ \A k, l \in 1..Len(Destinations(x)) : Destinations(x)[k] = Destinations(x)[l] => k = l
BY DEF Destinations, Boxes, Queues, Stacks

\* A webhook added at the end of a sequence.
LEMMA Appended ==
  ASSUME NEW S, NEW s \in Seq(S), NEW e \in S
  PROVE  /\ Append(s, e) \in Seq(S)
         /\ Len(Append(s, e)) = Len(s) + 1
         /\ Append(s, e)[Len(s) + 1] = e
         /\ \A i \in 1..Len(s) : Append(s, e)[i] = s[i]
         /\ \A i \in 1..Len(Append(s, e)) : i \in 1..Len(s) \/ i = Len(s) + 1
OBVIOUS

\* One replaced.
LEMMA Replaced ==
  ASSUME NEW S, NEW s \in Seq(S), NEW i \in 1..Len(s), NEW e \in S
  PROVE  /\ [s EXCEPT ![i] = e] \in Seq(S)
         /\ Len([s EXCEPT ![i] = e]) = Len(s)
         /\ [s EXCEPT ![i] = e][i] = e
         /\ \A j \in 1..Len(s) : j # i => [s EXCEPT ![i] = e][j] = s[j]
OBVIOUS

\* One taken from the front.
LEMMA Popped ==
  ASSUME NEW S, NEW s \in Seq(S), s # <<>>
  PROVE  /\ Tail(s) \in Seq(S) /\ Head(s) \in S /\ Head(s) = s[1]
         /\ Len(s) \in Nat \ {0} /\ Len(Tail(s)) = Len(s) - 1
         /\ \A i \in 1..Len(Tail(s)) : i + 1 \in 1..Len(s) /\ i + 1 # 1 /\ Tail(s)[i] = s[i + 1]
OBVIOUS

\* One taken from the back.
LEMMA Unstacked ==
  ASSUME NEW S, NEW s \in Seq(S), s # <<>>
  PROVE  /\ SubSeq(s, 1, Len(s) - 1) \in Seq(S) /\ s[Len(s)] \in S
         /\ Len(s) \in Nat \ {0} /\ Len(SubSeq(s, 1, Len(s) - 1)) = Len(s) - 1
         /\ \A i \in 1..Len(SubSeq(s, 1, Len(s) - 1)) :
              i \in 1..Len(s) /\ i # Len(s) /\ SubSeq(s, 1, Len(s) - 1)[i] = s[i]
<1>1. Len(s) \in Nat \ {0} /\ \A i \in 1..Len(s) : s[i] \in S
  OBVIOUS
<1> DEFINE n == Len(s) - 1
<1>2. n \in Nat /\ Len(s) = n + 1
  BY <1>1
<1> HIDE DEF n
<1>3. n \in Int /\ n - 1 + 1 = n /\ (IF 1 <= n THEN n - 1 + 1 ELSE 0) = n
  BY <1>2
<1>4. \A i \in 1..n : i \in 1..Len(s) /\ i # Len(s) /\ 1 + i - 1 = i
  BY <1>2
<1>5. \A i \in 1..n : s[i] \in S
  BY <1>1, <1>4
<1>6. /\ SubSeq(s, 1, n) \in Seq(S)
      /\ Len(SubSeq(s, 1, n)) = n
      /\ \A i \in 1..n : SubSeq(s, 1, n)[i] = s[i]
  BY <1>3, <1>4, <1>5, SubSeqProperties
<1>7. s[Len(s)] \in S
  BY <1>1
<1> QED
  BY <1>1, <1>4, <1>6, <1>7 DEF n

\* First and Others split a box that is not empty.
LEMMA Split ==
  ASSUME TypeOK, NEW b \in Boxes, content[b] # <<>>
  PROVE  /\ First(b) \in Webhooks /\ Others(b) \in Seq(Webhooks)
         /\ \E f \in 1..Len(content[b]) :
              /\ First(b) = content[b][f]
              /\ \A i \in 1..Len(Others(b)) :
                   \E j \in 1..Len(content[b]) : j # f /\ Others(b)[i] = content[b][j]
         /\ (\A i, j \in 1..Len(content[b]) : content[b][i] = content[b][j] => i = j)
              => \A i, j \in 1..Len(Others(b)) : Others(b)[i] = Others(b)[j] => i = j
<1> DEFINE s == content[b]
<1>1. s \in Seq(Webhooks) /\ s # <<>>
  BY DEF TypeOK
<1>2. CASE b \in Queues
  <2>1. First(b) = Head(s) /\ Others(b) = Tail(s)
    BY <1>2 DEF First, Others
  <2> HIDE DEF s
  <2>2. 1 \in 1..Len(s) /\ Len(Tail(s)) \in Nat /\ Len(s) \in Nat
    BY <1>1, Popped
  <2>3. First(b) = s[1] /\ First(b) \in Webhooks /\ Others(b) \in Seq(Webhooks)
    BY <1>1, <2>1, Popped
  <2>4. \A i \in 1..Len(Others(b)) : i + 1 \in 1..Len(s) /\ i + 1 # 1 /\ Others(b)[i] = s[i + 1]
    BY <1>1, <2>1, Popped
  <2>5. \A i \in 1..Len(Others(b)) : \E j \in 1..Len(s) : j # 1 /\ Others(b)[i] = s[j]
    BY <2>4
  <2>6. ASSUME \A i, j \in 1..Len(s) : s[i] = s[j] => i = j,
               NEW i \in 1..Len(Others(b)), NEW j \in 1..Len(Others(b)), Others(b)[i] = Others(b)[j]
        PROVE  i = j
    <3>1. i + 1 \in 1..Len(s) /\ j + 1 \in 1..Len(s) /\ s[i + 1] = s[j + 1]
      BY <2>4, <2>6
    <3>2. i + 1 = j + 1
      BY <2>6, <3>1
    <3>3. i \in Nat /\ j \in Nat
      OBVIOUS
    <3> QED
      BY <3>2, <3>3
  <2> QED
    BY <2>2, <2>3, <2>5, <2>6 DEF s
<1>3. CASE b \notin Queues
  <2>1. First(b) = s[Len(s)] /\ Others(b) = SubSeq(s, 1, Len(s) - 1)
    BY <1>3 DEF First, Others
  <2> HIDE DEF s
  <2>2. Len(s) \in 1..Len(s) /\ Len(s) \in Nat
    BY <1>1, Unstacked
  <2>3. First(b) \in Webhooks /\ Others(b) \in Seq(Webhooks)
    BY <1>1, <2>1, Unstacked
  <2>4. \A i \in 1..Len(Others(b)) : i \in 1..Len(s) /\ i # Len(s) /\ Others(b)[i] = s[i]
    BY <1>1, <2>1, Unstacked
  <2> QED
    BY <2>1, <2>2, <2>3, <2>4 DEF s
<1> QED
  BY <1>2, <1>3

LEMMA InitI == Init => IInv
<1> SUFFICES ASSUME Init PROVE IInv
  OBVIOUS
<1>1. Len(tasks) = 0 /\ \A b \in Boxes : Len(content[b]) = 0 /\ Len(getters[b]) = 0
  BY DEF Init
<1>2. TypeOK
  <2>1. content \in [Boxes -> Seq(Webhooks)] /\ getters \in [Boxes -> Seq(1..MaxPolls)]
        /\ tasks \in Seq(Tasks)
    BY DEF Init
  <2> QED
    BY <1>1, <2>1, MessageQueueAssumption DEF Init, TypeOK
<1>3. Tasked /\ Queued /\ OneTaker
  BY <1>1 DEF Tasked, Queued, OneTaker
<1>4. Coming
  BY <1>1 DEF Init, Coming, Filed, In, From
<1> QED
  BY <1>2, <1>3, <1>4 DEF IInv

----------------------------------------------------------------------------
\* What a step leaves of the tasks: who asked for what, and what they got.
SameTasks ==
  /\ tasks' \in Seq(Tasks) /\ Len(tasks') = Len(tasks)
  /\ \A i \in 1..Len(tasks) : tasks'[i].box = tasks[i].box /\ tasks'[i].got = tasks[i].got

\* And how their polls ended.
SamePolls ==
  \A i \in 1..Len(tasks) :
    tasks'[i].poll = tasks[i].poll /\ (tasks'[i].state = "done" <=> tasks[i].state = "done")

LEMMA SameFrom ==
  ASSUME SameTasks, NEW w, NEW b
  PROVE  From(w, b)' <=> From(w, b)
BY DEF SameTasks, From

\* put() wakes a sleeping task, and only that.
LEMMA Wakes ==
  ASSUME TypeOK, Tasked, Queued, NEW b \in Boxes, WakeFirst(b)
  PROVE  /\ SameTasks /\ SamePolls
         /\ getters' \in [Boxes -> Seq(1..MaxPolls)]
         /\ Tasked' /\ Queued'
<1>1. CASE getters[b] = <<>>
  <2>1. UNCHANGED <<getters, tasks>>
    BY <1>1 DEF WakeFirst
  <2> QED
    BY <2>1 DEF SameTasks, SamePolls, TypeOK, Tasked, Queued
<1>2. CASE getters[b] # <<>>
  <2> DEFINE g == getters[b]
             t == Head(g)
  <2>1. g \in Seq(1..MaxPolls) /\ g # <<>>
    BY <1>2 DEF TypeOK
  <2>2. getters' = [getters EXCEPT ![b] = Tail(g)] /\ tasks' = [tasks EXCEPT ![t].state = "woken"]
    BY <1>2 DEF WakeFirst
  <2> HIDE DEF g
  <2>3. /\ t = g[1] /\ Tail(g) \in Seq(1..MaxPolls)
        /\ Len(g) \in Nat \ {0} /\ Len(Tail(g)) = Len(g) - 1
        /\ \A k \in 1..Len(Tail(g)) : k + 1 \in 1..Len(g) /\ k + 1 # 1 /\ Tail(g)[k] = g[k + 1]
    BY <2>1, Popped
  <2>4. 1 \in 1..Len(g)
    BY <2>3
  <2>5. t \in 1..Len(tasks) /\ tasks[t].state = "waiting" /\ tasks[t].box = b
    BY <2>3, <2>4 DEF g, Queued
  <2> HIDE DEF t
  <2>6. /\ getters' \in [Boxes -> Seq(1..MaxPolls)]
        /\ getters'[b] = Tail(g) /\ \A c \in Boxes : c # b => getters'[c] = getters[c]
    BY <2>2, <2>3 DEF TypeOK
  <2>7. /\ tasks' \in Seq(Tasks) /\ Len(tasks') = Len(tasks)
        /\ tasks'[t] = [tasks[t] EXCEPT !.state = "woken"]
        /\ \A i \in 1..Len(tasks) : i # t => tasks'[i] = tasks[i]
    <3> DEFINE e == [tasks[t] EXCEPT !.state = "woken"]
    <3>1. tasks \in Seq(Tasks) /\ tasks[t] \in Tasks
      BY <2>5 DEF TypeOK
    <3>2. e \in Tasks
      BY <3>1 DEF Tasks
    <3>3. tasks' = [tasks EXCEPT ![t] = e]
      BY <2>2
    <3> HIDE DEF e
    <3>4. /\ tasks' \in Seq(Tasks) /\ Len(tasks') = Len(tasks) /\ tasks'[t] = e
          /\ \A i \in 1..Len(tasks) : i # t => tasks'[i] = tasks[i]
      BY <2>5, <3>1, <3>2, <3>3, Replaced
    <3> QED
      BY <3>4 DEF e
  <2>8. \A i \in 1..Len(tasks) : tasks[i] \in Tasks
    BY DEF TypeOK
  <2>9. /\ tasks'[t].state = "woken" /\ tasks'[t].box = tasks[t].box
        /\ tasks'[t].got = tasks[t].got /\ tasks'[t].poll = tasks[t].poll
    BY <2>5, <2>7, <2>8 DEF Tasks
  <2>10. SameTasks /\ SamePolls
    BY <2>5, <2>7, <2>9 DEF SameTasks, SamePolls
  <2>11. Tasked'
    <3>1. ASSUME NEW i \in 1..Len(tasks)
          PROVE  /\ tasks'[i].state = "done" <=> tasks'[i].got # Nothing
                 /\ tasks'[i].poll = "pending" => i = Len(tasks) /\ tasks'[i].state # "done"
                 /\ tasks'[i].poll = "answered" => tasks'[i].state = "done"
      <4>1. CASE i = t
        BY <2>5, <2>9, <4>1 DEF Tasked
      <4>2. CASE i # t
        BY <2>7, <4>2 DEF Tasked
      <4> QED
        BY <4>1, <4>2
    <3> QED
      BY <2>7, <3>1 DEF Tasked
  <2>12. \A c \in Boxes : \A k \in 1..Len(getters'[c]) :
           \E l \in 1..Len(getters[c]) :
             getters'[c][k] = getters[c][l] /\ (c = b => l = k + 1) /\ (c # b => l = k)
    <3> SUFFICES ASSUME NEW c \in Boxes, NEW k \in 1..Len(getters'[c])
                 PROVE  \E l \in 1..Len(getters[c]) :
                          getters'[c][k] = getters[c][l] /\ (c = b => l = k + 1) /\ (c # b => l = k)
      OBVIOUS
    <3>1. CASE c = b
      BY <3>1, <2>3, <2>6 DEF g
    <3>2. CASE c # b
      BY <3>2, <2>6
    <3> QED
      BY <3>1, <3>2
  <2>13. \A c \in Boxes : \A k \in 1..Len(getters'[c]) :
           /\ getters'[c][k] \in 1..Len(tasks) /\ getters'[c][k] # t
           /\ tasks[getters'[c][k]].box = c /\ tasks[getters'[c][k]].state = "waiting"
    <3> SUFFICES ASSUME NEW c \in Boxes, NEW k \in 1..Len(getters'[c])
                 PROVE  /\ getters'[c][k] \in 1..Len(tasks) /\ getters'[c][k] # t
                        /\ tasks[getters'[c][k]].box = c /\ tasks[getters'[c][k]].state = "waiting"
      OBVIOUS
    <3>1. PICK l \in 1..Len(getters[c]) :
            getters'[c][k] = getters[c][l] /\ (c = b => l = k + 1) /\ (c # b => l = k)
      BY <2>12
    <3>2. /\ getters[c][l] \in 1..Len(tasks)
          /\ tasks[getters[c][l]].box = c /\ tasks[getters[c][l]].state = "waiting"
      BY DEF Queued
    <3>3. c = b => l # 1
      BY <3>1
    <3>4. getters[c][l] # t
      BY <2>3, <2>4, <2>5, <3>2, <3>3 DEF g, Queued
    <3> QED
      BY <3>1, <3>2, <3>4
  <2>14. \A c \in Boxes : \A k, l \in 1..Len(getters'[c]) : getters'[c][k] = getters'[c][l] => k = l
    <3> SUFFICES ASSUME NEW c \in Boxes, NEW k \in 1..Len(getters'[c]), NEW l \in 1..Len(getters'[c]),
                        getters'[c][k] = getters'[c][l]
                 PROVE  k = l
      OBVIOUS
    <3>1. PICK k1 \in 1..Len(getters[c]) :
            getters'[c][k] = getters[c][k1] /\ (c = b => k1 = k + 1) /\ (c # b => k1 = k)
      BY <2>12
    <3>2. PICK l1 \in 1..Len(getters[c]) :
            getters'[c][l] = getters[c][l1] /\ (c = b => l1 = l + 1) /\ (c # b => l1 = l)
      BY <2>12
    <3>3. k1 = l1
      BY <3>1, <3>2 DEF Queued
    <3>4. k \in Nat /\ l \in Nat
      OBVIOUS
    <3> QED
      BY <3>1, <3>2, <3>3, <3>4
  <2>15. Queued'
    BY <2>7, <2>13, <2>14 DEF Queued
  <2> QED
    BY <2>6, <2>10, <2>11, <2>15
<1> QED
  BY <1>1, <1>2

----------------------------------------------------------------------------
(* One lemma per action.                                                   *)

\* A step that moves no webhook keeps them where they are.
LEMMA Kept ==
  ASSUME IInv, SameTasks, UNCHANGED <<received, pushing, content>>
  PROVE  Coming' /\ OneTaker'
<1>1. \A w, b : From(w, b)' <=> From(w, b)
  BY SameFrom
<1>2. \A w, b : Filed(w, b)' <=> Filed(w, b)
  BY <1>1 DEF Filed, In
<1>3. Coming'
  BY <1>2 DEF IInv, Coming
<1>4. OneTaker'
  BY DEF IInv, OneTaker, SameTasks
<1> QED
  BY <1>3, <1>4

LEMMA ReceiveI == ASSUME IInv, Receive PROVE IInv'
<1>1. PICK w \in Webhooks \ received :
        /\ received' = received \cup {w}
        /\ pushing' = pushing \cup {[webhook |-> w, next |-> 1]}
  BY DEF Receive
<1>2. UNCHANGED <<content, getters, tasks>>
  BY DEF Receive
<1> DEFINE n == [webhook |-> w, next |-> 1]
<1>3. w.about \in Invitations \cup Proofs
  BY DEF Webhooks
<1>4. TypeOK'
  BY <1>1, <1>2 DEF IInv, TypeOK
<1>5. Tasked' /\ Queued' /\ OneTaker'
  BY <1>2 DEF IInv, Tasked, Queued, OneTaker
<1>6. \A v, b : Filed(v, b)' <=> Filed(v, b)
  BY <1>2 DEF Filed, In, From
<1>7. \A b \in Boxes : ~Filed(w, b)
  BY DEF IInv, Coming
<1>8. \A k \in 1..Len(Destinations(w.about)) : Destinations(w.about)[k] \in Boxes
  BY <1>3, DestinationFacts
<1>9. 1 \in 1..Len(Destinations(w.about))
  BY <1>3, DestinationFacts
<1>10. \A h \in pushing : h.webhook # w
  BY DEF IInv, Coming
<1>11. Coming'
  <2>1. \A v \in Webhooks, b \in Boxes : Filed(v, b)' => v \in received'
    BY <1>1, <1>6 DEF IInv, Coming
  <2>2. \A h \in pushing' :
          /\ h.webhook \in received'
          /\ h.next \in 1..Len(Destinations(h.webhook.about))
          /\ \A k \in 1..Len(Destinations(h.webhook.about)) :
               k >= h.next => ~Filed(h.webhook, Destinations(h.webhook.about)[k])'
    <3>1. ASSUME NEW h \in pushing
          PROVE  /\ h.webhook \in received'
                 /\ h.next \in 1..Len(Destinations(h.webhook.about))
                 /\ \A k \in 1..Len(Destinations(h.webhook.about)) :
                      k >= h.next => ~Filed(h.webhook, Destinations(h.webhook.about)[k])'
      BY <1>1, <1>6 DEF IInv, Coming
    <3>2. /\ n.webhook \in received'
          /\ n.next \in 1..Len(Destinations(n.webhook.about))
          /\ \A k \in 1..Len(Destinations(n.webhook.about)) :
               k >= n.next => ~Filed(n.webhook, Destinations(n.webhook.about)[k])'
      BY <1>1, <1>6, <1>7, <1>8, <1>9
    <3> QED
      BY <1>1, <3>1, <3>2
  <2>3. \A g, h \in pushing' : g.webhook = h.webhook => g = h
    BY <1>1, <1>10 DEF IInv, Coming
  <2> QED
    BY <2>1, <2>2, <2>3 DEF Coming
<1> QED
  BY <1>4, <1>5, <1>11 DEF IInv

LEMMA PushI == ASSUME IInv, NEW h \in pushing, Push(h) PROVE IInv'
<1> DEFINE w  == h.webhook
           to == Destinations(w.about)
           b  == to[h.next]
           g  == [h EXCEPT !.next = @ + 1]
<1>1. /\ content' = [content EXCEPT ![b] = Append(@, w)]
      /\ pushing' = (pushing \ {h}) \cup (IF h.next < Len(to) THEN {g} ELSE {})
      /\ WakeFirst(b)
      /\ UNCHANGED received
  BY DEF Push
<1>2. /\ w \in Webhooks /\ w \in received /\ h.next \in 1..Len(to) /\ h.next \in {1, 2}
      /\ h = [webhook |-> w, next |-> h.next]
      /\ \A k \in 1..Len(to) : k >= h.next => ~Filed(w, to[k])
  BY DEF IInv, TypeOK, Coming
<1>3. w.about \in Invitations \cup Proofs
  BY <1>2 DEF Webhooks
<1>4. /\ Len(to) \in {1, 2} /\ \A k \in 1..Len(to) : to[k] \in Boxes
      /\ \A k, l \in 1..Len(to) : to[k] = to[l] => k = l
  BY <1>3, DestinationFacts
<1> HIDE DEF w, to
<1>5. b \in Boxes /\ ~Filed(w, b)
  BY <1>2, <1>4
<1>6. g = [webhook |-> w, next |-> h.next + 1]
  BY <1>2
<1>7. /\ SameTasks /\ getters' \in [Boxes -> Seq(1..MaxPolls)] /\ Tasked' /\ Queued'
  BY <1>1, <1>5, Wakes DEF IInv
<1> HIDE DEF b
<1>8. /\ content' \in [Boxes -> Seq(Webhooks)]
      /\ \A c \in Boxes : c # b => content'[c] = content[c]
      /\ Len(content[b]) \in Nat
      /\ Len(content'[b]) = Len(content[b]) + 1
      /\ content'[b][Len(content[b]) + 1] = w
      /\ \A i \in 1..Len(content[b]) : content'[b][i] = content[b][i]
      /\ \A i \in 1..Len(content'[b]) : i \in 1..Len(content[b]) \/ i = Len(content[b]) + 1
  <2>1. content[b] \in Seq(Webhooks)
    BY <1>5 DEF IInv, TypeOK
  <2>2. content'[b] = Append(content[b], w)
    BY <1>1, <1>5 DEF IInv, TypeOK
  <2>3. content' \in [Boxes -> Seq(Webhooks)] /\ \A c \in Boxes : c # b => content'[c] = content[c]
    BY <1>1, <1>2, <1>5, <2>1 DEF IInv, TypeOK
  <2>4. Len(content[b]) \in Nat
    BY <2>1
  <2> QED
    BY <1>2, <2>1, <2>2, <2>3, <2>4, Appended
<1>9. \A v, c : c \in Boxes => ((v = w /\ c = b) \/ Filed(v, c) \/ ~Filed(v, c)')
  <2> SUFFICES ASSUME NEW v, NEW c \in Boxes, Filed(v, c)'
               PROVE  (v = w /\ c = b) \/ Filed(v, c)
    OBVIOUS
  <2>1. CASE From(v, c)'
    BY <1>7, <2>1, SameFrom DEF Filed
  <2>2. CASE In(v, c)'
    <3>1. PICK i \in 1..Len(content'[c]) : content'[c][i] = v
      BY <2>2 DEF In
    <3>2. CASE c # b
      BY <1>8, <3>1, <3>2 DEF Filed, In
    <3>3. CASE c = b
      BY <1>8, <3>1, <3>3 DEF Filed, In
    <3> QED
      BY <3>2, <3>3
  <2> QED
    BY <2>1, <2>2 DEF Filed
<1>10. TypeOK'
  <2>1. pushing' \subseteq [webhook : Webhooks, next : {1, 2}]
    <3>1. h.next < Len(to) => h.next + 1 \in {1, 2}
      BY <1>2, <1>4
    <3>2. h.next < Len(to) => g \in [webhook : Webhooks, next : {1, 2}]
      BY <1>2, <1>6, <3>1
    <3> QED
      BY <1>1, <3>2 DEF IInv, TypeOK
  <2>2. tasks' \in Seq(Tasks) /\ Len(tasks') \in 0..MaxPolls
    BY <1>7 DEF SameTasks, IInv, TypeOK
  <2> QED
    BY <1>1, <1>7, <1>8, <2>1, <2>2 DEF IInv, TypeOK
<1>11. Coming'
  <2>1. \A v \in Webhooks, c \in Boxes : Filed(v, c)' => v \in received'
    BY <1>1, <1>2, <1>9 DEF IInv, Coming
  <2>2. ASSUME NEW x \in pushing \ {h}
        PROVE  /\ x.webhook \in received' /\ x.webhook # w
               /\ x.next \in 1..Len(Destinations(x.webhook.about))
               /\ \A k \in 1..Len(Destinations(x.webhook.about)) :
                    k >= x.next => ~Filed(x.webhook, Destinations(x.webhook.about)[k])'
    <3>1. /\ x.webhook \in received' /\ x.webhook # w
          /\ x.next \in 1..Len(Destinations(x.webhook.about))
          /\ \A k \in 1..Len(Destinations(x.webhook.about)) :
               k >= x.next => ~Filed(x.webhook, Destinations(x.webhook.about)[k])
      BY <1>1 DEF IInv, Coming, w
    <3>2. x.webhook.about \in Invitations \cup Proofs
      BY DEF IInv, TypeOK, Webhooks
    <3>3. \A k \in 1..Len(Destinations(x.webhook.about)) : Destinations(x.webhook.about)[k] \in Boxes
      BY <3>2, DestinationFacts
    <3> QED
      BY <1>9, <3>1, <3>3
  <2>3. ASSUME h.next < Len(to)
        PROVE  /\ g.webhook = w
               /\ g.next \in 1..Len(to)
               /\ \A k \in 1..Len(to) : k >= g.next => ~Filed(w, to[k])'
    <3>1. g.webhook = w /\ g.next = h.next + 1 /\ h.next + 1 \in 1..Len(to)
      BY <1>2, <1>4, <1>6, <2>3
    <3>2. \A k \in 1..Len(to) : k >= h.next + 1 => k >= h.next /\ k # h.next
      BY <1>2, <1>4
    <3>3. \A k \in 1..Len(to) : k >= h.next + 1 => to[k] # b
      BY <1>2, <1>4, <3>2 DEF b
    <3>4. \A k \in 1..Len(to) : k >= h.next + 1 => to[k] \in Boxes /\ ~Filed(w, to[k])
      BY <1>2, <1>4, <3>2
    <3> QED
      BY <1>9, <3>1, <3>3, <3>4
  <2> HIDE DEF g
  <2>4. \A x \in pushing' : x \in pushing \ {h} \/ (x = g /\ h.next < Len(to))
    BY <1>1
  <2>5. \A x \in pushing' :
          /\ x.webhook \in received'
          /\ x.next \in 1..Len(Destinations(x.webhook.about))
          /\ \A k \in 1..Len(Destinations(x.webhook.about)) :
               k >= x.next => ~Filed(x.webhook, Destinations(x.webhook.about)[k])'
    BY <1>1, <1>2, <2>2, <2>3, <2>4 DEF to
  <2>6. \A x, y \in pushing' : x.webhook = y.webhook => x = y
    BY <2>2, <2>3, <2>4 DEF IInv, Coming
  <2> QED
    BY <2>1, <2>5, <2>6 DEF Coming
<1>12. OneTaker'
  <2> SUFFICES ASSUME NEW c \in Boxes
               PROVE  /\ \A i, j \in 1..Len(content'[c]) : content'[c][i] = content'[c][j] => i = j
                      /\ \A i, j \in 1..Len(tasks') :
                           /\ tasks'[i].box = c /\ tasks'[j].box = c
                           /\ tasks'[i].got = tasks'[j].got /\ tasks'[i].got # Nothing
                           => i = j
                      /\ \A i \in 1..Len(content'[c]), j \in 1..Len(tasks') :
                           tasks'[j].box = c => tasks'[j].got # content'[c][i]
    BY DEF OneTaker
  <2>1. /\ \A i, j \in 1..Len(content[c]) : content[c][i] = content[c][j] => i = j
        /\ \A i, j \in 1..Len(tasks) :
             /\ tasks[i].box = c /\ tasks[j].box = c
             /\ tasks[i].got = tasks[j].got /\ tasks[i].got # Nothing
             => i = j
        /\ \A i \in 1..Len(content[c]), j \in 1..Len(tasks) :
             tasks[j].box = c => tasks[j].got # content[c][i]
    BY DEF IInv, OneTaker
  <2>2. Len(tasks') = Len(tasks)
        /\ \A i \in 1..Len(tasks) : tasks'[i].box = tasks[i].box /\ tasks'[i].got = tasks[i].got
    BY <1>7 DEF SameTasks
  <2>3. \A i, j \in 1..Len(tasks') :
          /\ tasks'[i].box = c /\ tasks'[j].box = c
          /\ tasks'[i].got = tasks'[j].got /\ tasks'[i].got # Nothing
          => i = j
    BY <2>1, <2>2
  <2>4. CASE c # b
    <3>1. content'[c] = content[c]
      BY <1>8, <2>4
    <3> QED
      BY <2>1, <2>2, <2>3, <3>1
  <2>5. CASE c = b
    <3>1. \A i \in 1..Len(content[b]) : content[b][i] # w
      BY <1>5 DEF Filed, In
    <3>2. \A j \in 1..Len(tasks) : tasks[j].box = b => tasks[j].got # w
      BY <1>5 DEF Filed, From
    <3>3. \A i, j \in 1..Len(content'[b]) : content'[b][i] = content'[b][j] => i = j
      BY <1>8, <2>1, <2>5, <3>1
    <3>4. ASSUME NEW i \in 1..Len(content'[b]), NEW j \in 1..Len(tasks), tasks[j].box = b
          PROVE  tasks[j].got # content'[b][i]
      BY <1>8, <2>1, <2>5, <3>2, <3>4
    <3> QED
      BY <2>2, <2>3, <2>5, <3>3, <3>4
  <2> QED
    BY <2>4, <2>5
<1> QED
  BY <1>7, <1>10, <1>11, <1>12 DEF IInv

\* The task of a new poll has nothing.
LEMMA PollI == ASSUME IInv, NEW b \in Boxes, Poll(b) PROVE IInv'
<1> DEFINE t == [box |-> b, state |-> "new", got |-> Nothing, poll |-> "pending"]
<1>1. /\ ~Serving /\ Len(tasks) < MaxPolls /\ tasks' = Append(tasks, t)
      /\ UNCHANGED <<received, pushing, content, getters>>
  BY DEF Poll
<1>2. t \in Tasks /\ t.state = "new" /\ t.box = b /\ t.got = Nothing /\ t.poll = "pending"
  BY DEF Tasks
<1>3. tasks \in Seq(Tasks) /\ Len(tasks) \in Nat
  BY DEF IInv, TypeOK
<1> HIDE DEF t
<1>4. /\ tasks' \in Seq(Tasks) /\ Len(tasks') = Len(tasks) + 1 /\ tasks'[Len(tasks) + 1] = t
      /\ \A i \in 1..Len(tasks) : tasks'[i] = tasks[i]
      /\ \A i \in 1..Len(tasks') : i \in 1..Len(tasks) \/ i = Len(tasks) + 1
  BY <1>1, <1>2, <1>3, Appended
<1>5. TypeOK'
  BY <1>1, <1>3, <1>4, MessageQueueAssumption DEF IInv, TypeOK
<1>6. \A i \in 1..Len(tasks) : tasks[i].poll # "pending"
  <2> SUFFICES ASSUME NEW i \in 1..Len(tasks), tasks[i].poll = "pending" PROVE FALSE
    OBVIOUS
  <2>1. i = Len(tasks) /\ tasks # <<>>
    BY DEF IInv, Tasked
  <2> QED
    BY <1>1, <2>1 DEF Serving
<1>7. Tasked'
  <2>1. ASSUME NEW i \in 1..Len(tasks')
        PROVE  /\ tasks'[i].state = "done" <=> tasks'[i].got # Nothing
               /\ tasks'[i].poll = "pending" => i = Len(tasks') /\ tasks'[i].state # "done"
               /\ tasks'[i].poll = "answered" => tasks'[i].state = "done"
    <3>1. CASE i = Len(tasks) + 1
      BY <1>2, <1>4, <3>1
    <3>2. CASE i \in 1..Len(tasks)
      BY <1>4, <1>6, <3>2 DEF IInv, Tasked
    <3> QED
      BY <1>4, <3>1, <3>2
  <2> QED
    BY <2>1 DEF Tasked
<1>8. Queued'
  <2>1. \A i \in 1..Len(tasks) : i \in 1..Len(tasks') /\ tasks'[i] = tasks[i]
    BY <1>3, <1>4
  <2>2. getters' = getters
    BY <1>1
  <2>3. Queued
    BY DEF IInv
  <2> QED
    BY <2>1, <2>2, <2>3 DEF Queued
<1>9. \A v \in Webhooks : v # Nothing
  BY NothingAssumption
<1>10. \A i \in 1..Len(tasks') : tasks'[i].got # Nothing => i \in 1..Len(tasks)
  BY <1>2, <1>4
<1>11. \A v \in Webhooks, c \in Boxes : Filed(v, c)' => Filed(v, c)
  <2>1. \A v \in Webhooks, c \in Boxes : From(v, c)' => From(v, c)
    BY <1>4, <1>9, <1>10 DEF From
  <2> QED
    BY <1>1, <2>1 DEF Filed, In
<1>12. Coming'
  <2>1. \A h \in pushing : /\ h.webhook \in Webhooks
                           /\ \A k \in 1..Len(Destinations(h.webhook.about)) :
                                Destinations(h.webhook.about)[k] \in Boxes
    BY DestinationFacts DEF IInv, TypeOK, Webhooks
  <2> QED
    BY <1>1, <1>11, <2>1 DEF IInv, Coming
<1>13. OneTaker'
  <2>1. \A c \in Boxes : \A i \in 1..Len(content[c]) : content[c][i] # Nothing
    BY <1>9 DEF IInv, TypeOK
  <2> SUFFICES ASSUME NEW c \in Boxes
               PROVE  /\ \A i, j \in 1..Len(content[c]) : content[c][i] = content[c][j] => i = j
                      /\ \A i, j \in 1..Len(tasks') :
                           /\ tasks'[i].box = c /\ tasks'[j].box = c
                           /\ tasks'[i].got = tasks'[j].got /\ tasks'[i].got # Nothing
                           => i = j
                      /\ \A i \in 1..Len(content[c]), j \in 1..Len(tasks') :
                           tasks'[j].box = c => tasks'[j].got # content[c][i]
    BY <1>1 DEF OneTaker
  <2>2. /\ \A i, j \in 1..Len(content[c]) : content[c][i] = content[c][j] => i = j
        /\ \A i, j \in 1..Len(tasks) :
             /\ tasks[i].box = c /\ tasks[j].box = c
             /\ tasks[i].got = tasks[j].got /\ tasks[i].got # Nothing
             => i = j
        /\ \A i \in 1..Len(content[c]), j \in 1..Len(tasks) :
             tasks[j].box = c => tasks[j].got # content[c][i]
    BY DEF IInv, OneTaker
  <2>3. \A i, j \in 1..Len(tasks') :
          /\ tasks'[i].box = c /\ tasks'[j].box = c
          /\ tasks'[i].got = tasks'[j].got /\ tasks'[i].got # Nothing
          => i = j
    BY <1>4, <1>10, <2>2
  <2>4. \A i \in 1..Len(content[c]), j \in 1..Len(tasks') :
          tasks'[j].box = c => tasks'[j].got # content[c][i]
    BY <1>4, <1>10, <2>1, <2>2
  <2> QED
    BY <2>2, <2>3, <2>4
<1> QED
  BY <1>5, <1>7, <1>8, <1>12, <1>13 DEF IInv

\* What a task keeps when one field changes.
LEMMA NewState ==
  ASSUME NEW t \in Tasks, NEW s \in {"new", "waiting", "woken", "done"}
  PROVE  /\ [t EXCEPT !.state = s] \in Tasks
         /\ [t EXCEPT !.state = s].state = s /\ [t EXCEPT !.state = s].box = t.box
         /\ [t EXCEPT !.state = s].got = t.got /\ [t EXCEPT !.state = s].poll = t.poll
BY DEF Tasks

LEMMA NewPoll ==
  ASSUME NEW t \in Tasks, NEW p \in {"pending", "answered", "timed out"}
  PROVE  /\ [t EXCEPT !.poll = p] \in Tasks
         /\ [t EXCEPT !.poll = p].state = t.state /\ [t EXCEPT !.poll = p].box = t.box
         /\ [t EXCEPT !.poll = p].got = t.got /\ [t EXCEPT !.poll = p].poll = p
BY DEF Tasks

\* One that takes a webhook.
LEMMA NewDone ==
  ASSUME NEW t \in Tasks, NEW w \in Webhooks
  PROVE  LET e == [t EXCEPT !.state = "done", !.got = w,
                            !.poll = IF @ = "pending" THEN "answered" ELSE @]
         IN /\ e \in Tasks /\ e.state = "done" /\ e.box = t.box /\ e.got = w
            /\ e.poll = IF t.poll = "pending" THEN "answered" ELSE t.poll
BY DEF Tasks

\* The tasks, and one of them.
LEMMA TaskFacts ==
  ASSUME TypeOK
  PROVE  /\ tasks \in Seq(Tasks) /\ Len(tasks) \in Nat
         /\ \A i \in 1..Len(tasks) : tasks[i] \in Tasks /\ tasks[i].box \in Boxes /\ i \in 1..MaxPolls
<1>1. tasks \in Seq(Tasks) /\ Len(tasks) \in Nat /\ Len(tasks) <= MaxPolls /\ MaxPolls \in Nat
  BY MessageQueueAssumption DEF TypeOK
<1>2. \A i \in 1..Len(tasks) : tasks[i] \in Tasks
  BY <1>1
<1>3. \A t \in Tasks : t.box \in Boxes
  BY DEF Tasks
<1> QED
  BY <1>1, <1>2, <1>3

LEMMA GetNothingI == ASSUME IInv, NEW i \in 1..Len(tasks), GetNothing(i) PROVE IInv'
<1> DEFINE b == tasks[i].box
<1>1. /\ tasks[i].state \in {"new", "woken"}
      /\ tasks' = [tasks EXCEPT ![i].state = "waiting"]
      /\ getters' = [getters EXCEPT ![b] = Append(@, i)]
      /\ UNCHANGED <<received, pushing, content>>
  BY DEF GetNothing
<1> DEFINE e == [tasks[i] EXCEPT !.state = "waiting"]
<1>2. tasks \in Seq(Tasks) /\ tasks[i] \in Tasks /\ b \in Boxes /\ i \in 1..MaxPolls
  BY TaskFacts DEF IInv
<1>3. /\ e \in Tasks /\ e.state = "waiting" /\ e.box = tasks[i].box
      /\ e.got = tasks[i].got /\ e.poll = tasks[i].poll
  BY <1>2, NewState
<1>4. tasks' = [tasks EXCEPT ![i] = e]
  BY <1>1
<1> HIDE DEF e
<1>5. /\ tasks' \in Seq(Tasks) /\ Len(tasks') = Len(tasks)
      /\ tasks'[i].box = tasks[i].box /\ tasks'[i].state = "waiting"
      /\ tasks'[i].got = tasks[i].got /\ tasks'[i].poll = tasks[i].poll
      /\ \A j \in 1..Len(tasks) : j # i => tasks'[j] = tasks[j]
  BY <1>2, <1>3, <1>4, Replaced
<1>6. SameTasks
  BY <1>5 DEF SameTasks
<1>7. Coming' /\ OneTaker'
  BY <1>1, <1>6, Kept
<1>8. b \in Boxes /\ i \in 1..MaxPolls
  BY <1>2
<1> HIDE DEF b
<1>9. /\ getters' \in [Boxes -> Seq(1..MaxPolls)]
      /\ \A c \in Boxes : c # b => getters'[c] = getters[c]
      /\ Len(getters[b]) \in Nat
      /\ Len(getters'[b]) = Len(getters[b]) + 1
      /\ getters'[b][Len(getters[b]) + 1] = i
      /\ \A k \in 1..Len(getters[b]) : getters'[b][k] = getters[b][k]
      /\ \A k \in 1..Len(getters'[b]) : k \in 1..Len(getters[b]) \/ k = Len(getters[b]) + 1
  <2>1. getters[b] \in Seq(1..MaxPolls)
    BY <1>8 DEF IInv, TypeOK
  <2>2. getters'[b] = Append(getters[b], i)
    BY <1>1, <1>8 DEF IInv, TypeOK
  <2>3. getters' \in [Boxes -> Seq(1..MaxPolls)] /\ \A c \in Boxes : c # b => getters'[c] = getters[c]
    BY <1>1, <1>8, <2>1 DEF IInv, TypeOK
  <2>4. Len(getters[b]) \in Nat
    BY <2>1
  <2>5. /\ Len(Append(getters[b], i)) = Len(getters[b]) + 1
        /\ Append(getters[b], i)[Len(getters[b]) + 1] = i
        /\ \A k \in 1..Len(getters[b]) : Append(getters[b], i)[k] = getters[b][k]
        /\ \A k \in 1..Len(Append(getters[b], i)) : k \in 1..Len(getters[b]) \/ k = Len(getters[b]) + 1
    BY <1>8, <2>1, Appended
  <2> QED
    BY <2>2, <2>3, <2>4, <2>5
<1>10. TypeOK'
  BY <1>1, <1>5, <1>9 DEF IInv, TypeOK
<1>11. Tasked'
  <2>1. ASSUME NEW j \in 1..Len(tasks)
        PROVE  /\ tasks'[j].state = "done" <=> tasks'[j].got # Nothing
               /\ tasks'[j].poll = "pending" => j = Len(tasks) /\ tasks'[j].state # "done"
               /\ tasks'[j].poll = "answered" => tasks'[j].state = "done"
    <3>1. CASE j = i
      BY <1>1, <1>5, <3>1 DEF IInv, Tasked
    <3>2. CASE j # i
      BY <1>5, <3>2 DEF IInv, Tasked
    <3> QED
      BY <3>1, <3>2
  <2> QED
    BY <1>5, <2>1 DEF Tasked
<1>12. \A c \in Boxes : \A k \in 1..Len(getters[c]) :
         /\ getters[c][k] \in 1..Len(tasks) /\ getters[c][k] # i
         /\ tasks[getters[c][k]].box = c /\ tasks[getters[c][k]].state = "waiting"
  BY <1>1 DEF IInv, Queued
<1>13. Queued'
  <2>1. ASSUME NEW c \in Boxes, NEW k \in 1..Len(getters'[c])
        PROVE  /\ getters'[c][k] \in 1..Len(tasks)
               /\ tasks'[getters'[c][k]].box = c
               /\ tasks'[getters'[c][k]].state = "waiting"
    <3>1. CASE c = b /\ k = Len(getters[b]) + 1
      BY <1>5, <1>9, <3>1 DEF b
    <3>2. CASE k \in 1..Len(getters[c]) /\ getters'[c][k] = getters[c][k]
      BY <1>5, <1>12, <3>2
    <3> QED
      BY <1>9, <3>1, <3>2
  <2>2. ASSUME NEW c \in Boxes, NEW k \in 1..Len(getters'[c]), NEW l \in 1..Len(getters'[c]),
               getters'[c][k] = getters'[c][l]
        PROVE  k = l
    <3>1. CASE c # b
      BY <1>9, <2>2, <3>1 DEF IInv, Queued
    <3>2. CASE c = b
      <4>1. \A m \in 1..Len(getters[b]) : getters'[b][m] # i
        <5>1. \A m \in 1..Len(getters[b]) : getters[b][m] # i
          BY <1>8, <1>12
        <5> QED
          BY <1>9, <5>1
      <4>2. \A m, n \in 1..Len(getters[b]) : getters'[b][m] = getters'[b][n] => m = n
        BY <1>8, <1>9 DEF IInv, Queued
      <4> QED
        BY <1>9, <2>2, <3>2, <4>1, <4>2
    <3> QED
      BY <3>1, <3>2
  <2> QED
    BY <1>5, <2>1, <2>2 DEF Queued
<1> QED
  BY <1>7, <1>10, <1>11, <1>13 DEF IInv

LEMMA TimeOutI == ASSUME IInv, TimeOut PROVE IInv'
<1> DEFINE i == Len(tasks)
<1>1. /\ tasks # <<>> /\ tasks[i].state \in {"waiting", "woken"} /\ tasks[i].poll = "pending"
      /\ tasks' = [tasks EXCEPT ![i].poll = "timed out"]
      /\ UNCHANGED <<received, pushing, content, getters>>
  BY DEF TimeOut, Serving
<1>2. tasks \in Seq(Tasks)
  BY DEF IInv, TypeOK
<1>3. i \in 1..Len(tasks) /\ tasks[i] \in Tasks
  <2>1. Len(tasks) \in Nat \ {0}
    BY <1>1, <1>2, Popped
  <2> QED
    BY <2>1, TaskFacts DEF IInv
<1> HIDE DEF i
<1> DEFINE e == [tasks[i] EXCEPT !.poll = "timed out"]
<1>4. /\ e \in Tasks /\ e.state = tasks[i].state /\ e.box = tasks[i].box
      /\ e.got = tasks[i].got /\ e.poll = "timed out"
  BY <1>3, NewPoll
<1>5. tasks' = [tasks EXCEPT ![i] = e]
  BY <1>1
<1> HIDE DEF e
<1>6. /\ tasks' \in Seq(Tasks) /\ Len(tasks') = Len(tasks)
      /\ tasks'[i].box = tasks[i].box /\ tasks'[i].state = tasks[i].state
      /\ tasks'[i].got = tasks[i].got /\ tasks'[i].poll = "timed out"
      /\ \A j \in 1..Len(tasks) : j # i => tasks'[j] = tasks[j]
  <2>1. /\ [tasks EXCEPT ![i] = e] \in Seq(Tasks)
        /\ Len([tasks EXCEPT ![i] = e]) = Len(tasks)
        /\ [tasks EXCEPT ![i] = e][i] = e
        /\ \A j \in 1..Len(tasks) : j # i => [tasks EXCEPT ![i] = e][j] = tasks[j]
    <3>1. tasks \in Seq(Tasks) /\ i \in 1..Len(tasks) /\ e \in Tasks
      BY <1>2, <1>3, <1>4
    <3> QED
      BY <3>1, Replaced
  <2> QED
    BY <1>4, <1>5, <2>1
<1>7. SameTasks
  BY <1>6 DEF SameTasks
<1>8. Coming' /\ OneTaker'
  BY <1>1, <1>7, Kept
<1>9. TypeOK'
  BY <1>1, <1>6 DEF IInv, TypeOK
<1>10. \A j \in 1..Len(tasks) : tasks'[j].state = tasks[j].state /\ tasks'[j].box = tasks[j].box
  BY <1>6
<1>11. Tasked'
  <2>1. ASSUME NEW j \in 1..Len(tasks)
        PROVE  /\ tasks'[j].state = "done" <=> tasks'[j].got # Nothing
               /\ tasks'[j].poll = "pending" => j = Len(tasks) /\ tasks'[j].state # "done"
               /\ tasks'[j].poll = "answered" => tasks'[j].state = "done"
    <3>1. CASE j = i
      BY <1>6, <3>1 DEF IInv, Tasked
    <3>2. CASE j # i
      BY <1>6, <3>2 DEF IInv, Tasked
    <3> QED
      BY <3>1, <3>2
  <2> QED
    BY <1>6, <2>1 DEF Tasked
<1>12. Queued'
  <2>1. getters' = getters /\ Len(tasks') = Len(tasks)
    BY <1>1, <1>6
  <2> QED
    BY <1>10, <2>1 DEF IInv, Queued
<1> QED
  BY <1>8, <1>9, <1>11, <1>12 DEF IInv

\* A task that takes a webhook takes it out of the box.
LEMMA GetI == ASSUME IInv, NEW i \in 1..Len(tasks), Get(i) PROVE IInv'
<1> DEFINE b == tasks[i].box
           w == First(b)
           e == [tasks[i] EXCEPT !.state = "done", !.got = w,
                                 !.poll = IF @ = "pending" THEN "answered" ELSE @]
<1>1. /\ tasks[i].state \in {"new", "woken"}
      /\ content[b] # <<>>
      /\ tasks' = [tasks EXCEPT ![i] = e]
      /\ content' = [content EXCEPT ![b] = Others(b)]
      /\ UNCHANGED <<received, pushing, getters>>
  BY DEF Get
<1>2. tasks \in Seq(Tasks) /\ tasks[i] \in Tasks /\ b \in Boxes
  BY TaskFacts DEF IInv
<1> HIDE DEF b
<1>3. /\ w \in Webhooks /\ Others(b) \in Seq(Webhooks)
      /\ \E f \in 1..Len(content[b]) :
           /\ w = content[b][f]
           /\ \A k \in 1..Len(Others(b)) :
                \E j \in 1..Len(content[b]) : j # f /\ Others(b)[k] = content[b][j]
      /\ (\A k, j \in 1..Len(content[b]) : content[b][k] = content[b][j] => k = j)
           => \A k, j \in 1..Len(Others(b)) : Others(b)[k] = Others(b)[j] => k = j
  BY <1>1, <1>2, Split DEF IInv
<1> HIDE DEF w
<1>4. /\ e \in Tasks /\ e.state = "done" /\ e.box = tasks[i].box /\ e.got = w
      /\ e.poll = IF tasks[i].poll = "pending" THEN "answered" ELSE tasks[i].poll
  BY <1>2, <1>3, NewDone
<1> HIDE DEF e
<1>5. /\ tasks' \in Seq(Tasks) /\ Len(tasks') = Len(tasks)
      /\ tasks'[i] = e
      /\ \A j \in 1..Len(tasks) : j # i => tasks'[j] = tasks[j]
  BY <1>1, <1>2, <1>4, Replaced
<1>6. /\ tasks'[i].box = b /\ tasks'[i].state = "done" /\ tasks'[i].got = w
      /\ tasks'[i].poll # "pending"
  BY <1>4, <1>5 DEF b
<1>7. /\ content' \in [Boxes -> Seq(Webhooks)] /\ content'[b] = Others(b)
      /\ \A c \in Boxes : c # b => content'[c] = content[c]
  BY <1>1, <1>2, <1>3 DEF IInv, TypeOK
<1>8. w # Nothing
  BY <1>3, NothingAssumption
<1>9. TypeOK'
  BY <1>1, <1>5, <1>7 DEF IInv, TypeOK
<1>10. Tasked'
  <2>1. ASSUME NEW j \in 1..Len(tasks)
        PROVE  /\ tasks'[j].state = "done" <=> tasks'[j].got # Nothing
               /\ tasks'[j].poll = "pending" => j = Len(tasks) /\ tasks'[j].state # "done"
               /\ tasks'[j].poll = "answered" => tasks'[j].state = "done"
    <3>1. CASE j = i
      BY <1>6, <1>8, <3>1
    <3>2. CASE j # i
      BY <1>5, <3>2 DEF IInv, Tasked
    <3> QED
      BY <3>1, <3>2
  <2> QED
    BY <1>5, <2>1 DEF Tasked
<1>11. Queued'
  <2>1. \A c \in Boxes : \A k \in 1..Len(getters[c]) : getters[c][k] # i
    BY <1>1 DEF IInv, Queued
  <2> QED
    BY <1>1, <1>5, <2>1 DEF IInv, Queued
<1>12. PICK f \in 1..Len(content[b]) :
         /\ w = content[b][f]
         /\ \A k \in 1..Len(Others(b)) :
              \E j \in 1..Len(content[b]) : j # f /\ Others(b)[k] = content[b][j]
  BY <1>3
<1>13. \A v, c : c \in Boxes => (Filed(v, c)' => Filed(v, c))
  <2> SUFFICES ASSUME NEW v, NEW c \in Boxes, Filed(v, c)'
               PROVE  Filed(v, c)
    OBVIOUS
  <2>1. CASE From(v, c)'
    <3>1. PICK j \in 1..Len(tasks) : tasks'[j].box = c /\ tasks'[j].got = v
      BY <1>5, <2>1 DEF From
    <3>2. CASE j = i
      BY <1>6, <1>12, <3>1, <3>2 DEF Filed, In
    <3>3. CASE j # i
      BY <1>5, <3>1, <3>3 DEF Filed, From
    <3> QED
      BY <3>2, <3>3
  <2>2. CASE In(v, c)'
    <3>1. PICK k \in 1..Len(content'[c]) : content'[c][k] = v
      BY <2>2 DEF In
    <3>2. CASE c = b
      <4>1. PICK j \in 1..Len(content[b]) : Others(b)[k] = content[b][j]
        BY <1>7, <1>12, <3>1, <3>2
      <4> QED
        BY <1>7, <3>1, <3>2, <4>1 DEF Filed, In
    <3>3. CASE c # b
      BY <1>7, <3>1, <3>3 DEF Filed, In
    <3> QED
      BY <3>2, <3>3
  <2> QED
    BY <2>1, <2>2 DEF Filed
<1>14. Coming'
  <2>1. \A h \in pushing : \A k \in 1..Len(Destinations(h.webhook.about)) :
          Destinations(h.webhook.about)[k] \in Boxes
    BY DestinationFacts DEF IInv, TypeOK, Webhooks
  <2> QED
    BY <1>1, <1>13, <2>1 DEF IInv, Coming
<1>15. OneTaker'
  <2> SUFFICES ASSUME NEW c \in Boxes
               PROVE  /\ \A k, j \in 1..Len(content'[c]) : content'[c][k] = content'[c][j] => k = j
                      /\ \A k, j \in 1..Len(tasks') :
                           /\ tasks'[k].box = c /\ tasks'[j].box = c
                           /\ tasks'[k].got = tasks'[j].got /\ tasks'[k].got # Nothing
                           => k = j
                      /\ \A k \in 1..Len(content'[c]), j \in 1..Len(tasks') :
                           tasks'[j].box = c => tasks'[j].got # content'[c][k]
    BY DEF OneTaker
  <2>1. /\ \A k, j \in 1..Len(content[c]) : content[c][k] = content[c][j] => k = j
        /\ \A k, j \in 1..Len(tasks) :
             /\ tasks[k].box = c /\ tasks[j].box = c
             /\ tasks[k].got = tasks[j].got /\ tasks[k].got # Nothing
             => k = j
        /\ \A k \in 1..Len(content[c]), j \in 1..Len(tasks) :
             tasks[j].box = c => tasks[j].got # content[c][k]
    BY DEF IInv, OneTaker
  <2>2. CASE c # b
    <3>1. content'[c] = content[c]
      BY <1>7, <2>2
    <3>2. \A j \in 1..Len(tasks') : tasks'[j].box = c => j \in 1..Len(tasks) /\ tasks'[j] = tasks[j]
      BY <1>5, <1>6, <2>2
    <3> QED
      BY <2>1, <3>1, <3>2
  <2>3. CASE c = b
    <3>1. \A k, j \in 1..Len(content'[b]) : content'[b][k] = content'[b][j] => k = j
      BY <1>3, <1>7, <2>1, <2>3
    <3>2. \A j \in 1..Len(tasks) : tasks[j].box = b => tasks[j].got # w
      BY <1>12, <2>1, <2>3
    <3>3. ASSUME NEW k \in 1..Len(tasks'), NEW j \in 1..Len(tasks'),
                 tasks'[k].box = b, tasks'[j].box = b,
                 tasks'[k].got = tasks'[j].got, tasks'[k].got # Nothing
          PROVE  k = j
      BY <1>5, <1>6, <2>1, <2>3, <3>2, <3>3
    <3>4. ASSUME NEW k \in 1..Len(content'[b]), NEW j \in 1..Len(tasks'), tasks'[j].box = b
          PROVE  tasks'[j].got # content'[b][k]
      <4>1. PICK l \in 1..Len(content[b]) : l # f /\ Others(b)[k] = content[b][l]
        BY <1>7, <1>12
      <4>2. content'[b][k] = content[b][l] /\ content[b][l] # w
        BY <1>7, <1>12, <2>1, <2>3, <4>1
      <4>3. j \in 1..Len(tasks)
        BY <1>5
      <4>4. CASE j = i
        BY <1>6, <4>2, <4>4
      <4>5. CASE j # i
        BY <1>5, <2>1, <2>3, <3>4, <4>2, <4>3, <4>5
      <4> QED
        BY <4>4, <4>5
    <3> QED
      BY <2>3, <3>1, <3>3, <3>4
  <2> QED
    BY <2>2, <2>3
<1> QED
  BY <1>9, <1>10, <1>11, <1>14, <1>15 DEF IInv

LEMMA StepI == ASSUME IInv, [Next]_vars PROVE IInv'
<1>1. CASE Receive
  BY <1>1, ReceiveI
<1>2. CASE \E b \in Boxes : Poll(b)
  BY <1>2, PollI
<1>3. CASE \E h \in pushing : Push(h)
  BY <1>3, PushI
<1>4. CASE \E i \in 1..Len(tasks) : GetNothing(i)
  BY <1>4, GetNothingI
<1>5. CASE \E i \in 1..Len(tasks) : Get(i)
  BY <1>5, GetI
<1>6. CASE TimeOut
  BY <1>6, TimeOutI
<1>7. CASE UNCHANGED vars
  <2>1. UNCHANGED <<received, pushing, content, getters, tasks>>
    BY <1>7 DEF vars
  <2>2. TypeOK'
    BY <2>1 DEF IInv, TypeOK
  <2>3. Tasked'
    BY <2>1 DEF IInv, Tasked
  <2>4. Queued'
    BY <2>1 DEF IInv, Queued
  <2>5. OneTaker'
    BY <2>1 DEF IInv, OneTaker
  <2>6. Coming'
    BY <2>1 DEF IInv, Coming, Filed, In, From
  <2> QED
    BY <2>2, <2>3, <2>4, <2>5, <2>6 DEF IInv
<1> QED
  BY <1>1, <1>2, <1>3, <1>4, <1>5, <1>6, <1>7 DEF Next, Loop

\* The invariant holds for any invitations and proofs, webhooks and polls.
THEOREM Invariance == Spec => []IInv
<1>1. Init => IInv
  BY InitI
<1>2. IInv /\ [Next]_vars => IInv'
  BY StepI
<1> QED
  BY <1>1, <1>2, PTL DEF Spec

\* Every variable keeps its type.
THEOREM QueueTypes == Spec => []TypeOK
<1>1. IInv => TypeOK
  BY DEF IInv
<1> QED
  BY <1>1, Invariance, PTL

\* A webhook is never handed out twice, however gets, handlers and timeouts
\* interleave.
THEOREM HandedOutOnce == Spec => []OneTaker
<1>1. IInv => OneTaker
  BY DEF IInv
<1> QED
  BY <1>1, Invariance, PTL

----------------------------------------------------------------------------
(* The queues implement LossyMailbox; its liveness is left to TLC.         *)

AB == Abstract!Next \/ UNCHANGED Abstract!vars

\* A step that leaves the polls alone is not seen by the mailbox.
LEMMA SamePollsMap ==
  ASSUME TypeOK, SameTasks, SamePolls
  PROVE  UNCHANGED <<Asked, LastAnswer, Debt>>
<1>1. tasks \in Seq(Tasks) /\ tasks' \in Seq(Tasks) /\ Len(tasks') = Len(tasks)
      /\ Len(tasks) \in Nat /\ (tasks # <<>> => Len(tasks) \in 1..Len(tasks))
  BY TaskFacts, Popped DEF SameTasks
<1>2. tasks' = <<>> <=> tasks = <<>>
  BY <1>1, Popped
<1>3. Serving' <=> Serving
  BY <1>1, <1>2 DEF Serving, SamePolls
<1>4. UNCHANGED <<Asked, LastAnswer>>
  BY <1>1, <1>2, <1>3 DEF Asked, LastAnswer, Serving, SamePolls, SameTasks
<1>5. \A b \in Boxes : Orphans(b)' = Orphans(b)
  BY <1>1 DEF Orphans, SamePolls, SameTasks
<1>6. Debt' = Debt
  BY <1>5 DEF Debt
<1> QED
  BY <1>4, <1>6

\* The orphans of a box can be counted.
LEMMA OrphansFinite ==
  ASSUME TypeOK, NEW b
  PROVE  IsFiniteSet(Orphans(b)) /\ Cardinality(Orphans(b)) \in Nat
<1>1. IsFiniteSet(1..Len(tasks))
  BY FS_Interval, TaskFacts
<1>2. Orphans(b) \in SUBSET (1..Len(tasks))
  BY DEF Orphans
<1>3. IsFiniteSet(Orphans(b))
  BY <1>1, <1>2, FS_Subset
<1> QED
  BY <1>3, FS_CardinalityType

LEMMA NoBoxIsNone == NoBox \notin Boxes /\ Abstract!Boxes = Boxes
<1>1. Boxes \subseteq {"queue", "stack"} \X (Invitations \cup Proofs \cup {NoId})
  BY DEF Boxes, Queues, Stacks
<1> QED
  BY <1>1, MessageQueueAssumption DEF Boxes, Abstract!Boxes

\* A handler's push is a delivery.
LEMMA PushMaps == ASSUME IInv, NEW h \in pushing, Push(h) PROVE AB
<1> DEFINE w  == h.webhook
           b  == Destinations(w.about)[h.next]
<1>1. content' = [content EXCEPT ![b] = Append(@, w)] /\ WakeFirst(b)
  BY DEF Push
<1>2. w \in Webhooks /\ h.next \in 1..Len(Destinations(w.about))
  BY DEF IInv, TypeOK, Coming
<1>3. b \in Boxes
  BY <1>2, DestinationFacts DEF Webhooks
<1> HIDE DEF b, w
<1>4. SameTasks /\ SamePolls
  BY <1>1, <1>3, Wakes DEF IInv
<1>5. UNCHANGED <<Asked, LastAnswer, Debt>>
  BY <1>4, SamePollsMap DEF IInv
<1>6. Abstract!Deliver(b)
  BY <1>1, <1>2, <1>5 DEF Abstract!Deliver
<1> QED
  BY <1>3, <1>6, NoBoxIsNone DEF AB, Abstract!Next

\* A new poll asks.
LEMMA PollMaps == ASSUME IInv, NEW b \in Boxes, Poll(b) PROVE AB
<1> DEFINE t == [box |-> b, state |-> "new", got |-> Nothing, poll |-> "pending"]
<1>1. /\ ~Serving /\ tasks' = Append(tasks, t) /\ content' = content
  BY DEF Poll
<1>2. t \in Tasks /\ t.box = b /\ t.poll = "pending"
  BY DEF Tasks
<1>3. tasks \in Seq(Tasks) /\ Len(tasks) \in Nat
  BY TaskFacts DEF IInv
<1> HIDE DEF t
<1>4. /\ tasks' \in Seq(Tasks) /\ Len(tasks') = Len(tasks) + 1 /\ tasks'[Len(tasks) + 1] = t
      /\ \A i \in 1..Len(tasks) : i \in 1..Len(tasks') /\ tasks'[i] = tasks[i]
      /\ \A i \in 1..Len(tasks') : i \in 1..Len(tasks) \/ i = Len(tasks) + 1
  <2>1. /\ tasks' \in Seq(Tasks) /\ Len(tasks') = Len(tasks) + 1 /\ tasks'[Len(tasks) + 1] = t
        /\ \A i \in 1..Len(tasks) : tasks'[i] = tasks[i]
        /\ \A i \in 1..Len(tasks') : i \in 1..Len(tasks) \/ i = Len(tasks) + 1
    BY <1>1, <1>2, <1>3, Appended
  <2>2. \A i \in 1..Len(tasks) : i \in 1..Len(tasks')
    BY <1>3, <2>1
  <2> QED
    BY <2>1, <2>2
<1>5. tasks' # <<>>
  BY <1>3, <1>4
<1>6. Asked = NoBox /\ Asked' = b /\ LastAnswer' = Nothing
  BY <1>1, <1>2, <1>4, <1>5 DEF Asked, LastAnswer, Serving
<1>7. \A c \in Boxes : Orphans(c)' = Orphans(c)
  BY <1>2, <1>4 DEF Orphans
<1>8. Debt' = Debt
  BY <1>7 DEF Debt
<1>9. Abstract!Ask(b)
  BY <1>1, <1>6, <1>8 DEF Abstract!Ask
<1> QED
  BY <1>9, NoBoxIsNone DEF AB, Abstract!Next

\* A get() that finds a webhook answers its poll, or pays a debt if the poll has gone.
LEMMA GetMaps == ASSUME IInv, NEW i \in 1..Len(tasks), Get(i) PROVE AB
<1>1. PICK b \in Boxes : b = tasks[i].box
  BY TaskFacts DEF IInv
<1> DEFINE w == First(b)
           e == [tasks[i] EXCEPT !.state = "done", !.got = w,
                                 !.poll = IF @ = "pending" THEN "answered" ELSE @]
<1>2. /\ tasks[i].state \in {"new", "woken"}
      /\ content[b] # <<>>
      /\ tasks' = [tasks EXCEPT ![i] = e]
      /\ content' = [content EXCEPT ![b] = Others(b)]
  BY <1>1 DEF Get
<1>3. tasks \in Seq(Tasks) /\ tasks[i] \in Tasks /\ b \in Boxes /\ Len(tasks) \in Nat
  BY TaskFacts DEF IInv
<1>4. w \in Webhooks
  BY <1>2, <1>3, Split DEF IInv
<1>5. /\ Abstract!First(b) = w /\ Abstract!Others(b) = Others(b)
  BY DEF Abstract!First, Abstract!Others, First, Others
<1> HIDE DEF w
<1>6. /\ e \in Tasks /\ e.state = "done" /\ e.box = tasks[i].box /\ e.got = w
      /\ e.poll = IF tasks[i].poll = "pending" THEN "answered" ELSE tasks[i].poll
  BY <1>3, <1>4, NewDone
<1> HIDE DEF e
<1>7. /\ tasks' \in Seq(Tasks) /\ Len(tasks') = Len(tasks) /\ tasks'[i] = e
      /\ \A j \in 1..Len(tasks) : j # i => tasks'[j] = tasks[j]
  BY <1>2, <1>3, <1>6, Replaced
<1>8. tasks # <<>> /\ tasks' # <<>> /\ Len(tasks) \in 1..Len(tasks)
  BY <1>3, <1>7
<1>9. tasks[i].poll \in {"pending", "timed out"}
  BY <1>2, <1>3 DEF IInv, Tasked, Tasks
<1>10. \A c \in Boxes : c # b => Orphans(c)' = Orphans(c)
  <2>1. ASSUME NEW c \in Boxes, c # b, NEW j \in 1..Len(tasks)
        PROVE  j \in Orphans(c)' <=> j \in Orphans(c)
    <3>1. CASE j = i
      BY <1>1, <1>6, <1>7, <2>1, <3>1 DEF Orphans
    <3>2. CASE j # i
      BY <1>7, <3>2 DEF Orphans
    <3> QED
      BY <3>1, <3>2
  <2>2. \A c \in Boxes : Orphans(c)' \subseteq 1..Len(tasks) /\ Orphans(c) \subseteq 1..Len(tasks)
    BY <1>7 DEF Orphans
  <2> QED
    BY <2>1, <2>2
<1>11. Orphans(b)' = Orphans(b) \ {i}
  <2>1. ASSUME NEW j \in 1..Len(tasks)
        PROVE  j \in Orphans(b)' <=> j \in Orphans(b) /\ j # i
    <3>1. CASE j = i
      BY <1>1, <1>6, <1>7, <3>1 DEF Orphans
    <3>2. CASE j # i
      BY <1>7, <3>2 DEF Orphans
    <3> QED
      BY <3>1, <3>2
  <2>2. Orphans(b)' \subseteq 1..Len(tasks) /\ Orphans(b) \subseteq 1..Len(tasks)
    BY <1>7 DEF Orphans
  <2> QED
    BY <2>1, <2>2
<1>12. CASE tasks[i].poll = "pending"
  <2>1. i = Len(tasks)
    BY <1>12 DEF IInv, Tasked
  <2>2. Asked = b
    BY <1>1, <1>8, <1>12, <2>1 DEF Asked, Serving
  <2>3. Asked' = NoBox /\ LastAnswer' = w
    BY <1>6, <1>7, <1>8, <1>12, <2>1 DEF Asked, LastAnswer, Serving
  <2>4. i \notin Orphans(b)
    BY <1>12 DEF Orphans
  <2>5. \A c \in Boxes : Orphans(c)' = Orphans(c)
    BY <1>10, <1>11, <2>4
  <2>6. Debt' = Debt
    BY <2>5 DEF Debt
  <2>7. Abstract!Answer(b)
    BY <1>2, <1>5, <2>2, <2>3, <2>6 DEF Abstract!Answer
  <2> QED
    BY <1>3, <2>7, NoBoxIsNone DEF AB, Abstract!Next
<1>13. CASE tasks[i].poll = "timed out"
  <2>1. i \in Orphans(b)
    BY <1>1, <1>2, <1>13 DEF Orphans
  <2>2. \A j \in 1..Len(tasks) : tasks'[j].poll = tasks[j].poll /\ tasks'[j].box = tasks[j].box
                                 /\ (tasks[j].poll = "answered" => tasks'[j].got = tasks[j].got)
    BY <1>6, <1>7, <1>13
  <2>3. UNCHANGED <<Asked, LastAnswer>>
    BY <1>7, <1>8, <2>2 DEF Asked, LastAnswer, Serving
  <2>4. /\ Cardinality(Orphans(b)) \in Nat /\ Cardinality(Orphans(b)) > 0
        /\ Cardinality(Orphans(b)') = Cardinality(Orphans(b)) - 1
    <3>1. IsFiniteSet(Orphans(b)) /\ Cardinality(Orphans(b)) \in Nat
      BY OrphansFinite DEF IInv
    <3>2. IsFiniteSet(Orphans(b) \ {i}) /\ Cardinality(Orphans(b) \ {i}) = Cardinality(Orphans(b)) - 1
      BY <2>1, <3>1, FS_RemoveElement
    <3>3. Cardinality(Orphans(b) \ {i}) \in Nat
      BY <3>2, FS_CardinalityType
    <3> QED
      BY <1>11, <3>1, <3>2, <3>3
  <2>5. Debt' = [Debt EXCEPT ![b] = @ - 1] /\ Debt[b] > 0
    BY <1>3, <1>10, <2>4 DEF Debt
  <2>6. Abstract!Lose(b)
    BY <1>2, <1>5, <2>3, <2>5 DEF Abstract!Lose
  <2> QED
    BY <1>3, <2>6, NoBoxIsNone DEF AB, Abstract!Next
<1> QED
  BY <1>9, <1>12, <1>13

\* A poll that times out gives up and leaves a debt.
LEMMA TimeOutMaps == ASSUME IInv, TimeOut PROVE AB
<1>1. PICK i \in Nat : i = Len(tasks)
  BY TaskFacts DEF IInv
<1>2. /\ Serving /\ tasks # <<>>
      /\ tasks[i].state \in {"waiting", "woken"} /\ tasks[i].poll = "pending"
      /\ tasks' = [tasks EXCEPT ![i].poll = "timed out"]
      /\ content' = content
  BY <1>1 DEF TimeOut, Serving
<1>3. tasks \in Seq(Tasks) /\ Len(tasks) \in Nat \ {0}
  BY <1>2, Popped, TaskFacts DEF IInv
<1>4. i \in 1..Len(tasks)
  BY <1>1, <1>3
<1>5. tasks[i] \in Tasks /\ tasks[i].box \in Boxes
  BY <1>4, TaskFacts DEF IInv
<1>6. Asked = tasks[i].box /\ LastAnswer = Nothing
  BY <1>1, <1>2 DEF Asked, LastAnswer
<1>7. PICK b \in Boxes : b = tasks[i].box
  BY <1>5
<1> DEFINE e == [tasks[i] EXCEPT !.poll = "timed out"]
<1>8. /\ e \in Tasks /\ e.state = tasks[i].state /\ e.box = tasks[i].box
      /\ e.got = tasks[i].got /\ e.poll = "timed out"
  BY <1>5, NewPoll
<1>9. tasks' = [tasks EXCEPT ![i] = e]
  BY <1>2
<1> HIDE DEF e
<1>10. /\ tasks' \in Seq(Tasks) /\ Len(tasks') = Len(tasks) /\ tasks'[i] = e
      /\ \A j \in 1..Len(tasks) : j # i => tasks'[j] = tasks[j]
  <2>1. tasks \in Seq(Tasks) /\ i \in 1..Len(tasks) /\ e \in Tasks
    BY <1>3, <1>4, <1>8
  <2>2. /\ [tasks EXCEPT ![i] = e] \in Seq(Tasks)
        /\ Len([tasks EXCEPT ![i] = e]) = Len(tasks)
        /\ [tasks EXCEPT ![i] = e][i] = e
        /\ \A j \in 1..Len(tasks) : j # i => [tasks EXCEPT ![i] = e][j] = tasks[j]
    BY <2>1, Replaced
  <2> QED
    BY <1>9, <2>2
<1>11. Asked' = NoBox /\ LastAnswer' = Nothing
  BY <1>1, <1>8, <1>10 DEF Asked, LastAnswer, Serving
<1>12. \A c \in Boxes : c # b => Orphans(c)' = Orphans(c)
  <2>1. ASSUME NEW c \in Boxes, c # b, NEW j \in 1..Len(tasks)
        PROVE  j \in Orphans(c)' <=> j \in Orphans(c)
    <3>1. CASE j = i
      BY <1>7, <1>8, <1>10, <2>1, <3>1 DEF Orphans
    <3>2. CASE j # i
      BY <1>10, <3>2 DEF Orphans
    <3> QED
      BY <3>1, <3>2
  <2>2. \A c \in Boxes : Orphans(c)' \subseteq 1..Len(tasks) /\ Orphans(c) \subseteq 1..Len(tasks)
    BY <1>10 DEF Orphans
  <2> QED
    BY <2>1, <2>2
<1>13. Orphans(b)' = Orphans(b) \cup {i} /\ i \notin Orphans(b)
  <2>1. ASSUME NEW j \in 1..Len(tasks)
        PROVE  j \in Orphans(b)' <=> j \in Orphans(b) \/ j = i
    <3>1. CASE j = i
      BY <1>7, <1>2, <1>4, <1>8, <1>10, <3>1 DEF Orphans
    <3>2. CASE j # i
      BY <1>10, <3>2 DEF Orphans
    <3> QED
      BY <3>1, <3>2
  <2>2. Orphans(b)' \subseteq 1..Len(tasks) /\ Orphans(b) \subseteq 1..Len(tasks)
    BY <1>10 DEF Orphans
  <2>3. i \notin Orphans(b)
    BY <1>2 DEF Orphans
  <2> QED
    BY <1>4, <2>1, <2>2, <2>3
<1>14. Cardinality(Orphans(b)') = Cardinality(Orphans(b)) + 1
  <2>1. IsFiniteSet(Orphans(b))
    BY OrphansFinite DEF IInv
  <2> QED
    BY <1>13, <2>1, FS_AddElement
<1>15. Debt' = [Debt EXCEPT ![b] = @ + 1]
  BY <1>5, <1>12, <1>14 DEF Debt
<1>16. Abstract!GiveUp(b)
  BY <1>2, <1>6, <1>7, <1>11, <1>15 DEF Abstract!GiveUp
<1> QED
  BY <1>5, <1>16, NoBoxIsNone DEF AB, Abstract!Next

\* The rest is not seen.
LEMMA HiddenSteps ==
  ASSUME IInv, Receive \/ (\E i \in 1..Len(tasks) : GetNothing(i)) \/ UNCHANGED vars
  PROVE  UNCHANGED Abstract!vars
<1>1. content' = content
  BY DEF Receive, GetNothing, vars
<1>2. SameTasks /\ SamePolls
  <2>1. CASE UNCHANGED tasks
    BY <2>1, TaskFacts DEF SameTasks, SamePolls, IInv
  <2>2. ASSUME NEW i \in 1..Len(tasks), GetNothing(i) PROVE SameTasks /\ SamePolls
    <3> DEFINE e == [tasks[i] EXCEPT !.state = "waiting"]
    <3>1. tasks[i].state \in {"new", "woken"} /\ tasks' = [tasks EXCEPT ![i] = e]
      BY <2>2 DEF GetNothing
    <3>2. tasks \in Seq(Tasks) /\ tasks[i] \in Tasks
      BY TaskFacts DEF IInv
    <3>3. /\ e \in Tasks /\ e.state = "waiting" /\ e.box = tasks[i].box
          /\ e.got = tasks[i].got /\ e.poll = tasks[i].poll
      BY <3>2, NewState
    <3> HIDE DEF e
    <3>4. /\ tasks' \in Seq(Tasks) /\ Len(tasks') = Len(tasks) /\ tasks'[i] = e
          /\ \A j \in 1..Len(tasks) : j # i => tasks'[j] = tasks[j]
      BY <3>1, <3>2, <3>3, Replaced
    <3> QED
      BY <3>1, <3>3, <3>4 DEF SameTasks, SamePolls
  <2> QED
    BY <2>1, <2>2 DEF Receive, vars
<1>3. UNCHANGED <<Asked, LastAnswer, Debt>>
  BY <1>2, SamePollsMap DEF IInv
<1> QED
  BY <1>1, <1>3 DEF Abstract!vars

LEMMA StepMaps == ASSUME IInv, [Next]_vars PROVE AB
<1>1. CASE \E h \in pushing : Push(h)
  BY <1>1, PushMaps
<1>2. CASE \E b \in Boxes : Poll(b)
  BY <1>2, PollMaps
<1>3. CASE \E i \in 1..Len(tasks) : Get(i)
  BY <1>3, GetMaps
<1>4. CASE TimeOut
  BY <1>4, TimeOutMaps
<1>5. CASE Receive \/ (\E i \in 1..Len(tasks) : GetNothing(i)) \/ UNCHANGED vars
  BY <1>5, HiddenSteps DEF AB
<1> QED
  BY <1>1, <1>2, <1>3, <1>4, <1>5 DEF Next, Loop

LEMMA InitMaps == ASSUME Init PROVE Abstract!Init
<1>1. content = [b \in Boxes |-> <<>>] /\ tasks = <<>> /\ Len(tasks) = 0
  BY DEF Init
<1>2. Asked = NoBox /\ LastAnswer = Nothing
  BY <1>1 DEF Asked, LastAnswer, Serving
<1>3. \A b \in Boxes : Orphans(b) = {}
  BY <1>1 DEF Orphans
<1>4. Debt = [b \in Boxes |-> 0]
  BY <1>3, FS_EmptySet DEF Debt
<1> QED
  BY <1>1, <1>2, <1>4, NoBoxIsNone DEF Abstract!Init

\* A box loses at most one webhook for every poll that has given up on it, and every
\* answer is what comes first in its box: the queues implement LossyMailbox.
THEOREM ImplementsLossyMailbox == Spec => Abstract!Safety
<1>1. Init => IInv /\ Abstract!Init
  BY InitI, InitMaps
<1>2. IInv /\ [Next]_vars => IInv' /\ [Abstract!Next]_(Abstract!vars)
  BY StepI, StepMaps DEF AB
<1> QED
  BY <1>1, <1>2, PTL DEF Spec, Abstract!Safety
=============================================================================
