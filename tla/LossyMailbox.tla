----------------------------- MODULE LossyMailbox -----------------------------
(***************************************************************************)
(* What the message queues of the AFGO backchannel promise.  Webhooks wait *)
(* in boxes, some of which hand out the oldest first and some the newest.  *)
(* A poll is answered by the webhook that is first in its box or gives up; *)
(* a poll that has given up still takes one webhook, which nobody sees.    *)
(* So a box loses at most one webhook for each poll that has given up on   *)
(* it.  Tasks, wake-ups and handlers are left out.                         *)
(***************************************************************************)
EXTENDS Sequences, Naturals

CONSTANTS
  Queues,      \* boxes that hand out the oldest webhook
  Stacks,      \* boxes that hand out the newest one
  Webhooks,
  NoBox, Nothing

Boxes == Queues \cup Stacks

VARIABLES
  waiting,     \* [Boxes -> Seq(Webhooks)]
  asked,       \* the box of the poll being served, or NoBox
  answer,      \* the webhook in the last answer, or Nothing
  debt         \* [Boxes -> Nat]: webhooks that will be lost

vars == <<waiting, asked, answer, debt>>

First(b) == IF b \in Queues THEN Head(waiting[b]) ELSE waiting[b][Len(waiting[b])]
Others(b) == IF b \in Queues THEN Tail(waiting[b]) ELSE SubSeq(waiting[b], 1, Len(waiting[b]) - 1)

Init ==
  /\ waiting = [b \in Boxes |-> <<>>]
  /\ asked = NoBox
  /\ answer = Nothing
  /\ debt = [b \in Boxes |-> 0]

Deliver(b) ==
  /\ \E w \in Webhooks : waiting' = [waiting EXCEPT ![b] = Append(@, w)]
  /\ UNCHANGED <<asked, answer, debt>>

Ask(b) ==
  /\ asked = NoBox
  /\ asked' = b
  /\ answer' = Nothing
  /\ UNCHANGED <<waiting, debt>>

Answer(b) ==
  /\ asked = b
  /\ waiting[b] # <<>>
  /\ answer' = First(b)
  /\ waiting' = [waiting EXCEPT ![b] = Others(b)]
  /\ asked' = NoBox
  /\ UNCHANGED debt

GiveUp(b) ==
  /\ asked = b
  /\ asked' = NoBox
  /\ debt' = [debt EXCEPT ![b] = @ + 1]
  /\ UNCHANGED <<waiting, answer>>

Lose(b) ==
  /\ waiting[b] # <<>>
  /\ debt[b] > 0
  /\ waiting' = [waiting EXCEPT ![b] = Others(b)]
  /\ debt' = [debt EXCEPT ![b] = @ - 1]
  /\ UNCHANGED <<asked, answer>>

Next == \E b \in Boxes : Deliver(b) \/ Ask(b) \/ Answer(b) \/ GiveUp(b) \/ Lose(b)

Safety == Init /\ [][Next]_vars

\* Every poll ends.
Answered == asked # NoBox ~> asked = NoBox

Spec == Safety /\ Answered
=============================================================================
