------------------------------ MODULE Mailbox ------------------------------
(***************************************************************************)
(* What a backchannel promises about GET /agent/response/{topic}/{id}: the *)
(* webhooks filed under one id and type wait in arrival order; a poll is   *)
(* answered by the oldest of them, which then no longer waits, or by {}    *)
(* when none waits at the moment of the answer; and every poll is          *)
(* answered.  Dictionaries, retries, sleeps and the handlers of the other  *)
(* requests are left out.                                                  *)
(*                                                                         *)
(* A webhook may also be withdrawn from the other end by a request that    *)
(* names no id (the implicit-invitation path of DID exchange); that only   *)
(* happens to the types in TailTypes.                                      *)
(***************************************************************************)
EXTENDS Sequences, Naturals

CONSTANTS Ids, Types, TailTypes, Payloads, NoBox, NoPayload

VARIABLES
  waiting,     \* [Ids \X Types -> Seq(Payloads)]: what waits in each box
  asked,       \* the box of the poll being served, or NoBox
  answer       \* the webhook in the last answer: NoPayload stands for {}

mboxVars == <<waiting, asked, answer>>

MBoxes == Ids \X Types

MInit ==
  /\ waiting = [b \in MBoxes |-> <<>>]
  /\ asked = NoBox
  /\ answer = NoPayload

\* A webhook arrives; one webhook may be filed in several boxes.
Deliver ==
  /\ waiting' = [b \in MBoxes |-> waiting'[b]]
  /\ \E m \in Payloads : \A b \in MBoxes :
       waiting'[b] \in {waiting[b], Append(waiting[b], m)}
  /\ UNCHANGED <<asked, answer>>

Ask(b) ==
  /\ asked = NoBox
  /\ asked' = b
  /\ answer' = NoPayload
  /\ UNCHANGED waiting

AnswerOldest(b) ==
  /\ asked = b
  /\ waiting[b] # <<>>
  /\ answer' = Head(waiting[b])
  /\ waiting' = [waiting EXCEPT ![b] = Tail(@)]
  /\ asked' = NoBox

AnswerEmpty(b) ==
  /\ asked = b
  /\ waiting[b] = <<>>
  /\ answer' = NoPayload
  /\ asked' = NoBox
  /\ UNCHANGED waiting

\* A request that names no id is answered by the newest webhook of some box.
WithdrawNewest(b) ==
  /\ b[2] \in TailTypes
  /\ asked = NoBox
  /\ waiting[b] # <<>>
  /\ answer' = waiting[b][Len(waiting[b])]
  /\ waiting' = [waiting EXCEPT ![b] = SubSeq(@, 1, Len(@) - 1)]
  /\ UNCHANGED asked

\* Any other request begins, and the previous answer is gone.
OtherRequest ==
  /\ asked = NoBox
  /\ answer' = NoPayload
  /\ UNCHANGED <<waiting, asked>>

Answer == \E b \in MBoxes : AnswerOldest(b) \/ AnswerEmpty(b)

MNext ==
  \/ Deliver
  \/ \E b \in MBoxes : Ask(b) \/ WithdrawNewest(b)
  \/ OtherRequest
  \/ Answer

MSafety == MInit /\ [][MNext]_mboxVars

MSpec == MSafety /\ WF_mboxVars(Answer)
=============================================================================
