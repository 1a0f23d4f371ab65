------------------------------- MODULE Issuance -------------------------------
(***************************************************************************)
(* What a scenario of issue-credential promises, whatever backchannels     *)
(* stand between the harness and the agents: it works on one exchange at a *)
(* time, the one begun last, in the order of the protocol; a retry begins  *)
(* again with an exchange of its own; and it passes only when the          *)
(* credential of that exchange is stored.  Nothing is said of messages,    *)
(* webhooks, waits or contexts.                                            *)
(***************************************************************************)
EXTENDS Naturals

CONSTANTS Threads, NoThread

VARIABLES
  stage,      \* [Threads -> 0..5]: none, proposed, offered, requested, issued, stored
  current,    \* the exchange the scenario works on
  verdict

vars == <<stage, current, verdict>>

Init ==
  /\ stage = [t \in Threads |-> 0]
  /\ current = NoThread
  /\ verdict = "running"

\* The holder proposes (1), or the issuer offers without a proposal (2).
Start(t) ==
  /\ verdict = "running"
  /\ stage[t] = 0
  /\ \E s \in {1, 2} : stage' = [stage EXCEPT ![t] = s]
  /\ current' = t
  /\ UNCHANGED verdict

Advance ==
  /\ verdict = "running"
  /\ current # NoThread
  /\ stage[current] \in 1..4
  /\ stage' = [stage EXCEPT ![current] = @ + 1]
  /\ UNCHANGED <<current, verdict>>

Fail == verdict = "running" /\ verdict' = "failed" /\ UNCHANGED <<stage, current>>

\* The last exchange is complete.
Pass ==
  /\ verdict = "running"
  /\ current # NoThread
  /\ stage[current] = 5
  /\ verdict' = "passed"
  /\ UNCHANGED <<stage, current>>

Retry ==
  /\ verdict = "failed"
  /\ verdict' = "running"
  /\ current' = NoThread
  /\ UNCHANGED stage

Next == (\E t \in Threads : Start(t)) \/ Advance \/ Fail \/ Pass \/ Retry

\* A scenario ends, with a verdict that is not taken back.
Ends == <>[](verdict # "running")

Spec == Init /\ [][Next]_vars /\ Ends
=============================================================================
