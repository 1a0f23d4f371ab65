-------------------------- MODULE MCIssueCredential --------------------------
(* The scenarios of the feature files of RFC 0036 and RFC 0453. *)
EXTENDS IssueCredential

CONSTANTS t1, t2

MCThreads == {t1, t2}

Ending == <<"request", "issue", "store">>

\* Beginning with a proposal, with an offer, or with a negotiation.
MCScenarios ==
  {<<"propose", "offer">> \o Ending, <<"offer">> \o Ending,
   <<"propose", "offer", "propose", "offer">> \o Ending,
   <<"offer", "propose", "offer">> \o Ending}

\* A negotiation begins two exchanges at once, the others one per attempt.
MCAttempts == [s \in MCScenarios |-> IF Len(s) > 5 THEN 1 ELSE 2]
=============================================================================
