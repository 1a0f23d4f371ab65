---------------------------- MODULE MCPresentProof ----------------------------
(* The scenarios of the feature files of RFC 0037, RFC 0183 and RFC 0454, and of present-proof v3. *)
EXTENDS PresentProof

CONSTANTS t1, t2, t3, t4

MCThreads == {t1, t2, t3, t4}

Version1(steps) == [version |-> 1, steps |-> steps]
Shown(expected) == <<"present", "acknowledge", expected>>

\* T001, T006 and T003 of RFC 0037.
Scenarios0037 ==
  {Version1(<<"request">> \o Shown("verified")),
   Version1(<<"propose", "request">> \o Shown("verified")),
   Version1(<<"request", "propose", "request">> \o Shown("verified"))}

\* T001, T002, T003 and T005 of HIPE 0011.
Scenarios0011 ==
  {Version1(<<"revoke", "request">> \o Shown("verified")),
   Version1(<<"revoke", "issue", "requestValid">> \o Shown("verified")),
   Version1(<<"request", "revoke">> \o Shown("verified")),
   Version1(<<"revoke", "requestValid", "presentRevoked", "acknowledge", "unverified">>)}

\* T001 of RFC 0454, T001.2a of HIPE 0011 and T001 of present-proof v3.
ScenariosWithFormats ==
  {[version |-> 2, steps |-> <<"request">> \o Shown("verified")],
   [version |-> 2, steps |-> <<"revoke", "request">> \o Shown("verified")],
   [version |-> 3, steps |-> <<"propose", "request">> \o Shown("verified")]}

MCScenarios == Scenarios0037 \cup Scenarios0011 \cup ScenariosWithFormats

\* The scenarios are tried again, on agents and backchannels that remember, but for the
\* longest one, which begins three exchanges.
MCAttempts == [s \in MCScenarios |-> IF s.steps[1] = "request" /\ s.steps[2] = "propose" THEN 1 ELSE 2]
=============================================================================
